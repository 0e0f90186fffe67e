------------------------------ MODULE GameLoop ------------------------------
(***************************************************************************)
(* The main loop of LCOMEMORY (proj_main_loop): the handlers of the three  *)
(* interrupts it subscribes to and the screens the timer handler switches  *)
(* on.  The loop is one thread: a tick that animates cards runs through    *)
(* the program points "draw" or "preview" (one step per iteration of       *)
(* draw_game_cards) and "play" before the next notification is received.   *)
(***************************************************************************)
EXTENDS Board

CONSTANTS
    Spots,        \* what may be under the pointer: a button box and a card
    Keys,         \* scancodes the keyboard may deliver
    MaxLives,     \* lives of a new player (5)
    LifeModulus,  \* lives is unsigned: arithmetic modulo 2^32
    PreviewTicks, \* tmr_tck_counter is tested modulo 240 ...
    VictoryTicks  \* ... and modulo 120

Screens == {"Menu", "Game", "Pause", "Instructions", "Exit"}
NoKey == "0x00"
NoCard == -1
Buttons == {"play", "instructions", "exit", "none"}
Nowhere == [button |-> "none", card |-> NoCard]
AllSpots == [button : Buttons, card : Cards \cup {NoCard}]

ASSUME LoopAssumption ==
    /\ Spots \subseteq AllSpots
    /\ Keys \subseteq {"P", "I", "E", "ESC", "other"}
    /\ MaxLives \in Nat \ {0} /\ LifeModulus \in Nat
    /\ MaxLives < LifeModulus /\ N < LifeModulus
    /\ PreviewTicks \in Nat \ {0} /\ VictoryTicks \in Nat \ {0}
    /\ PreviewTicks % VictoryTicks = 0 /\ PreviewTicks % 2 = 0

VARIABLES
    gs, prevState,              \* the screen, and where Instructions returns
    initGame,                   \* the cards of a new game are still shown
    game_over, victory,         \* the verdict shown by the Exit screen
    condition,                  \* the loop goes on
    scancode,                   \* last byte read from the keyboard
    lb, spot,                   \* packet1.lb and what mouse.x, mouse.y are over
    tmr_tck_counter,            \* modulo PreviewTicks
    lives, isAlive,             \* p1
    pc, drawPos,                \* program point of the handler, loop index
    mixed                       \* history: cards were animated both ways at once

input == <<scancode, lb, spot>>
player == <<lives, isAlive>>
verdict == <<game_over, victory>>
control == <<pc, drawPos, mixed>>
vars == <<board, gs, prevState, initGame, verdict, condition, input,
          tmr_tck_counter, player, control>>

Init ==
    /\ face \in Deals
    /\ isFlipped = {} /\ isFlipping = {} /\ flipSuccess = {}
    /\ otherSide = {} /\ increaseWidth = 1
    /\ gs = "Menu" /\ prevState = "Exit"
    /\ initGame = TRUE /\ condition = TRUE
    /\ game_over = FALSE /\ victory = FALSE
    /\ scancode = NoKey /\ lb = FALSE /\ spot = Nowhere
    /\ tmr_tck_counter = 0
    /\ lives = MaxLives /\ isAlive = TRUE
    /\ pc = "receive" /\ drawPos = 0 /\ mixed = FALSE

Receiving == pc = "receive" /\ condition

-----------------------------------------------------------------------------
(* kbc_ih keeps only the last scancode; it stays until a screen clears it. *)
KeyInterrupt ==
    /\ Receiving
    /\ scancode' \in Keys
    /\ UNCHANGED <<board, gs, prevState, initGame, verdict, condition, lb, spot,
                   tmr_tck_counter, player, control>>

(* A mouse packet replaces the button state and moves the pointer. *)
MouseInterrupt ==
    /\ Receiving
    /\ lb' \in BOOLEAN
    /\ spot' \in Spots
    /\ UNCHANGED <<board, gs, prevState, initGame, verdict, condition, scancode,
                   tmr_tck_counter, player, control>>

-----------------------------------------------------------------------------
(* Mutant: the counter is set back to one. *)
TicksFromOne == IF tmr_tck_counter + 1 = PreviewTicks THEN 1 ELSE tmr_tck_counter + 1

Ticks == IF tmr_tck_counter + 1 = PreviewTicks THEN 0 ELSE tmr_tck_counter + 1

timer_int_handler == tmr_tck_counter' = Ticks

TimerInterrupt(screen) == Receiving /\ gs = screen

Pressed(button) == lb /\ spot.button = button

(***************************************************************************)
(* The Menu: Play, Instructions and Exit are tested one after the other on *)
(* inputs that the earlier tests may already have cleared.                 *)
(***************************************************************************)
PlayChosen == scancode = "P" \/ Pressed("play")

InstructionsChosen ==
    /\ ~PlayChosen
    /\ scancode = "I" \/ Pressed("instructions")

MenuExitChosen ==
    /\ ~PlayChosen
    /\ scancode = "E" \/ (Pressed("exit") /\ ~InstructionsChosen)

MenuRest == UNCHANGED <<board, prevState, initGame, verdict, condition, spot,
                        player, control>>

MenuPlay ==
    /\ TimerInterrupt("Menu") /\ PlayChosen
    /\ gs' = "Game" /\ tmr_tck_counter' = 0
    /\ scancode' = NoKey /\ lb' = FALSE
    /\ MenuRest

MenuInstructions ==
    /\ TimerInterrupt("Menu") /\ InstructionsChosen /\ ~MenuExitChosen
    /\ timer_int_handler
    /\ gs' = "Instructions" /\ lb' = FALSE
    /\ UNCHANGED scancode /\ MenuRest

MenuExit ==
    /\ TimerInterrupt("Menu") /\ MenuExitChosen
    /\ timer_int_handler
    /\ gs' = "Exit" /\ lb' = (lb /\ ~InstructionsChosen)
    /\ UNCHANGED scancode /\ MenuRest

MenuIdle ==
    /\ TimerInterrupt("Menu")
    /\ ~PlayChosen /\ ~InstructionsChosen /\ ~MenuExitChosen
    /\ timer_int_handler
    /\ UNCHANGED <<gs, scancode, lb>> /\ MenuRest

-----------------------------------------------------------------------------
(***************************************************************************)
(* The Pause menu: a Resume by click clears the scancode (so no key is     *)
(* seen by the later tests) but keeps packet1.lb; a Resume by key is       *)
(* overridden by a press on one of the two other boxes.                    *)
(***************************************************************************)
PauseKey(k) == scancode = k /\ ~Pressed("play")

PauseInstructionsChosen == PauseKey("I") \/ Pressed("instructions")

PauseExitChosen ==
    /\ ~PauseInstructionsChosen
    /\ PauseKey("E") \/ Pressed("exit")

PauseResumeChosen ==
    /\ ~PauseInstructionsChosen /\ ~PauseExitChosen
    /\ scancode = "P" \/ Pressed("play")

PauseRest == UNCHANGED <<board, initGame, verdict, condition, spot, player, control>>

PauseResume ==
    /\ TimerInterrupt("Pause") /\ PauseResumeChosen
    /\ timer_int_handler
    /\ gs' = "Game" /\ scancode' = NoKey
    /\ UNCHANGED <<prevState, lb>> /\ PauseRest

PauseInstructions ==
    /\ TimerInterrupt("Pause") /\ PauseInstructionsChosen
    /\ timer_int_handler
    /\ gs' = "Instructions" /\ prevState' = "Game"
    /\ scancode' = NoKey /\ lb' = FALSE
    /\ PauseRest

PauseExit ==
    /\ TimerInterrupt("Pause") /\ PauseExitChosen
    /\ timer_int_handler
    /\ gs' = "Exit" /\ scancode' = NoKey
    /\ UNCHANGED <<prevState, lb>> /\ PauseRest

PauseIdle ==
    /\ TimerInterrupt("Pause")
    /\ ~PauseResumeChosen /\ ~PauseInstructionsChosen /\ ~PauseExitChosen
    /\ timer_int_handler
    /\ UNCHANGED <<gs, prevState, scancode, lb>> /\ PauseRest

-----------------------------------------------------------------------------
InstructionsRest == UNCHANGED <<board, initGame, verdict, condition, scancode,
                                spot, player, control>>

(* Opened from a paused game: ESC or any press goes back to the game. *)
InstructionsOfGame ==
    /\ TimerInterrupt("Instructions") /\ prevState = "Game"
    /\ timer_int_handler
    /\ \/ /\ scancode = "ESC" \/ lb
          /\ gs' = "Game" /\ prevState' = "Instructions" /\ lb' = FALSE
       \/ /\ scancode # "ESC" /\ ~lb
          /\ UNCHANGED <<gs, prevState, lb>>
    /\ InstructionsRest

(* Opened from the Menu: only ESC goes back, and every tick drops the press. *)
InstructionsOfMenu ==
    /\ TimerInterrupt("Instructions") /\ prevState # "Game"
    /\ timer_int_handler
    /\ gs' = IF scancode = "ESC" THEN "Menu" ELSE gs
    /\ lb' = FALSE
    /\ UNCHANGED prevState /\ InstructionsRest

-----------------------------------------------------------------------------
initializePlayer == lives' = MaxLives /\ isAlive' = TRUE

(* Mutant: the verdict of the last game is kept. *)
NewGameKeepsVerdict ==
    /\ gs' = "Menu" /\ initGame' = TRUE
    /\ UNCHANGED verdict
    /\ DealCards
    /\ initializePlayer

(* What the end of a verdict resets on the way back to the Menu. *)
NewGame ==
    /\ gs' = "Menu" /\ initGame' = TRUE
    /\ game_over' = FALSE /\ victory' = FALSE
    /\ DealCards
    /\ initializePlayer

(* The verdict stays on the screen until the counter is a multiple of 240. *)
ExitVerdict ==
    /\ TimerInterrupt("Exit") /\ (game_over \/ victory)
    /\ timer_int_handler
    /\ \/ Ticks = 0 /\ NewGame
       \/ /\ Ticks # 0
          /\ UNCHANGED <<board, gs, initGame, verdict, player>>
    /\ UNCHANGED <<prevState, condition, input, control>>

(* Mutant: the loop goes on. *)
ExitQuitGoesOn ==
    /\ TimerInterrupt("Exit") /\ ~game_over /\ ~victory
    /\ timer_int_handler
    /\ UNCHANGED <<board, gs, prevState, initGame, verdict, condition, input, player,
                   control>>

ExitQuit ==
    /\ TimerInterrupt("Exit") /\ ~game_over /\ ~victory
    /\ timer_int_handler
    /\ condition' = FALSE
    /\ UNCHANGED <<board, gs, prevState, initGame, verdict, input, player, control>>

-----------------------------------------------------------------------------
(* A new game shows its cards until the counter is a multiple of 240. *)
GamePreview ==
    /\ TimerInterrupt("Game") /\ initGame
    /\ timer_int_handler
    /\ \/ /\ Ticks = 0
          /\ isFlipping' = Cards /\ initGame' = FALSE
          /\ pc' = "preview" /\ drawPos' = 0
       \/ /\ Ticks # 0
          /\ UNCHANGED <<isFlipping, initGame, pc, drawPos>>
    /\ UNCHANGED <<face, isFlipped, flipSuccess, otherSide, increaseWidth, gs,
                   prevState, verdict, condition, input, player, mixed>>

(* Every second tick of a running game draws; without an animated card the *)
(* drawing changes nothing but pixels.                                     *)
GameTick ==
    /\ TimerInterrupt("Game") /\ ~initGame
    /\ timer_int_handler
    /\ \/ /\ Ticks % 2 = 0 /\ isFlipping # {}
          /\ pc' = "draw" /\ drawPos' = 0
       \/ /\ Ticks % 2 # 0 \/ isFlipping = {}
          /\ pc' = "play" /\ UNCHANGED drawPos
    /\ UNCHANGED <<board, gs, prevState, initGame, verdict, condition, input,
                   player, mixed>>

LastCard == drawPos = N - 1

(* Drawing an animated card divides its width by the shared divisor. *)
DividesByZero == drawPos \in isFlipping /\ increaseWidth = 0

(* draw_game_cards, then back to the caller. *)
DrawGameCards ==
    /\ pc \in {"draw", "preview"} /\ ~DividesByZero
    /\ DrawCard(drawPos)
    /\ drawPos' = (IF LastCard THEN 0 ELSE drawPos + 1)
    /\ pc' = (IF ~LastCard THEN pc ELSE IF pc = "draw" THEN "play" ELSE "receive")
    /\ UNCHANGED <<face, flipSuccess, gs, prevState, initGame, verdict, condition,
                   input, tmr_tck_counter, player, mixed>>

(* The processor ends the program. *)
DivisionFault ==
    /\ pc \in {"draw", "preview"} /\ DividesByZero
    /\ pc' = "killed"
    /\ UNCHANGED <<board, gs, prevState, initGame, verdict, condition, input,
                   tmr_tck_counter, player, drawPos, mixed>>

-----------------------------------------------------------------------------
Unsigned(n) == IF n < 0 THEN n + LifeModulus ELSE n

(* The cards being turned once the click, if there is one, is served. *)
Clicked(posInArray) ==
    IF lb /\ isFlipping = {}
    THEN flipCardOnClick({spot.card} \ {NoCard}, posInArray)
    ELSE isFlipping

(* isAnyCardFlipping is computed, before the click, only while lb is set. *)
Judging == ~lb \/ isFlipping = {}

BothWays(flipping) == flipping \cap isFlipped # {} /\ flipping \ isFlipped # {}

(* Mutant: only the count after the whole pass is compared with zero. *)
LastLifeLostAtTheEnd(lost) == lost > 0 /\ Unsigned(lives - lost) = 0

LastLifeLost(lost) == \E k \in 1 .. lost : Unsigned(lives - k) = 0

(* Mutant: one card more than there are must be matched. *)
EndGameTooLate ==
    Cardinality(flipSuccess') > N /\ tmr_tck_counter % VictoryTicks = 0

EndGame == flipSuccess' = Cards /\ tmr_tck_counter % VictoryTicks = 0

(* Two lives may be lost in one pass, so the counter may pass zero. *)
JudgeTable(flipping, lost) ==
    /\ IF Judging THEN Judge(flipping) ELSE UNCHANGED <<isFlipping, flipSuccess>>
    /\ lives' = Unsigned(lives - lost)
    /\ isAlive' = (isAlive /\ ~LastLifeLost(lost))
    /\ game_over' = (game_over \/ LastLifeLost(lost))
    /\ victory' = (victory \/ EndGame)
    /\ gs' = IF EndGame \/ LastLifeLost(lost) THEN "Exit"
             ELSE IF scancode = "ESC" THEN "Pause" ELSE gs

(***************************************************************************)
(* The rest of a tick of the running game: ESC, the click, the judging of  *)
(* the cards that are face up, and the test for the end of the game.  The  *)
(* assignments to gs follow one another, so the last one that applies wins.*)
(***************************************************************************)
GamePlay ==
    /\ pc = "play"
    /\ \E posInArray \in IF spot.card = NoCard THEN Cards ELSE {spot.card} :
          LET flipping == Clicked(posInArray)
          IN  JudgeTable(flipping, IF Judging THEN Lost(flipping) ELSE 0)
    /\ mixed' = (mixed \/ BothWays(isFlipping'))
    /\ pc' = "receive"
    /\ UNCHANGED <<face, isFlipped, otherSide, increaseWidth, prevState, initGame,
                   condition, input, tmr_tck_counter, drawPos>>

-----------------------------------------------------------------------------
(* A timer interrupt and what the loop does to serve it. *)
TimerStep ==
    \/ MenuPlay \/ MenuInstructions \/ MenuExit \/ MenuIdle
    \/ PauseResume \/ PauseInstructions \/ PauseExit \/ PauseIdle
    \/ InstructionsOfGame \/ InstructionsOfMenu
    \/ ExitVerdict \/ ExitQuit
    \/ GamePreview \/ GameTick \/ DrawGameCards \/ DivisionFault \/ GamePlay

Next == KeyInterrupt \/ MouseInterrupt \/ TimerStep

Spec == Init /\ [][Next]_vars

(* The timer keeps interrupting and the loop keeps serving it; the player  *)
(* owes nothing.                                                           *)
FairSpec == Spec /\ WF_vars(TimerStep)
-----------------------------------------------------------------------------
(***************************************************************************)
(* Types.  Not all of them are declared in C: the loop index of            *)
(* draw_game_cards stays inside cardArray, and only known screens are      *)
(* reached.                                                                *)
(***************************************************************************)
TypeOK ==
    /\ face \in [Cards -> Faces]
    /\ isFlipped \subseteq Cards /\ isFlipping \subseteq Cards
    /\ flipSuccess \subseteq Cards /\ otherSide \subseteq Cards
    /\ increaseWidth \in Int
    /\ gs \in Screens /\ prevState \in {"Exit", "Game", "Instructions"}
    /\ initGame \in BOOLEAN /\ condition \in BOOLEAN
    /\ game_over \in BOOLEAN /\ victory \in BOOLEAN
    /\ scancode \in Keys \cup {NoKey} /\ lb \in BOOLEAN /\ spot \in AllSpots
    /\ tmr_tck_counter \in 0 .. PreviewTicks - 1
    /\ lives \in 0 .. LifeModulus - 1 /\ isAlive \in BOOLEAN
    /\ pc \in {"receive", "draw", "preview", "play", "killed"} /\ drawPos \in Cards
    /\ mixed \in BOOLEAN

(***************************************************************************)
(* While a game can go on (it is shown, paused, or its instructions are    *)
(* read) the player is alive with 1 .. MaxLives lives: the unsigned        *)
(* counter of proj.c:281 never passes zero unnoticed.                      *)
(***************************************************************************)
LivesInPlay ==
    gs \in {"Game", "Pause"} \/ prevState = "Game"
        => lives \in 1 .. MaxLives /\ isAlive

(***************************************************************************)
(* The verdict of proj.c:282-286 and 302-307 is unique and true: the Exit  *)
(* screen never holds both flags, a victory has every card matched, and a  *)
(* player who lost is not alive.                                           *)
(***************************************************************************)
VerdictIsTrue ==
    /\ ~(game_over /\ victory)
    /\ game_over \/ victory => gs = "Exit"
    /\ victory => flipSuccess = Cards /\ isAlive
    /\ game_over <=> ~isAlive

(***************************************************************************)
(* A game starts from a fresh table: initialize_game_cards and             *)
(* initializePlayer run on every way back to the Menu, and increaseWidth   *)
(* and otherSide, which they do not reset, are back at their start values  *)
(* (unless cards have been animated both ways at once).                    *)
(***************************************************************************)
NewGameIsFresh ==
    gs = "Menu" \/ (gs = "Instructions" /\ prevState # "Game") \/ initGame =>
        /\ initGame /\ lives = MaxLives /\ isAlive
        /\ isFlipped = {} /\ isFlipping = {} /\ flipSuccess = {}
        /\ mixed \/ (otherSide = {} /\ increaseWidth = 1)

MatchedInPairs ==
    \A c \in flipSuccess : \E d \in flipSuccess \ {c} : face[c] = face[d]

(***************************************************************************)
(* Matched cards stay face up and still (unless cards have been animated   *)
(* both ways at once), and are matched with their like.                    *)
(***************************************************************************)
MatchedStayUp ==
    /\ mixed \/ flipSuccess \cap (isFlipped \cup isFlipping) = {}
    /\ MatchedInPairs

(***************************************************************************)
(* The shared divisor of game.c:329-448 stays positive (it divides the     *)
(* width of every animated card, and zero would end the program) and is 1  *)
(* whenever nothing is animated.                                           *)
(***************************************************************************)
WidthIsSound ==
    mixed \/ /\ increaseWidth >= 1 /\ pc # "killed"
             /\ isFlipping = {} => increaseWidth = 1 /\ otherSide = {}

(***************************************************************************)
(* Between two interrupts of a running game at most two unmatched cards    *)
(* are face up, and two of them are different and on their way down.       *)
(***************************************************************************)
AtMostTwoOpen ==
    pc = "receive" /\ ~initGame /\ ~mixed =>
        \A a, b \in Open : a # b =>
            Open = {a, b} /\ face[a] # face[b] /\ Open = isFlipping

LifeLostFairly ==
    lives' # lives /\ gs' # "Menu" /\ ~mixed' =>
        /\ lives' = lives - 1
        /\ \E a, b \in Cards \ (isFlipped \cup flipSuccess) :
              face[a] # face[b] /\ isFlipping = {} /\ isFlipping' = {a, b}

(***************************************************************************)
(* A life is lost only for a wrong pair, and one life for one pair: two    *)
(* cards that lay still, face up and unlike, start to turn back down.      *)
(***************************************************************************)
LifeForWrongPair == [][LifeLostFairly]_vars

(***************************************************************************)
(* Liveness, from the ticks alone.  The preview of a new game ends (the    *)
(* loop never skips a multiple of 240, proj.c:229).                        *)
(***************************************************************************)
PreviewEnds == gs = "Game" /\ initGame ~> ~initGame

(* Every Exit screen leads back to the Menu or out of the loop. *)
ExitLeads == gs = "Exit" ~> gs = "Menu" \/ ~condition

(***************************************************************************)
(* Cards being turned come to rest unless the player leaves the Game       *)
(* screen or cards have been animated both ways at once.                   *)
(***************************************************************************)
FlipEnds ==
    isFlipping # {} /\ gs = "Game" ~> isFlipping = {} \/ gs # "Game" \/ mixed

(* A table with every card matched is won, unless the player pauses (or a  *)
(* division by zero ends the program).                                     *)
AllMatchedWins ==
    flipSuccess = Cards /\ gs = "Game" ~> victory \/ gs = "Pause" \/ pc = "killed"

-----------------------------------------------------------------------------
(* A player who lost has no life left even if the unsigned counter has     *)
(* gone round.                                                             *)
Memory == INSTANCE MemoryGame WITH
    deal <- face,
    matched <- flipSuccess,
    livesLeft <- IF game_over THEN 0 ELSE lives,
    outcome <- IF game_over THEN "lost" ELSE IF victory THEN "won" ELSE "playing"

(***************************************************************************)
(* The loop plays memory: its judging and its Exit screen implement the    *)
(* rules of MemoryGame, whatever the player does.                          *)
(***************************************************************************)
PlaysMemory == Memory!Rules
=============================================================================
