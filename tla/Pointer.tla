------------------------------ MODULE Pointer ------------------------------
(***************************************************************************)
(* The pointer and what is under it: update_mouse_position moves it, and   *)
(* flipCardOnClick and the tests of the menus (proj.c) look at where it    *)
(* is.  GameLoop takes the outcome, one button and one card at most, as    *)
(* its spot.                                                               *)
(***************************************************************************)
EXTENDS Integers

CONSTANTS
    XResolution, YResolution, \* of modeinfo, for mode 0x115
    Moves                     \* the <<delta_x, delta_y>> of the packets

CARD_WIDTH == 69
CARD_HEIGHT == 93
Reach == 256 + 128            \* the largest delta and half of it

(* A delta is a byte, less 256 when its sign bit is set (mouse.c:165-174). *)
Deltas == -256 .. 255

ASSUME PointerAssumption ==
    /\ XResolution \in Nat /\ XResolution >= 15
    /\ YResolution \in Nat /\ YResolution >= 15
    /\ Moves \subseteq Deltas \X Deltas

VARIABLES x, y

vars == <<x, y>>

(* create_mouse *)
Init == x = 0 /\ y = 0

(* C division by two: towards zero. *)
Half(d) == IF d >= 0 THEN d \div 2 ELSE -((-d) \div 2)

(* Mutants: no limit at the right; a step to the wrong side. *)
MovedXUnlimited(dx) == IF x + dx < 0 THEN 0 ELSE x + Half(dx)

MovedYDown(dy) ==
    IF y - dy < 0 THEN 0
    ELSE IF y + dy >= YResolution THEN YResolution - 15
    ELSE y + Half(dy)

MovedX(dx) ==
    IF x + dx < 0 THEN 0
    ELSE IF x + dx >= XResolution THEN XResolution - 15
    ELSE x + Half(dx)

(* The second test adds what the step subtracts. *)
MovedY(dy) ==
    IF y - dy < 0 THEN 0
    ELSE IF y + dy >= YResolution THEN YResolution - 15
    ELSE y - Half(dy)

update_mouse_position(dx, dy) == x' = MovedX(dx) /\ y' = MovedY(dy)

Next == \E m \in Moves : update_mouse_position(m[1], m[2])

Spec == Init /\ [][Next]_vars

-----------------------------------------------------------------------------
(* Mutant: columns without a gap between them. *)
ScreenXNoGap(column) == XResolution \div 2 - 2 * CARD_WIDTH + CARD_WIDTH * column

(* getCardsScreenXY *)
ScreenX(column) ==
    XResolution \div 2 - 2 * (CARD_WIDTH + 30) + (CARD_WIDTH + 30) * column

ScreenY(row) ==
    YResolution \div 2 - 2 * (CARD_HEIGHT + 20) + (CARD_HEIGHT + 20) * row

(* The tests of flipCardOnClick, card <<column, row>> at column + row * 4. *)
Over(c, r) ==
    /\ x >= ScreenX(c) /\ x <= ScreenX(c) + CARD_WIDTH
    /\ y >= ScreenY(r) /\ y <= ScreenY(r) + CARD_HEIGHT

Grid == (0 .. 3) \X (0 .. 3)

CardsUnder == {p \in Grid : Over(p[1], p[2])}

(* The boxes of the menu and of the pause screen. *)
OverPlay == x \in 360 .. 445 /\ y \in 300 .. 330
OverInstructions == x \in 280 .. 520 /\ y \in 400 .. 430
OverExit == x \in 360 .. 440 /\ y \in 500 .. 530

-----------------------------------------------------------------------------
(***************************************************************************)
(* Horizontally the pointer stays on the screen.  Vertically the limit is  *)
(* tested with the sign of the move reversed (game.c:156): a move down by  *)
(* d is held back only from YResolution + d on, and the pointer leaves the *)
(* screen below, by one and a half times the largest delta and no more.    *)
(***************************************************************************)
PointerInReach ==
    /\ x \in 0 .. XResolution - 1
    /\ y \in 0 .. YResolution - 1 + Reach

(***************************************************************************)
(* A press chooses one card and one button at most: the sixteen            *)
(* independent tests of flipCardOnClick, borders included, never accept    *)
(* two positions, so that posInArray names the only card set flipping, and *)
(* the three boxes of proj.c:211-221 have no point in common.              *)
(***************************************************************************)
OneSpotUnder ==
    /\ \A p, q \in CardsUnder : p = q
    /\ ~(OverPlay /\ OverInstructions)
    /\ ~(OverPlay /\ OverExit)
    /\ ~(OverInstructions /\ OverExit)

FollowsX(dx) ==
    x' = XResolution - 15 \/ (dx >= 0 /\ x' >= x) \/ (dx <= 0 /\ x' <= x)

FollowsY(dy) ==
    y' = YResolution - 15 \/ (dy >= 0 /\ y' <= y) \/ (dy <= 0 /\ y' >= y)

MovesWithMouse ==
    \A m \in Moves :
        update_mouse_position(m[1], m[2]) => FollowsX(m[1]) /\ FollowsY(m[2])

(***************************************************************************)
(* update_mouse_position moves the pointer the way the mouse went, or puts *)
(* it 15 pixels from the right or the lower border.                        *)
(***************************************************************************)
FollowsMouse == [][MovesWithMouse]_vars
=============================================================================
