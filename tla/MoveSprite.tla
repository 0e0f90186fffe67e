----------------------------- MODULE MoveSprite -----------------------------
(***************************************************************************)
(* The movement of video_test_move (lab5.c:333-380): a sprite goes from    *)
(* (xi, yi) to (xf, yf) along one axis, by speed pixels every frame, or by *)
(* one pixel every -speed frames.  One step per frame, a timer interrupt   *)
(* served; until the user leaves with ESC.  The sprite begins on the       *)
(* screen and may hang over its edges.                                     *)
(***************************************************************************)
EXTENDS FrameBuffer

CONSTANTS
    MaxSide, \* of the image
    MaxSpeed

(* No step leaves uint16_t: mode 0x105 is 1024 by 768, speed an int16_t. *)
ASSUME MoveAssumption ==
    /\ MaxSide \in Nat \ {0} /\ MaxSpeed \in Nat
    /\ XResolution + MaxSpeed <= 65536 /\ YResolution + MaxSpeed <= 65536

VARIABLES
    img,          \* width and height of the image
    xi, yi, xf, yf, speed,
    counter,      \* modulo -speed, which is all that is asked of it
    done_moving,
    shown,        \* the places of the buffer that show the image
    start,        \* history: where the sprite was at first
    moves,        \* history: how many times it was moved
    overhung      \* history: it was erased where it hung over the right edge

arguments == <<img, xf, yf, speed>>
histories == <<start, moves, overhung>>
moveVars == <<xi, yi, arguments, counter, done_moving, shown, histories>>

-----------------------------------------------------------------------------
(* What draw_sprite draws of the image: every pixel that is accepted. *)
Image(a, b) ==
    {Place(d[1], d[2]) : d \in {d \in Box(a, b, img.width, img.height) : Accepted(d[1], d[2])}}
        \cap Places

(* Mutant: the rectangle stops before its last row. *)
ErasedButLast(a, b) ==
    {Place(d[1], d[2]) : d \in {d \in Box(a, b, img.width, img.height - 1) :
                                    Accepted(d[1], d[2])}}

(* What vg_draw_rectangle erases: the first row not complete is the last.  *)
Erased(a, b) ==
    {Place(d[1], d[2]) :
        d \in {d \in Box(a, b, img.width, img.height) :
                /\ Accepted(d[1], d[2])
                /\ \A r \in b .. d[2] - 1 :
                        RowDrawn(a, r, img.width) = a .. a + img.width - 1}}

(* "either xf is equal to xi or yf is equal to yi" (lab5.c:336). *)
MoveInit ==
    /\ img \in [width : 1 .. MaxSide, height : 1 .. MaxSide]
    /\ xi \in 0 .. XResolution - 1 /\ xf \in 0 .. XResolution - 1
    /\ yi \in 0 .. YResolution - 1 /\ yf \in 0 .. YResolution - 1
    /\ xi = xf \/ yi = yf
    /\ speed \in -MaxSpeed .. MaxSpeed
    /\ counter = 0 /\ done_moving = FALSE /\ shown = Image(xi, yi)
    /\ start = <<xi, yi>> /\ moves = 0 /\ overhung = FALSE

-----------------------------------------------------------------------------
Counted == IF speed < 0 THEN (counter + 1) % -speed ELSE counter

(* A frame in which the sprite moves, and by how much. *)
MovesNow == speed > 0 \/ (speed < 0 /\ Counted = 0)

Displacement == IF speed > 0 THEN speed ELSE 1

(* uint16_t; a position past the end becomes the end. *)
Advanced(from, to) ==
    LET next == (from + Displacement) % 65536 IN IF next > to THEN to ELSE next

(* A row of the rectangle that erases the sprite is refused. *)
Overhangs(a) == a + img.width - 1 > XResolution

(* Erased where it was, moved along its axis, drawn again. *)
Move ==
    /\ xi = xf \/ yi = yf
    /\ IF xi = xf
       THEN yi' = Advanced(yi, yf) /\ UNCHANGED xi
       ELSE xi' = Advanced(xi, xf) /\ UNCHANGED yi
    /\ shown' = (shown \ Erased(xi, yi)) \cup Image(xi', yi')
    /\ done_moving' = (xi' = xf /\ yi' = yf)
    /\ moves' = moves + 1
    /\ overhung' = (overhung \/ Overhangs(xi))
    /\ UNCHANGED start

Frame ==
    /\ ~done_moving
    /\ counter' = Counted
    /\ IF MovesNow THEN Move ELSE UNCHANGED <<xi, yi, done_moving, shown, histories>>
    /\ UNCHANGED arguments

MoveNext == Frame

MoveSpec == MoveInit /\ [][MoveNext]_moveVars

(* The timer goes on. *)
MoveFairness == WF_moveVars(MoveNext)

-----------------------------------------------------------------------------
(* How far the sprite has to go, which is less than 0 to the left or up. *)
Distance == (xf - start[1]) + (yf - start[2])

(***************************************************************************)
(* The sprite is at its end and shown there and nowhere else, unless       *)
(* vg_draw_rectangle gave up on a place where it hung over the right edge  *)
(* (its result is dropped, lab5.c:337-369).  It took as many moves as the  *)
(* distance needs at its speed, the last one perhaps shorter; but to the   *)
(* left or upwards, however far, it took one (lab5.c:339-341).             *)
(***************************************************************************)
Arrived ==
    /\ xi = xf /\ yi = yf
    /\ Image(xf, yf) \subseteq shown
    /\ ~overhung => shown = Image(xf, yf)
    /\ IF Distance <= 0 THEN moves = 1
       ELSE (moves - 1) * Displacement < Distance /\ Distance <= moves * Displacement

(***************************************************************************)
(* Whatever its direction, the sprite arrives, unless its speed is 0, and  *)
(* stays.                                                                  *)
(***************************************************************************)
Arrives == <>(speed = 0 \/ [](done_moving /\ Arrived))
=============================================================================
