------------------------------- MODULE Canvas -------------------------------
(***************************************************************************)
(* Figures drawn into the frame buffer: vg_draw_rectangle and draw_sprite  *)
(* (lab5/video_gr.c), the rectangles of video_test_pattern (lab5.c), and   *)
(* greenPartOfScreen (proj/src/video.c).  The first figure after vg_init,  *)
(* whose buffer comes from malloc and holds anything.  One step per row,   *)
(* or per rectangle of the pattern.                                        *)
(***************************************************************************)
EXTENDS FrameBuffer

CONSTANT Margin \* how far outside the screen a figure may begin or end

ASSUME MarginAssumption == Margin \in Nat

Uncleared == <<-1, -1>> \* whatever malloc left
Killed == -2            \* the result of a program that divides by zero

VARIABLES
    figure, x, y, width, height, \* the call and its arguments
    no_rectangles,               \* of the pattern
    i, j,                        \* indices of the loops
    buffer,                      \* per place, the cell drawn last
    spilled,                     \* history: a pixel was written past the buffer
    result                       \* returned, or -1

call == <<figure, x, y, width, height, no_rectangles>>
canvasVars == <<call, i, j, buffer, spilled, result>>

(* The arguments of the labs are unsigned, the game's are not. *)
CanvasInit ==
    /\ figure \in {"rectangle", "sprite", "green", "pattern"}
    /\ IF figure = "pattern"
       THEN /\ no_rectangles \in 0 .. XResolution + Margin
            /\ x = 0 /\ y = 0 /\ width = 0 /\ height = 0
       ELSE /\ no_rectangles = 0
            /\ x \in (IF figure = "green" THEN -Margin ELSE 0) .. XResolution + Margin
            /\ y \in (IF figure = "green" THEN -Margin ELSE 0) .. YResolution + Margin
            /\ width \in 0 .. XResolution + Margin
            /\ height \in 0 .. YResolution + Margin
    /\ i = 0 /\ j = 0 /\ result = -1
    /\ buffer = [p \in Places |-> Uncleared] /\ spilled = FALSE

-----------------------------------------------------------------------------
(* The pixels in "drawn", which were accepted, are written. *)
Paint(drawn, cell) ==
    /\ buffer' = [p \in Places |->
                    IF \E d \in drawn : Place(d[1], d[2]) = p THEN cell ELSE buffer[p]]
    /\ spilled' = (spilled \/ \E d \in drawn : Outside(d))

(* A row refused ends the rectangle. *)
RectangleRow ==
    LET row == RowDrawn(x, y + i, width) IN
    /\ figure = "rectangle" /\ result = -1 /\ i < height
    /\ Paint(row \X {y + i}, <<0, 0>>)
    /\ i' = i + 1
    /\ result' = IF row # x .. x + width - 1 THEN 1
                 ELSE IF i' = height THEN 0 ELSE -1
    /\ UNCHANGED <<call, j>>

(* draw_sprite drops the result of vg_draw_pixel. *)
SpriteRow ==
    /\ figure = "sprite" /\ result = -1 /\ i < height
    /\ Paint(RowDrawn(x, y + i, width) \X {y + i}, <<0, 0>>)
    /\ i' = i + 1
    /\ result' = IF i' = height THEN 0 ELSE -1
    /\ UNCHANGED <<call, j>>

(* Mutant: a row is drawn to its end. *)
GreenToEnd(len) == x .. x + len - 1

(* The columns up to the break, if there is one. *)
GreenColumns(len) == {c \in x .. x + len - 1 : c < XResolution \/ x > XResolution}

(* greenPartOfScreen; the row equal to the resolution ends it. *)
GreenRow ==
    /\ figure = "green" /\ result = -1 /\ i < height
    /\ IF y + i = YResolution
       THEN result' = 0 /\ UNCHANGED <<i, buffer, spilled>>
       ELSE /\ Paint({c \in GreenColumns(width) : Accepted(c, y + i)} \X {y + i}, <<0, 0>>)
            /\ i' = i + 1
            /\ result' = IF i' = height THEN 0 ELSE -1
    /\ UNCHANGED <<call, j>>

x_rectangle == XResolution \div no_rectangles

y_rectangle == YResolution \div no_rectangles

(* No rectangles are asked for: the program is killed at the division.     *)
PatternOfNone ==
    /\ figure = "pattern" /\ no_rectangles = 0 /\ result = -1
    /\ result' = Killed
    /\ UNCHANGED <<call, i, j, buffer, spilled>>

(* One rectangle of the pattern, in row i and column j. *)
PatternCell ==
    /\ figure = "pattern" /\ no_rectangles > 0 /\ result = -1
    /\ Paint(UNION {RowDrawn(j * x_rectangle, r, x_rectangle) \X {r} :
                    r \in i * y_rectangle .. (i + 1) * y_rectangle - 1},
             <<i, j>>)
    /\ IF j + 1 < no_rectangles
       THEN j' = j + 1 /\ UNCHANGED <<i, result>>
       ELSE /\ j' = 0 /\ i' = i + 1
            /\ result' = IF i' = no_rectangles \/ i * y_rectangle > YResolution
                         THEN 0 ELSE -1
    /\ UNCHANGED call

(* Nothing to draw. *)
EmptyFigure ==
    /\ figure # "pattern" /\ height = 0 /\ result = -1
    /\ result' = 0
    /\ UNCHANGED <<call, i, j, buffer, spilled>>

CanvasNext ==
    \/ RectangleRow \/ SpriteRow \/ GreenRow
    \/ PatternOfNone \/ PatternCell \/ EmptyFigure

CanvasSpec == CanvasInit /\ [][CanvasNext]_canvasVars

-----------------------------------------------------------------------------
(* The pixels of the screen that were drawn, and those asked for. *)
Drawn == {p \in Screen : buffer[Place(p[1], p[2])] # Uncleared}
Area == Box(x, y, width, height)

(* Pixels of the column past the last, which show one row further down. *)
Wrapped ==
    {p \in Screen : p[1] = 0 /\ <<XResolution, p[2] - 1>> \in Area}

(***************************************************************************)
(* A sprite, wherever it lies, is drawn where it is visible, and so is a   *)
(* rectangle for which vg_draw_rectangle returns 0; nothing else is, but   *)
(* for the pixels of the column that vg_draw_pixel should have refused     *)
(* (video_gr.c:97).  The rectangle returns 1 exactly when it reaches       *)
(* further than that column or row (video_gr.c:73-106, 124-131).           *)
(***************************************************************************)
DrawsVisiblePart ==
    /\ figure \in {"rectangle", "sprite"} /\ result = 0 =>
            Drawn = (Area \cap Screen) \cup Wrapped
    /\ figure = "rectangle" /\ result # -1 =>
            (result = 0 <=> \A d \in Area : Accepted(d[1], d[2]))

(***************************************************************************)
(* What greenPartOfScreen erases is exactly the visible part of the area,  *)
(* wherever the area lies (video.c:93-106): its breaks make up for the     *)
(* column that my_draw_pixel wrongly accepts.                              *)
(***************************************************************************)
GreenClips == figure = "green" /\ result = 0 => Drawn = Area \cap Screen

(***************************************************************************)
(* The rectangles of the pattern have the same size and leave less than    *)
(* one pixel per rectangle ("the width of this black stripe must be        *)
(* minimum", lab5.h:61-63); the stripes stay as malloc left them, black    *)
(* only if that memory was zero (video_gr.c:37).  With no rectangles to    *)
(* draw the program is killed (lab5.c:167).                                *)
(***************************************************************************)
PatternTiles ==
    figure = "pattern" /\ result # -1 =>
        IF no_rectangles = 0 THEN result = Killed ELSE
        /\ \A p \in Screen :
            LET inside == p[1] < no_rectangles * x_rectangle /\ p[2] < no_rectangles * y_rectangle
            IN  buffer[Place(p[1], p[2])] =
                    IF inside THEN <<p[2] \div y_rectangle, p[1] \div x_rectangle>>
                    ELSE Uncleared
        /\ XResolution - no_rectangles * x_rectangle < no_rectangles
        /\ YResolution - no_rectangles * y_rectangle < no_rectangles

(***************************************************************************)
(* The erasing of the game and the pattern never write past the buffer.  A *)
(* sprite does, and a completed rectangle, exactly when it covers a pixel  *)
(* that vg_draw_pixel accepts and the buffer does not have: one of the row *)
(* past the last, or the one after the last pixel (video_gr.c:97).         *)
(***************************************************************************)
StaysInBuffer ==
    /\ figure \in {"green", "pattern"} => ~spilled
    /\ spilled => \E d \in Area : Outside(d)
    /\ figure \in {"rectangle", "sprite"} /\ result = 0 =>
            (spilled <=> \E d \in Area : Outside(d))

(***************************************************************************)
(* What is drawn by a call is what it was asked for, as far as the screen  *)
(* goes, and the exceptions are the pixels one past the resolution.        *)
(***************************************************************************)
DrawnAsAsked == DrawsVisiblePart /\ GreenClips /\ PatternTiles /\ StaysInBuffer
=============================================================================
