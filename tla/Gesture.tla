------------------------------- MODULE Gesture -------------------------------
(***************************************************************************)
(* mouse_test_gesture (lab4.c): the state machine that looks for a line    *)
(* upwards with the left button held, then one downwards with the right    *)
(* button, each at least x_len long, in the packets of the mouse.  One     *)
(* step per packet.                                                        *)
(***************************************************************************)
EXTENDS Integers

CONSTANTS
    x_len, tolerance,
    Deltas,         \* movements in a packet, less one and tolerance
    MinDisplacement \* a line goes back no further than this

ASSUME GestureAssumption ==
    /\ x_len \in Nat /\ tolerance \in Nat
    /\ Deltas \subseteq Nat /\ MinDisplacement \in Nat

VARIABLES
    counter_exit, x_displacement,
    line,     \* history: length of the line under way, or of the last one
    abandoned \* history: the last attempt was given up at its very end

gestureVars == <<counter_exit, x_displacement, line, abandoned>>

GestureInit == counter_exit = 0 /\ x_displacement = 0 /\ line = 0 /\ abandoned = FALSE

-----------------------------------------------------------------------------
Goto(state) == counter_exit' = state

KeepsLine == UNCHANGED <<x_displacement, line>>

(* A packet that continues a line. *)
Along(dx, next) ==
    /\ x_displacement' = x_displacement + dx /\ line' = line + dx
    /\ x_displacement' >= -MinDisplacement
    /\ Goto(IF x_displacement' >= x_len THEN next ELSE counter_exit)
    /\ UNCHANGED abandoned

(* Mutant: the length of a line given up is kept for the next one. *)
GiveUpKeeping == Goto(0) /\ KeepsLine /\ abandoned' = FALSE

GiveUp == Goto(0) /\ x_displacement' = 0 /\ line' = 0 /\ abandoned' = FALSE

LeftPressed(lb) ==
    /\ counter_exit = 0 /\ lb
    /\ Goto(1) /\ line' = 0
    /\ UNCHANGED <<x_displacement, abandoned>>

LeftLine(lb, dx, dy) ==
    /\ counter_exit = 1
    /\ \/ lb /\ dx + tolerance >= 0 /\ dy + tolerance >= 0 /\ Along(dx, 2)
       \/ ~(lb /\ dx + tolerance >= 0 /\ dy + tolerance >= 0) /\ GiveUp

LeftReleased(lb) ==
    /\ counter_exit = 2 /\ ~lb
    /\ Goto(3) /\ x_displacement' = 0 /\ UNCHANGED <<line, abandoned>>

RightPressed(rb) ==
    /\ counter_exit = 3 /\ rb
    /\ Goto(4) /\ line' = 0
    /\ UNCHANGED <<x_displacement, abandoned>>

RightLine(rb, dx, dy) ==
    /\ counter_exit = 4
    /\ \/ rb /\ dx + tolerance >= 0 /\ dy - tolerance <= 0 /\ Along(dx, 5)
       \/ ~(rb /\ dx + tolerance >= 0 /\ dy - tolerance <= 0) /\ GiveUp

(* The left button is asked for and makes no difference; with the right    *)
(* button still held the attempt is given up, its length kept.             *)
RightReleased(rb) ==
    /\ counter_exit = 5
    /\ \/ ~rb /\ Goto(6) /\ UNCHANGED abandoned
       \/ rb /\ Goto(0) /\ abandoned' = TRUE
    /\ KeepsLine

Packet(lb, rb, dx, dy) ==
    \/ LeftPressed(lb) \/ LeftLine(lb, dx, dy) \/ LeftReleased(lb)
    \/ RightPressed(rb) \/ RightLine(rb, dx, dy) \/ RightReleased(rb)

GestureNext ==
    \E lb, rb \in BOOLEAN, dx, dy \in {d - tolerance - 1 : d \in Deltas} :
        Packet(lb, rb, dx, dy)

GestureSpec == GestureInit /\ [][GestureNext]_gestureVars

-----------------------------------------------------------------------------
(***************************************************************************)
(* The first line is as long as asked, packets that go back a little       *)
(* included, unless the attempt before it was abandoned at its very end    *)
(* (lab4.c:213-215), which leaves the old length to be added to.           *)
(***************************************************************************)
FirstLineLong == counter_exit = 2 => line >= x_len \/ abandoned

(***************************************************************************)
(* When the gesture is recognised its second line is as long as asked,     *)
(* counted from the packet after the one that pressed the button, whatever *)
(* was abandoned before (lab4.c:189-202).                                  *)
(***************************************************************************)
SecondLineLong == counter_exit \in {5, 6} => line >= x_len

(* The lines that mouse_test_gesture accepts are long enough (lab4.c:175-215). *)
LinesAreLong == FirstLineLong /\ SecondLineLong
=============================================================================
