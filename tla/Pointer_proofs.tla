--------------------------- MODULE Pointer_proofs ---------------------------
(* Where the pointer can be and what a click can hit, for every resolution *)
(* of at least 15 by 15 and every set of moves.                            *)
EXTENDS Pointer, TLAPS

(* C division by two keeps the sign and at least halves the size.          *)
LEMMA HalfFacts ==
    ASSUME NEW d \in Deltas
    PROVE  /\ Half(d) \in Int
           /\ d >= 0 => Half(d) >= 0 /\ Half(d) <= d
           /\ d <= 0 => Half(d) <= 0 /\ Half(d) >= d /\ Half(d) >= -128
  BY DEF Half, Deltas

(* One move keeps the pointer in reach, wherever it was in reach before.   *)
LEMMA MoveInReach ==
    ASSUME PointerInReach, NEW dx \in Deltas, NEW dy \in Deltas,
           update_mouse_position(dx, dy)
    PROVE  PointerInReach'
<1>1. x' \in 0 .. XResolution - 1
  BY HalfFacts, PointerAssumption
  DEF PointerInReach, update_mouse_position, MovedX, Deltas
<1>2. y' \in 0 .. YResolution - 1 + Reach
  <2>1. x \in Int /\ y \in Int /\ y >= 0
    BY PointerAssumption DEF PointerInReach, Reach
  <2>2. CASE y - dy < 0
    BY <2>1, <2>2, PointerAssumption DEF update_mouse_position, MovedY, Reach
  <2>3. CASE y - dy >= 0 /\ y + dy >= YResolution
    BY <2>1, <2>3, PointerAssumption DEF update_mouse_position, MovedY, Reach, Deltas
  <2>4. CASE y - dy >= 0 /\ y + dy < YResolution
    <3>1. y' = y - Half(dy)
      BY <2>1, <2>4, PointerAssumption DEF update_mouse_position, MovedY, Deltas
    <3>2. CASE dy >= 0
      BY <2>1, <2>4, <3>1, <3>2, HalfFacts, PointerAssumption DEF Reach, Deltas
    <3>3. CASE dy < 0
      BY <2>1, <2>4, <3>1, <3>3, HalfFacts, PointerAssumption DEF Reach, Deltas
    <3> QED BY <3>2, <3>3 DEF Deltas
  <2> QED BY <2>1, <2>2, <2>3, <2>4, PointerAssumption DEF Deltas
<1> QED BY <1>1, <1>2 DEF PointerInReach

(***************************************************************************)
(* The pointer stays on the screen horizontally and leaves it vertically   *)
(* by one and a half times the largest delta at most                       *)
(* (update_mouse_position), whatever the mouse sends.                      *)
(***************************************************************************)
THEOREM InReach == Spec => []PointerInReach
<1>1. Init => PointerInReach
  BY PointerAssumption DEF Init, PointerInReach, Reach
<1>2. PointerInReach /\ [Next]_vars => PointerInReach'
  <2>1. CASE Next
    BY <2>1, MoveInReach, PointerAssumption DEF Next
  <2>2. CASE UNCHANGED vars
    BY <2>2 DEF vars, PointerInReach
  <2> QED BY <2>1, <2>2
<1> QED BY <1>1, <1>2, PTL DEF Spec

(* The cards of two columns, or of two rows, have no coordinate in common. *)
LEMMA CardsApart ==
    ASSUME x \in Int, y \in Int, NEW c \in 0 .. 3, NEW r \in 0 .. 3,
           NEW d \in 0 .. 3, NEW s \in 0 .. 3, Over(c, r), Over(d, s)
    PROVE  c = d /\ r = s
<1> DEFINE X0 == XResolution \div 2
           Y0 == YResolution \div 2
<1>1. X0 \in Int /\ Y0 \in Int
  BY PointerAssumption
<1>2. x >= X0 - 198 + 99 * c /\ x <= X0 - 198 + 99 * c + 69
  BY DEF Over, ScreenX, CARD_WIDTH
<1>3. x >= X0 - 198 + 99 * d /\ x <= X0 - 198 + 99 * d + 69
  BY DEF Over, ScreenX, CARD_WIDTH
<1>4. y >= Y0 - 226 + 113 * r /\ y <= Y0 - 226 + 113 * r + 93
  BY DEF Over, ScreenY, CARD_HEIGHT
<1>5. y >= Y0 - 226 + 113 * s /\ y <= Y0 - 226 + 113 * s + 93
  BY DEF Over, ScreenY, CARD_HEIGHT
<1> HIDE DEF X0, Y0
<1> QED BY <1>1, <1>2, <1>3, <1>4, <1>5

(***************************************************************************)
(* No press hits two of the sixteen cards of flipCardOnClick or two of the *)
(* buttons, whatever the resolution.                                       *)
(***************************************************************************)
THEOREM OneSpot == Spec => []OneSpotUnder
<1>1. PointerInReach => OneSpotUnder
  <2> SUFFICES ASSUME PointerInReach PROVE OneSpotUnder
    OBVIOUS
  <2>1. x \in Int /\ y \in Int
    BY PointerAssumption DEF PointerInReach, Reach
  <2>2. ASSUME NEW p \in CardsUnder, NEW q \in CardsUnder PROVE p = q
    <3>1. /\ p \in Grid /\ Over(p[1], p[2])
          /\ q \in Grid /\ Over(q[1], q[2])
      BY <2>2 DEF CardsUnder
    <3>2. /\ p[1] \in 0 .. 3 /\ p[2] \in 0 .. 3 /\ p = <<p[1], p[2]>>
          /\ q[1] \in 0 .. 3 /\ q[2] \in 0 .. 3 /\ q = <<q[1], q[2]>>
      BY <3>1 DEF Grid
    <3>3. p[1] = q[1] /\ p[2] = q[2]
      BY <2>1, <3>1, <3>2, CardsApart
    <3> QED BY <3>2, <3>3
  <2>3. /\ ~(OverPlay /\ OverInstructions)
        /\ ~(OverPlay /\ OverExit)
        /\ ~(OverInstructions /\ OverExit)
    BY <2>1 DEF OverPlay, OverInstructions, OverExit
  <2> QED BY <2>2, <2>3 DEF OneSpotUnder
<1> QED BY <1>1, InReach, PTL

(***************************************************************************)
(* update_mouse_position moves the pointer the way the mouse went, or puts *)
(* it 15 pixels from the right or the lower border.                        *)
(***************************************************************************)
THEOREM Follows == Spec => FollowsMouse
<1>1. PointerInReach /\ [Next]_vars => [MovesWithMouse]_vars
  <2> SUFFICES ASSUME PointerInReach, NEW m \in Moves,
                      update_mouse_position(m[1], m[2])
               PROVE  FollowsX(m[1]) /\ FollowsY(m[2])
    BY DEF MovesWithMouse
  <2>1. m[1] \in Deltas /\ m[2] \in Deltas
    BY PointerAssumption
  <2>2. x \in Int /\ y \in Int /\ x >= 0 /\ y >= 0
    BY PointerAssumption DEF PointerInReach, Reach
  <2>3. FollowsX(m[1])
    BY <2>1, <2>2, HalfFacts, PointerAssumption
    DEF update_mouse_position, MovedX, FollowsX, Deltas
  <2>4. FollowsY(m[2])
    BY <2>1, <2>2, HalfFacts, PointerAssumption
    DEF update_mouse_position, MovedY, FollowsY, Deltas
  <2> QED BY <2>3, <2>4
<1> QED BY <1>1, InReach, PTL DEF Spec, FollowsMouse
=============================================================================
