----------------------------- MODULE MCFullTable -----------------------------
(***************************************************************************)
(* The table of the program itself: 16 cards, FlipLimit 10, five lives.    *)
(* One arrangement, three cards within the player's reach and short        *)
(* periods of the tick counter keep it small.                              *)
(***************************************************************************)
EXTENDS GameLoop

(* The first and the third card alike, or the first three all different. *)
LikeDeal == {[c \in 0 .. 15 |-> IF c < 4 THEN c % 2 ELSE c \div 2]}

UnlikeDeal == {[c \in 0 .. 15 |-> c % 8]}

ThreeCards == [button : {"none"}, card : {0, 1, 2, NoCard}]

(***************************************************************************)
(* A matched card is never face down, whatever the player clicks: what     *)
(* the judging loop of proj.c:264-293 leaves behind.                       *)
(***************************************************************************)
MatchedNeverDown == flipSuccess \cap isFlipped = {}

(***************************************************************************)
(* Choosing two cards that are no pair costs one life: one pass of the     *)
(* judging loop, which serves one choice, takes one life at most           *)
(* (proj.c:279-287).                                                       *)
(***************************************************************************)
OneLifePerChoice == [][lives' < lives => lives' = lives - 1]_vars

(***************************************************************************)
(* flipACardDown and flipACardUp get the cards they turn to the other      *)
(* side: cards being turned on the Game screen come to rest, or the player *)
(* leaves the screen (game.c:368-380 and 449-460).                         *)
(***************************************************************************)
EveryFlipEnds ==
    isFlipping # {} /\ gs = "Game" ~> isFlipping = {} \/ gs # "Game"
=============================================================================
