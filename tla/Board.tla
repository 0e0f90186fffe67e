------------------------------- MODULE Board -------------------------------
(***************************************************************************)
(* The table of cards: proj/src/game.c and the part of proj/src/proj.c     *)
(* that judges the cards turned up.  A boolean field of cardArray is the   *)
(* set of the positions where it is true, so isFlipped is the set of the   *)
(* cards that lie face DOWN (the source's sense of the word).              *)
(***************************************************************************)
EXTENDS Integers, FiniteSets

CONSTANTS
    N,         \* cards on the table (16)
    FlipLimit, \* width divisor at which a turning card shows its other side (10)
    Faces,     \* the <<num, suit>> pairs
    Deals,     \* the arrangements initialize_game_cards may leave in cardArray
    Runaway    \* a falling increaseWidth is held at -Runaway

Cards == 0 .. N - 1

(***************************************************************************)
(* The draw loop turns all N cards within one frame only because there are *)
(* more cards than FlipLimit; every face is on exactly two cards.          *)
(***************************************************************************)
ASSUME BoardAssumption ==
    /\ N \in Nat /\ FlipLimit \in Nat \ {0} /\ FlipLimit < N
    /\ Runaway \in Nat \ {0}
    /\ Deals # {}
    /\ \A d \in Deals :
          /\ d \in [Cards -> Faces]
          /\ \A c \in Cards : \E m \in Cards \ {c} :
                {e \in Cards : d[e] = d[c]} = {c, m}

VARIABLES
    face,         \* num and suit of every position
    isFlipped,    \* positions that lie face down
    isFlipping,   \* positions whose turn is being animated
    flipSuccess,  \* positions already matched
    otherSide,    \* animated positions that show the side they turn to
    increaseWidth \* the one width divisor that all animations share

animation == <<isFlipped, isFlipping, otherSide, increaseWidth>>
board == <<face, flipSuccess, animation>>

-----------------------------------------------------------------------------
(* Mutants of DealCards: one field of cardArray is not reset. *)
DealCardsKeepMatched ==
    /\ face' \in Deals
    /\ isFlipped' = {} /\ isFlipping' = {}
    /\ UNCHANGED <<flipSuccess, otherSide, increaseWidth>>

DealCardsKeepDown ==
    /\ face' \in Deals
    /\ isFlipping' = {} /\ flipSuccess' = {}
    /\ UNCHANGED <<isFlipped, otherSide, increaseWidth>>

(* initialize_game_cards: neither otherSide nor increaseWidth is reset. *)
DealCards ==
    /\ face' \in Deals
    /\ isFlipped' = {}
    /\ isFlipping' = {}
    /\ flipSuccess' = {}
    /\ UNCHANGED <<otherSide, increaseWidth>>

(* A card clicked while it is face up is told to turn and then not to.     *)
(* "hit" is the card under the pointer, if any; posInArray is that card,   *)
(* and is left uninitialised by a click beside the cards.                  *)
flipCardOnClick(hit, posInArray) ==
    (isFlipping \cup hit) \ ({posInArray} \ isFlipped)

-----------------------------------------------------------------------------
(***************************************************************************)
(* One call of flipACardDown or flipACardUp moves EVERY animated card: a   *)
(* wide enough divisor turns those lying as the call expects to their      *)
(* other side, each animated card then moves the divisor by one, and a     *)
(* divisor that comes back to its end value ends all the animations.       *)
(***************************************************************************)
Turned(lying) ==
    IF increaseWidth > FlipLimit THEN otherSide \cup lying ELSE otherSide

Width(turned) ==
    increaseWidth + Cardinality(isFlipping \ turned)
                  - Cardinality(isFlipping \cap turned)

(* Mutant: the divisor is not set back at the end of the animation. *)
FlipKeepsWidth(turned, end, down) ==
    /\ increaseWidth' = Width(turned)
    /\ \/ /\ Width(turned) = end
          /\ isFlipping' = {}
          /\ isFlipped' = down
          /\ otherSide' = turned \ isFlipping
       \/ /\ Width(turned) # end
          /\ otherSide' = turned
          /\ UNCHANGED <<isFlipped, isFlipping>>

Flip(turned, end, down) ==
    \/ /\ Width(turned) = end
       /\ isFlipping' = {}
       /\ isFlipped' = down
       /\ otherSide' = turned \ isFlipping
       /\ increaseWidth' = 1
    \/ /\ Width(turned) # end
       /\ otherSide' = turned
       /\ increaseWidth' = IF Width(turned) < -Runaway THEN -Runaway
                                                      ELSE Width(turned)
       /\ UNCHANGED <<isFlipped, isFlipping>>

(* Mutant: the end value of the other direction. *)
flipACardDownToZero ==
    Flip(Turned(isFlipping \ isFlipped), 0, isFlipped \cup isFlipping)

flipACardDown ==
    Flip(Turned(isFlipping \ isFlipped), 1, isFlipped \cup isFlipping)

flipACardUp ==
    Flip(Turned(isFlipping \cap isFlipped), 0, isFlipped \ isFlipping)

(* One iteration of the loop of draw_game_cards. *)
DrawCard(i) ==
    \/ i \in isFlipping \cap isFlipped /\ flipACardUp
    \/ i \in isFlipping \ isFlipped /\ flipACardDown
    \/ i \notin isFlipping /\ UNCHANGED animation

-----------------------------------------------------------------------------
(***************************************************************************)
(* The judging loop: the first unmatched card that is face up is compared  *)
(* with every later one.                                                   *)
(***************************************************************************)
Open == Cards \ (isFlipped \cup flipSuccess)

Later == {c \in Open : \E d \in Open : d < c}

First == Open \ Later

(* Mutant: num and suit are not compared. *)
SameUncompared == Later

Same == {c \in Later : \E d \in First : face[c] = face[d]}

Wrong == Later \ Same

WithFirst(S) == IF S = {} THEN {} ELSE S \cup First

(* Mutant: a mismatch costs a life in every tick. *)
LostEveryTick(flipping) == Cardinality(Wrong)

(* Mismatches that cost a life: the later card was not turning yet. *)
Lost(flipping) == Cardinality(Wrong \ flipping)

(* Mutant: a wrong pair is left face up. *)
JudgeLeavesWrong(flipping) ==
    /\ flipSuccess' = flipSuccess \cup WithFirst(Same)
    /\ isFlipping' = flipping

Judge(flipping) ==
    /\ flipSuccess' = flipSuccess \cup WithFirst(Same)
    /\ isFlipping' = flipping \cup WithFirst(Wrong)
=============================================================================
