-------------------------------- MODULE Deal --------------------------------
(***************************************************************************)
(* initialize_game_cards (proj/src/game.c): draws Half different faces,    *)
(* lays each on two cards that mirror each other, and shuffles the table.  *)
(* One step per iteration of the loops that call rand().  The result must  *)
(* be one of the Deals that the module Board assumes.                      *)
(***************************************************************************)
EXTENDS Integers

CONSTANTS
    Half,           \* faces in a deal (8)
    Suits, Numbers, \* 4 and 13
    RAND_MAX

ASSUME DealAssumption ==
    /\ Half \in Nat \ {0} /\ Suits \in Nat \ {0} /\ Numbers \in Nat \ {0}
    /\ RAND_MAX \in Nat /\ RAND_MAX >= 4 * Half * Half

N == 2 * Half
Cards == 0 .. N - 1
Drawn == (0 .. Suits - 1) \X (0 .. Numbers - 1)
NoFace == <<-1, -1>>

(* The enumerations of structs.h, which the cards are compared by. *)
getCardNumber(x) == x + 1

getCardSuit(y) == IF y < 2 THEN 1 - y ELSE y

Face(f) == <<getCardNumber(f[2]), getCardSuit(f[1])>>

VARIABLES
    stage,    \* "draw", "lay", "shuffle" or "done"
    i,        \* the index of the loop under way
    faces,    \* first[] and second[] of the source
    cardArray \* num and suit of every card

dealVars == <<stage, i, faces, cardArray>>

(* NoFace stands for what is never read: both arrays are written first. *)
DealInit ==
    /\ stage = "draw" /\ i = 0
    /\ faces = [k \in 0 .. Half - 1 |-> NoFace]
    /\ cardArray = [c \in Cards |-> NoFace]

-----------------------------------------------------------------------------
(* The faces the inner loop finds equal to the new one. *)
Repeats(f) == {j \in 0 .. i - 1 : faces[j] = f}

(* A repeated face has been stored as well, unless it repeats the first:   *)
(* the next attempt at the same i writes over it.                          *)
Draw(f) ==
    /\ stage = "draw"
    /\ faces' = IF 0 \in Repeats(f) THEN faces ELSE [faces EXCEPT ![i] = f]
    /\ \/ /\ Repeats(f) # {}
          /\ UNCHANGED <<stage, i>>
       \/ /\ Repeats(f) = {}
          /\ i' = (i + 1) % Half
          /\ stage' = IF i + 1 = Half THEN "lay" ELSE "draw"
    /\ UNCHANGED cardArray

Mirror(c) == IF c < Half THEN c ELSE N - 1 - c

LayCards ==
    /\ stage = "lay"
    /\ cardArray' = [c \in Cards |-> Face(faces[Mirror(c)])]
    /\ stage' = "shuffle"
    /\ UNCHANGED <<i, faces>>

(* Mutant: the quotient is not rounded up. *)
PickBeyond(r) == i + r \div (RAND_MAX \div (N - i))

(* Integer division throughout; the card that changes places with card i. *)
Pick(r) == i + r \div (RAND_MAX \div (N - i) + 1)

(* Mutant: the first card is not kept in t. *)
SwapLosing(j) == [cardArray EXCEPT ![j] = cardArray[i], ![i] = cardArray[i]]

Swap(j) == [cardArray EXCEPT ![j] = cardArray[i], ![i] = cardArray[j]]

ShuffleEnds == i + 1 = N - 1

Shuffle(r) ==
    /\ stage = "shuffle"
    /\ cardArray' = Swap(Pick(r))
    /\ i' = i + 1
    /\ stage' = IF ShuffleEnds THEN "done" ELSE "shuffle"
    /\ UNCHANGED faces

DealNext ==
    \/ \E f \in Drawn : Draw(f)
    \/ LayCards
    \/ \E r \in 0 .. RAND_MAX : Shuffle(r)

DealSpec == DealInit /\ [][DealNext]_dealVars

-----------------------------------------------------------------------------
DealTypeOK ==
    /\ stage \in {"draw", "lay", "shuffle", "done"}
    /\ i \in 0 .. N - 1
    /\ faces \in [0 .. Half - 1 -> Drawn \cup {NoFace}]
    /\ DOMAIN cardArray = Cards

(***************************************************************************)
(* The faces kept are all different, although a repeated one is stored     *)
(* before it is found out (game.c:61-74).                                  *)
(***************************************************************************)
DistinctFaces ==
    LET kept == IF stage = "draw" THEN i ELSE Half IN
    \A j, k \in 0 .. kept - 1 : faces[j] = faces[k] => j = k

Paired(d) ==
    \A c \in Cards : \E m \in Cards \ {c} :
        {e \in Cards : d[e] = d[c]} = {c, m}

(***************************************************************************)
(* From the laying of the cards to the end of the shuffle every face is on *)
(* exactly two cards (game.c:76-91): what Board assumes of Deals and what  *)
(* every game needs in order to be winnable.                               *)
(***************************************************************************)
PairsOnTable == stage \in {"shuffle", "done"} => Paired(cardArray)

(***************************************************************************)
(* The index computed from rand() (game.c:87) is one of the cards not yet  *)
(* placed, for every value of rand(), and can be each of them.             *)
(***************************************************************************)
PicksEveryRest ==
    stage = "shuffle" => {Pick(r) : r \in 0 .. RAND_MAX} = i .. N - 1
=============================================================================
