--------------------------- MODULE GameInvariant ---------------------------
(***************************************************************************)
(* The inductive invariant behind the safety properties of GameLoop.       *)
(***************************************************************************)
EXTENDS GameLoop

(* Where the handler may be on each screen, and what its flags allow. *)
ScreenInv ==
    /\ pc # "receive" => gs = "Game" /\ ~initGame /\ condition
    /\ prevState = "Game" => gs = "Instructions"
    /\ gs = "Pause" \/ prevState = "Game" => ~initGame
    /\ MatchedInPairs

(***************************************************************************)
(* What the table may look like as long as no cards were animated both     *)
(* ways at once: still, with one card turning up, with a wrong pair        *)
(* turning back down, or with all cards turning down after the preview.    *)
(***************************************************************************)
Alone == \A a, b \in Open : a = b

Still ==
    /\ isFlipping = {} /\ otherSide = {} /\ increaseWidth = 1
    /\ \/ initGame
       \/ Alone
       \/ pc \in {"draw", "play"} /\ \E a, b \in Open : a < b /\ Open = {a, b}

TurningUp ==
    /\ ~initGame /\ increaseWidth >= 1 /\ Alone
    /\ pc # "preview"
    /\ \E c \in isFlipped : isFlipping = {c} /\ otherSide \in {{}, {c}}

TurningBack ==
    /\ ~initGame /\ increaseWidth >= 1 /\ increaseWidth % 2 = 1
    /\ pc # "preview"
    /\ \E a, b \in Open : a < b /\ face[a] # face[b] /\ Open = {a, b}
    /\ isFlipping = Open
    /\ \/ otherSide = {}
       \/ otherSide = isFlipping /\ increaseWidth >= 3

TurningAll ==
    /\ ~initGame /\ pc = "preview"
    /\ isFlipping = Cards /\ isFlipped = {} /\ flipSuccess = {} /\ otherSide = {}
    /\ \/ drawPos = 0 /\ increaseWidth = 1
       \/ drawPos = 1 /\ increaseWidth = N + 1

(***************************************************************************)
(* The cards of a running game are in one of the four phases of the        *)
(* animation code (game.c:245-463, proj.c:227-293), matched cards are out  *)
(* of it, and a lost game was lost with the animation at its start values. *)
(***************************************************************************)
TableInv ==
    mixed \/ /\ Still \/ TurningUp \/ TurningBack \/ TurningAll
             /\ flipSuccess \cap (isFlipped \cup isFlipping) = {}
             /\ game_over => otherSide = {} /\ increaseWidth = 1
             /\ pc # "killed"

IInv ==
    /\ TypeOK /\ ScreenInv
    /\ LivesInPlay /\ VerdictIsTrue /\ NewGameIsFresh
    /\ TableInv
=============================================================================
