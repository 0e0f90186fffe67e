------------------------------ MODULE MCResume ------------------------------
(* GameLoop with the screen on which the last press was made. *)
EXTENDS MCGameLoop

VARIABLE pressedIn

ResumeInit == Init /\ pressedIn = gs

ResumeNext ==
    \/ MouseInterrupt /\ pressedIn' = IF lb' THEN gs ELSE pressedIn
    \/ (KeyInterrupt \/ TimerStep) /\ UNCHANGED pressedIn

ResumeSpec == ResumeInit /\ [][ResumeNext]_<<vars, pressedIn>>

(***************************************************************************)
(* A card is turned up when the user clicks on it: the press that          *)
(* flipCardOnClick serves (proj.c:253-261) was made on the Game screen,    *)
(* where cards are shown, not on another screen's button.                  *)
(***************************************************************************)
CardTurnsOnItsClick ==
    [][(isFlipping' \ isFlipping) \cap isFlipped # {} => pressedIn = "Game"]_<<vars, pressedIn>>
=============================================================================
