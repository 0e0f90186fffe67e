----------------------------- MODULE MemoryGame -----------------------------
(***************************************************************************)
(* What a game of memory promises, without screens, input or animation: a  *)
(* table dealt in pairs, pairs matched for good, lives lost, a verdict     *)
(* that follows from them, and a new table only after a verdict.           *)
(***************************************************************************)
EXTENDS Integers

CONSTANTS Cards, Deals, MaxLives

VARIABLES deal, matched, livesLeft, outcome

rules == <<deal, matched, livesLeft, outcome>>

NewTable ==
    /\ deal' \in Deals
    /\ matched' = {}
    /\ livesLeft' = MaxLives
    /\ outcome' = "playing"

Start ==
    /\ deal \in Deals
    /\ matched = {}
    /\ livesLeft = MaxLives
    /\ outcome = "playing"

(* A choice matches cards of a kind, costs lives, or both; a player with   *)
(* no life left has lost, and only a player with every card matched wins.  *)
Choice ==
    /\ outcome = "playing"
    /\ matched \subseteq matched' /\ matched' \subseteq Cards
    /\ \A c \in matched' \ matched :
          \E d \in matched' \ matched : c # d /\ deal[c] = deal[d]
    /\ livesLeft' \in 0 .. livesLeft
    /\ \/ outcome' = "playing" /\ livesLeft' > 0
       \/ outcome' = "lost" /\ livesLeft' = 0
       \/ outcome' = "won" /\ livesLeft' > 0 /\ matched' = Cards
    /\ UNCHANGED deal

Again == outcome # "playing" /\ NewTable

Rules == Start /\ [][Choice \/ Again]_rules
=============================================================================
