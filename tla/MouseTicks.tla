----------------------------- MODULE MouseTicks -----------------------------
(***************************************************************************)
(* The mouse and the timer in one message: the loop serves the mouse       *)
(* first, and the continue that skips a byte of a spoilt packet            *)
(* (proj.c:181-182, lab4.c:117-118) leaves the message with its tick, so   *)
(* that the screen is not drawn and no animation advances.                 *)
(***************************************************************************)
EXTENDS MouseDriver

VARIABLES
    tick,   \* a timer interrupt is not yet notified
    dropped \* history: ticks dropped with bytes of the packet under way

ticksVars == <<vars, tick, dropped>>

TicksInit == Init /\ tick = FALSE /\ dropped = 0

TimerInterrupt ==
    /\ ~tick /\ tick' = TRUE
    /\ UNCHANGED <<vars, dropped>>

(* A message of the timer alone: the tick is served. *)
TimerMessage ==
    /\ tick /\ tick' = FALSE
    /\ UNCHANGED <<vars, dropped>>

(* Mutant: the whole of a spoilt packet leaves the message. *)
SpoiltContinues(ok) == Spoilt(ok)

Continues(ok) == Spoilt(ok) /\ Counted(ok) # 2

(* A message with a mouse byte, and with the tick if there is one. *)
MouseMessage(ok, bit3) ==
    /\ MouseByte(ok, bit3)
    /\ tick' = FALSE
    /\ dropped' = (IF phase = 0 THEN 0 ELSE dropped)
                    + (IF tick /\ Continues(ok) THEN 1 ELSE 0)

(* The mouse is being moved and sends a byte, spoilt or not. *)
MovedOn == \E ok, bit3 \in BOOLEAN : MouseMessage(ok, bit3)

TicksNext == TimerInterrupt \/ TimerMessage \/ MovedOn

TicksSpec == TicksInit /\ [][TicksNext]_ticksVars

(***************************************************************************)
(* A spoilt packet costs the timer one tick at most, and only if the error *)
(* hit its first byte, as long as no error hits a third byte (after which  *)
(* every byte is skipped, MouseDriver's Recovers).                         *)
(***************************************************************************)
OneTickPerPacket == ~derailed => dropped = 0 \/ (dropped = 1 /\ (phase = 0 \/ failed))
=============================================================================
