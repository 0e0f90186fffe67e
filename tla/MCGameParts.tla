----------------------------- MODULE MCGameParts -----------------------------
(***************************************************************************)
(* The parts of the game beside its loop: the commands to the mouse, the   *)
(* timer, the clock and the deal.  They share no state, so one of them     *)
(* runs in each behaviour and the others are at rest.                      *)
(***************************************************************************)
EXTENDS KbcCommand, Timer8254, Rtc, Deal

(* Three seconds around the turn of an hour, of a year and of nothing. *)
MCClocks ==
    {<< <<21, 6, 9, 19, 59, 58>>, <<21, 6, 9, 19, 59, 59>>, <<21, 6, 9, 20, 0, 0>> >>,
     << <<20, 12, 31, 23, 59, 59>>, <<21, 1, 1, 0, 0, 0>>, <<21, 1, 1, 0, 0, 1>> >>,
     << <<21, 6, 30, 12, 9, 9>>, <<21, 6, 30, 12, 9, 10>>, <<21, 6, 30, 12, 9, 11>> >>}

VARIABLE part

partVars == <<part, commandVars, timerVars, rtcVars, dealVars>>

(* Commands at rest: a port failed at once. *)
PartsInit ==
    /\ part \in {"commands", "timer", "clock", "deal"}
    /\ IF part = "commands" THEN CommandInit
       ELSE /\ script = enable_mouse_data /\ cmd = 1 /\ pc = "failed" /\ failed = {1}
            /\ ibf = Empty /\ armed = FALSE /\ ob = "FA" /\ obf = FALSE
            /\ mouseOut = <<>> /\ kbdOut = <<>> /\ reporting = FALSE /\ moves = 0
            /\ taken = <<>> /\ strayed = {}
    /\ TimerInit /\ (part = "timer" \/ (rw[1] = 3 /\ low[1] = 4))
    /\ RtcInit /\ (part = "clock" \/ run[1][3] = 9)
    /\ DealInit

Commands == part = "commands" /\ CommandNext /\ UNCHANGED <<part, timerVars, rtcVars, dealVars>>

Timer == part = "timer" /\ TimerNext /\ UNCHANGED <<part, commandVars, rtcVars, dealVars>>

Clock == part = "clock" /\ RtcNext /\ UNCHANGED <<part, commandVars, timerVars, dealVars>>

Dealing == part = "deal" /\ DealNext /\ UNCHANGED <<part, commandVars, timerVars, rtcVars>>

PartsNext == Commands \/ Timer \/ Clock \/ Dealing

PartsSpec == PartsInit /\ [][PartsNext]_partVars /\ CommandFairness
=============================================================================
