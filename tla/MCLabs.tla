------------------------------- MODULE MCLabs -------------------------------
(***************************************************************************)
(* The test functions of the labs.  A lab is started with the name of one  *)
(* function and ends with it, so one of them runs in each behaviour; the   *)
(* state of the others is that of a call with nothing to do.               *)
(***************************************************************************)
EXTENDS IdleLoop, ScanReader, KbdPoll, Gesture, MoveSprite, Canvas, Lifecycle

VARIABLE test

labVars ==
    <<test, idleVars, scanVars, pollVars, gestureVars, moveVars, canvasVars, lifeVars>>

LabsInit ==
    /\ test \in {"idle", "scan", "poll", "gesture", "move", "draw", "hold"}
    /\ IdleInit /\ (test = "idle" \/ (loop = "timer_test_int" /\ ended))
    /\ ScanInit /\ (test = "scan" \/ (code = "lab3" /\ key = <<ESCAPE>>))
    /\ PollInit
    /\ GestureInit
    /\ LifeInit /\ (test = "hold" \/ program = kbd_test_scan)
    /\ IF test = "move" THEN MoveInit
       ELSE /\ xi = 0 /\ yi = 0 /\ xf = 0 /\ yf = 0 /\ speed = 0
            /\ img = [width |-> 1, height |-> 1] /\ shown = {0}
            /\ counter = 0 /\ done_moving = FALSE
            /\ start = <<0, 0>> /\ moves = 0 /\ overhung = FALSE
    /\ IF test = "draw" THEN CanvasInit
       ELSE /\ figure = "rectangle" /\ no_rectangles = 0
            /\ x = 0 /\ y = 0 /\ width = 0 /\ height = 0
            /\ i = 0 /\ j = 0 /\ result = -1 /\ spilled = FALSE
            /\ buffer = [p \in Places |-> Uncleared]

Idling ==
    /\ test = "idle" /\ IdleNext
    /\ UNCHANGED <<test, scanVars, pollVars, gestureVars, moveVars, canvasVars, lifeVars>>

Scanning ==
    /\ test = "scan" /\ ScanNext
    /\ UNCHANGED <<test, idleVars, pollVars, gestureVars, moveVars, canvasVars, lifeVars>>

Polling ==
    /\ test = "poll" /\ PollNext
    /\ UNCHANGED <<test, idleVars, scanVars, gestureVars, moveVars, canvasVars, lifeVars>>

Gesturing ==
    /\ test = "gesture" /\ GestureNext
    /\ UNCHANGED <<test, idleVars, scanVars, pollVars, moveVars, canvasVars, lifeVars>>

Moving ==
    /\ test = "move" /\ MoveNext
    /\ UNCHANGED <<test, idleVars, scanVars, pollVars, gestureVars, canvasVars, lifeVars>>

Drawing ==
    /\ test = "draw" /\ CanvasNext
    /\ UNCHANGED <<test, idleVars, scanVars, pollVars, gestureVars, moveVars, lifeVars>>

Holding ==
    /\ test = "hold" /\ LifeNext
    /\ UNCHANGED <<test, idleVars, scanVars, pollVars, gestureVars, moveVars, canvasVars>>

LabsNext ==
    Idling \/ Scanning \/ Polling \/ Gesturing \/ Moving \/ Drawing \/ Holding

LabsSpec == LabsInit /\ [][LabsNext]_labVars /\ IdleFairness /\ MoveFairness
=============================================================================
