----------------------------- MODULE Lifecycle -----------------------------
(***************************************************************************)
(* What the program and the lab functions take hold of and let go: the     *)
(* interrupts of keyboard, timer and mouse, the mouse's data reporting and *)
(* its remote mode, and the graphics mode.  A function is the sequence of  *)
(* its calls that may fail, with what the source does about a failure;     *)
(* every call may fail, and the source mostly returns at once, leaving     *)
(* things as they are.                                                     *)
(***************************************************************************)
EXTENDS Integers, Sequences

Resources == {"kbd", "timer", "mouse", "reporting", "remote", "graphics"}

(* Calls whose result is tested, and calls whose result is ignored. *)
Get(r)    == [do |-> "get", on |-> {r}, tested |-> TRUE]
TryGet(r) == [do |-> "get", on |-> {r}, tested |-> FALSE]
Put(r)    == [do |-> "put", on |-> {r}, tested |-> TRUE]
TryPut(r) == [do |-> "put", on |-> {r}, tested |-> FALSE]

(* A call that may fail; "on" is what is let go before the return.  *)
Call(undone) == [do |-> "call", on |-> undone, tested |-> TRUE]

(* The receiving loop; "on" is what must be subscribed for it to end. *)
Loop(heard) == [do |-> "loop", on |-> heard, tested |-> TRUE]

-----------------------------------------------------------------------------
(* Mutant: the mouse reports on after its interrupts are unsubscribed. *)
proj_unsubscribes_first ==
    <<Get("kbd"), Get("timer"), Get("mouse"), Get("reporting"), Get("graphics"),
      Loop({"timer"}),
      Put("timer"), Put("kbd"), Put("mouse"), Put("reporting"), Put("graphics")>>

(* Mutant: the interrupts of the mouse stay subscribed. *)
proj_forgets_mouse ==
    <<Get("kbd"), Get("timer"), Get("mouse"), Get("reporting"), Get("graphics"),
      Loop({"timer"}),
      Put("reporting"), Put("timer"), Put("kbd"), Put("graphics")>>

proj_main_loop ==
    <<Get("kbd"), Get("timer"), Get("mouse"), Get("reporting"), Get("graphics"),
      Loop({"timer"}),
      Put("reporting"), Put("timer"), Put("kbd"), Put("mouse"), Put("graphics")>>

timer_test_int == <<Get("timer"), Call({"timer"}), Loop({"timer"}), Put("timer")>>

kbd_test_scan == <<Get("kbd"), Loop({"kbd"}), Put("kbd")>>

(* The timer alone ends the loop of kbd_test_timed_scan. *)
kbd_test_timed_scan ==
    <<Get("kbd"), Get("timer"), Loop({"timer"}), TryPut("kbd"), TryPut("timer")>>

mouse_test_packet ==
    <<Get("reporting"), TryGet("mouse"), Loop({"mouse", "reporting"}),
      TryPut("mouse"), Put("reporting")>>

mouse_test_async ==
    <<Get("reporting"), TryGet("mouse"), TryGet("timer"), Loop({"timer"}),
      TryPut("mouse"), TryPut("reporting"), TryPut("timer")>>

mouse_test_gesture == mouse_test_packet

(* Nothing is subscribed; the command byte is written at the end, in two   *)
(* writes, after disable_mouse_data has set the stream mode.               *)
mouse_test_remote ==
    <<TryGet("remote"), Loop({}), Put("remote"), Call({}), Call({})>>

video_test_init == <<Get("graphics"), TryPut("graphics")>>

video_test_rectangle ==
    <<Get("kbd"), Get("graphics"), Call({}), Loop({"kbd"}),
      TryPut("kbd"), TryPut("graphics")>>

video_test_pattern ==
    <<TryGet("graphics"), Get("kbd"), Loop({"kbd"}), TryPut("kbd"), TryPut("graphics")>>

video_test_xpm == video_test_pattern

video_test_move ==
    <<TryGet("graphics"), Get("timer"), Get("kbd"), Loop({"kbd"}),
      TryPut("timer"), TryPut("kbd"), TryPut("graphics")>>

Programs ==
    {proj_main_loop, timer_test_int, kbd_test_scan, kbd_test_timed_scan,
     mouse_test_packet, mouse_test_async, mouse_test_gesture, mouse_test_remote,
     video_test_init, video_test_rectangle, video_test_pattern, video_test_xpm,
     video_test_move}

VARIABLES
    program, pc, \* the function, and the call it has come to
    held,        \* what it has taken and not let go
    outcome      \* "running", "zero" or "nonzero" once it returns, "panic"

lifeVars == <<program, pc, held, outcome>>

LifeInit ==
    /\ program \in Programs /\ pc = 1
    /\ held = {} /\ outcome = "running"

Running(kind) == outcome = "running" /\ pc <= Len(program) /\ program[pc].do = kind

Step == program[pc]

GoOn == pc' = pc + 1 /\ UNCHANGED <<program, outcome>>

Give(result) == outcome' = result /\ UNCHANGED <<program, pc>>

-----------------------------------------------------------------------------
Taken == /\ Running("get")
         /\ held' = held \cup Step.on
         /\ GoOn

LetGo == /\ Running("put")
         /\ held' = held \ Step.on
         /\ GoOn

Called == Running("call") /\ GoOn /\ UNCHANGED held

(* The loop ends on a key or after a time: it must hear of it. *)
LoopEnds == /\ Running("loop") /\ Step.on \subseteq held
            /\ GoOn /\ UNCHANGED held

(* A command to the mouse may fail after it took effect: the sequences of  *)
(* KbcCommand take several port accesses.                                  *)
HeldAfterFailure ==
    LET effect == IF Step.do = "get" THEN held \cup Step.on ELSE held \ Step.on
    IN  IF Step.on \subseteq {"reporting", "remote"} THEN {held, effect} ELSE {held}

(* A failure whose result is ignored. *)
Failed ==
    /\ Running("get") \/ Running("put")
    /\ ~Step.tested
    /\ held' \in HeldAfterFailure
    /\ GoOn

FailedReturn ==
    /\ Running("get") \/ Running("put")
    /\ Step.tested
    /\ held' \in HeldAfterFailure
    /\ Give("nonzero")

(* timer_test_int lets the timer go, which may fail in turn. *)
CallFailed ==
    /\ Running("call")
    /\ \E rest \in {held, held \ Step.on} : held' = rest
    /\ Give("nonzero")

(* vg_start and vg_init panic when memory cannot be mapped: the mapping is *)
(* made before the mode is set and looked at afterwards.                   *)
Panic ==
    /\ Running("get") /\ Step.on = {"graphics"}
    /\ \E mode \in {{}, {"graphics"}} : held' = held \cup mode
    /\ Give("panic")

Return ==
    /\ outcome = "running" /\ pc = Len(program) + 1
    /\ Give("zero") /\ UNCHANGED held

LifeNext ==
    \/ Taken \/ LetGo \/ Called \/ LoopEnds \/ Failed \/ FailedReturn
    \/ CallFailed \/ Panic \/ Return

LifeSpec == LifeInit /\ [][LifeNext]_lifeVars

-----------------------------------------------------------------------------
(***************************************************************************)
(* A function that returns 0 forgets nothing: what it still holds, it has  *)
(* asked to let go in a call whose result it ignored.  The game,           *)
(* timer_test_int and kbd_test_scan ignore none (proj.c:388-408,           *)
(* lab2.c:102, lab3.c:79): nothing of theirs is left, whichever calls      *)
(* failed on the way.                                                      *)
(***************************************************************************)
ZeroMeansLetGo ==
    outcome = "zero" =>
        \A r \in held : \E k \in 1 .. Len(program) : program[k] = TryPut(r)

(***************************************************************************)
(* The game and the labs that test their subscriptions never wait in a     *)
(* loop for interrupts they have not subscribed; only the mouse functions  *)
(* of lab 4, which ignore kbc_subscribe, can wait for ever.                *)
(***************************************************************************)
LoopIsHeard ==
    Running("loop") =>
        \A r \in Step.on \ held :
            \E k \in 1 .. pc - 1 : program[k] = TryGet(r)

(***************************************************************************)
(* The mouse of the game reports only while its interrupts are subscribed  *)
(* (proj.c:143-152, 388-403): no byte of it is left in the output buffer,  *)
(* where it would hold back the keyboard.                                  *)
(***************************************************************************)
MouseIsHeard ==
    program = proj_main_loop /\ "reporting" \in held => "mouse" \in held

(***************************************************************************)
(* Nobody waits for interrupts that are not subscribed, and no mouse       *)
(* reports to nobody, whichever call fails on the way (proj.c:127-159).    *)
(***************************************************************************)
SomeoneListens == LoopIsHeard /\ MouseIsHeard
=============================================================================
