------------------------------ MODULE IdleLoop ------------------------------
(***************************************************************************)
(* The loops of the labs that count timer interrupts: timer_test_int       *)
(* (lab2.c) for n seconds, kbd_test_timed_scan (lab3.c) and                *)
(* mouse_test_async (lab4.c) until n seconds have passed without input.    *)
(* Interrupts that are not yet notified are bits of one message: several   *)
(* ticks become one, and a tick and a byte that come in one message have   *)
(* lost their order.                                                       *)
(***************************************************************************)
EXTENDS Integers

CONSTANTS
    HZ,        \* ticks in a second (60)
    Seconds,   \* values of n
    MaxInputs, \* bytes sent before keyboard or mouse falls silent
    MaxIdle    \* the history of ticks since the last byte is held here

ASSUME IdleAssumption ==
    /\ HZ \in Nat \ {0} /\ Seconds \subseteq Nat /\ MaxInputs \in Nat
    /\ MaxIdle \in Nat /\ \A s \in Seconds : MaxIdle > s * HZ

Loops == {"timer_test_int", "kbd_test_timed_scan", "mouse_test_async"}

VARIABLES
    loop, n,                 \* the function called and its argument
    pending,                 \* interrupts not yet notified
    tmr_tck_counter, prints, \* the tick counter (counter in lab 3); seconds printed
    ended,                   \* the condition of the loop is false
    inputs,                  \* bytes sent
    idle,                    \* history: ticks since the last byte
    missed,                  \* history: one of them was not counted
    escaped                  \* history: ESC was released

history == <<inputs, idle, missed>>
idleVars == <<loop, n, pending, tmr_tck_counter, prints, ended, history, escaped>>

IdleInit ==
    /\ loop \in Loops /\ n \in Seconds
    /\ pending = {} /\ tmr_tck_counter = 0 /\ prints = 0
    /\ ended = (loop # "kbd_test_timed_scan" /\ n = 0)
    /\ inputs = 0 /\ idle = 0 /\ missed = FALSE /\ escaped = FALSE

-----------------------------------------------------------------------------
Tick ==
    /\ ~ended
    /\ pending' = pending \cup {"tick"}
    /\ idle' = IF idle < MaxIdle THEN idle + 1 ELSE idle
    /\ missed' = (missed \/ "tick" \in pending)
    /\ UNCHANGED <<loop, n, tmr_tck_counter, prints, ended, inputs, escaped>>

(* The controller holds one byte at a time. *)
Input ==
    /\ ~ended /\ loop # "timer_test_int"
    /\ "input" \notin pending /\ inputs < MaxInputs
    /\ pending' = pending \cup {"input"}
    /\ inputs' = inputs + 1 /\ idle' = 0 /\ missed' = FALSE
    /\ UNCHANGED <<loop, n, tmr_tck_counter, prints, ended, escaped>>

(* Mutants: a tick sets the counter back too; input does not. *)
CounterBeforeTick == IF pending # {} THEN 0 ELSE tmr_tck_counter

CounterKept == tmr_tck_counter

CounterBefore == IF "input" \in pending THEN 0 ELSE tmr_tck_counter

Handled(skip) == "tick" \in pending /\ ~skip

TimeUp(c) == c >= n * HZ

PrintsNow(c) == c % HZ = 0

(* The message is served, input first.  The mouse loop goes on to the next *)
(* message, and drops the tick of this one, when the byte is inside a      *)
(* spoilt packet (skip); esc is the byte of a released ESC.                *)
Serve(esc, skip) ==
    /\ ~ended /\ pending # {}
    /\ esc => loop = "kbd_test_timed_scan" /\ "input" \in pending
    /\ skip => loop = "mouse_test_async" /\ "input" \in pending
    /\ tmr_tck_counter' = IF Handled(skip) THEN CounterBefore + 1 ELSE CounterBefore
    /\ prints' = IF loop = "timer_test_int" /\ PrintsNow(tmr_tck_counter') THEN prints + 1 ELSE prints
    /\ escaped' = esc
    /\ ended' = \/ esc
                \/ TimeUp(tmr_tck_counter') /\ (loop = "kbd_test_timed_scan" => Handled(skip))
    /\ pending' = {}
    /\ missed' = (missed \/ (skip /\ "tick" \in pending))
    /\ UNCHANGED <<loop, n, inputs, idle>>

Served == \E esc, skip \in BOOLEAN : Serve(esc, skip)

IdleNext == Tick \/ Input \/ Served

IdleSpec == IdleInit /\ [][IdleNext]_idleVars

(* The timer goes on and the program is told. *)
IdleFairness == WF_idleVars(Tick) /\ WF_idleVars(Served)

-----------------------------------------------------------------------------
(***************************************************************************)
(* The loops end at most one tick before n seconds without a byte are      *)
(* over: the tick that came before the byte is counted after it when both  *)
(* are in one message (lab3.c:125-131, lab4.c:114-129).                    *)
(***************************************************************************)
EndsNotTooEarly == ended /\ ~escaped => idle >= n * HZ - 1

(***************************************************************************)
(* And they have ended when n seconds are over, if no tick was merged with *)
(* another and none was dropped with a spoilt byte (lab4.c:117-118).       *)
(***************************************************************************)
EndsOnTime ==
    pending = {} /\ ~missed /\ ~ended => idle = 0 \/ idle < n * HZ

(***************************************************************************)
(* "prints a message once per second for the specified time interval"      *)
(* (lab2.h:33): n messages, in no less than n seconds.                     *)
(***************************************************************************)
SecondsPrinted ==
    loop = "timer_test_int" /\ ended => prints = n /\ idle >= n * HZ

(***************************************************************************)
(* The loops end when their time is over (lab2.c:74-88, lab3.c:125-135,    *)
(* lab4.c:106-129): one tick too early at most, not too late unless ticks  *)
(* were missed, and having printed one message a second.                   *)
(***************************************************************************)
EndsInTime == EndsNotTooEarly /\ EndsOnTime /\ SecondsPrinted

(* Once the user stops, the loop ends, however many ticks are merged.      *)
EndsWhenIdle == <>ended
=============================================================================
