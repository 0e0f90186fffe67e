------------------------------ MODULE Timer8254 ------------------------------
(***************************************************************************)
(* Setting and reading the i8254 timer: timer_set_frequency,               *)
(* timer_get_conf and timer_display_conf of proj/src/timer.c (lab2 and     *)
(* lab4 have the same text, called "lab2" here) and of lab5/timer.c.  One  *)
(* step per port access, each of which may fail.  The code drops the       *)
(* result of some accesses: the read-back command in "lab2", the control   *)
(* word and the count in "lab5".                                           *)
(***************************************************************************)
EXTENDS Integers

CONSTANTS
    TIMER_FREQ, \* 1193182
    Freqs,      \* frequencies asked for
    CountBytes, \* bytes of a running count, read in place of a status
    MaxCalls

Timers == 0 .. 2
None == -1
Undefined == -2
Byte == 0 .. 255
Word == {w \in Nat : w < 65536}
SQUARE_WAVE == 6 \* mode 3, binary: how Minix sets up timer 0

ASSUME TimerAssumption ==
    /\ TIMER_FREQ \in Nat /\ TIMER_FREQ < 19 * 65536
    /\ Freqs \subseteq Nat /\ CountBytes \subseteq Byte
    /\ MaxCalls \in Nat

VARIABLES
    code, op, timer, freq, point, \* the call under way
    status,                       \* st of the call
    shown,                        \* what timer_print_config is given
    calls,
    rw, low, half, count,         \* per counter: access and low bits of the control
    latch,                        \*   word, a first byte written, count, latched status
    asked,                        \* history: frequency of the last call that returned 0
    ignored                       \* history: a failure has been ignored

request == <<code, op, timer, freq>>
device == <<rw, low, half, count, latch>>
timerVars == <<request, point, status, shown, calls, device, asked, ignored>>

TimerInit ==
    /\ code = "lab2" /\ op = "set" /\ timer = 0 /\ freq = 0
    /\ point = "idle" /\ status = 0 /\ shown = <<>> /\ calls = 0
    /\ rw \in {[t \in Timers |-> IF t = 0 THEN 3 ELSE a] : a \in 1 .. 3}
    /\ low \in {[t \in Timers |-> IF t = 0 THEN SQUARE_WAVE ELSE b] : b \in {2, 4, 7}}
    /\ half = [t \in Timers |-> None] /\ latch = [t \in Timers |-> None]
    /\ count = [t \in Timers |-> 0]
    /\ asked = [t \in Timers |-> 0] /\ ignored = FALSE

-----------------------------------------------------------------------------
(* Mutant: the lowest frequency is one too low. *)
InRangeFrom18(f) == f >= 18 /\ f <= TIMER_FREQ

InRange(f) == f >= 19 /\ f <= TIMER_FREQ

(* uint16_t. *)
div == (TIMER_FREQ \div freq) % 65536

(* lab5 is only called for timer 0, with a uint8_t.  It tests the          *)
(* frequency first, lab2 after the status has been read.                   *)
Call(c, o, t, f) ==
    /\ point = "idle" /\ calls < MaxCalls
    /\ c = "lab5" => o = "set" /\ t = 0 /\ f < 256
    /\ code' = c /\ op' = o /\ timer' = t /\ freq' = f
    /\ calls' = calls + 1
    /\ point' = IF t > 2 \/ (c = "lab5" /\ ~InRange(f)) THEN "idle" ELSE "readback"
    /\ UNCHANGED <<status, shown, device, asked, ignored>>

(* Mutant: the command selects timer 0 whichever is asked for. *)
ReadBackOfZero ==
    /\ point = "readback" /\ point' = "status"
    /\ \E out \in {0, 192} :
        latch' = IF latch[0] # None THEN latch
                 ELSE [latch EXCEPT ![0] = out + 16 * rw[0] + low[0]]
    /\ UNCHANGED <<request, status, shown, calls, rw, low, half, count, asked, ignored>>

(* The status is latched unless an earlier one still is. *)
ReadBack ==
    /\ point = "readback" /\ point' = "status"
    /\ \E out \in {0, 192} :
        latch' = IF latch[timer] # None THEN latch
                 ELSE [latch EXCEPT ![timer] = out + 16 * rw[timer] + low[timer]]
    /\ UNCHANGED <<request, status, shown, calls, rw, low, half, count, asked, ignored>>

ReadBackFails ==
    /\ point = "readback"
    /\ \/ code = "lab2" /\ point' = "status" /\ ignored' = TRUE
       \/ code = "lab5" /\ point' = "idle" /\ UNCHANGED ignored
    /\ UNCHANGED <<request, status, shown, calls, device, asked>>

(* Of the three bits only the last is shifted. *)
CountMode(st) == 4 * ((st \div 4) % 4) + ((st \div 2) % 2)

(* timer_display_conf: fields of the status as the code extracts them. *)
Shown(st) ==
    [of         |-> timer,
     in_mode    |-> 32 * ((st \div 32) % 2) + ((st \div 16) % 2),
     count_mode |-> CountMode(st),
     bcd        |-> st % 2 = 1]

(* Without a latched status the counter hands out a byte of its count. *)
ReadStatus ==
    /\ point = "status"
    /\ status' \in IF latch[timer] # None THEN {latch[timer]} ELSE CountBytes
    /\ latch' = [latch EXCEPT ![timer] = None]
    /\ \/ op = "display" /\ point' = "idle" /\ shown' = Shown(status')
       \/ /\ op = "set" /\ UNCHANGED shown
          /\ point' = IF InRange(freq) THEN "control" ELSE "idle"
    /\ UNCHANGED <<request, calls, rw, low, half, count, asked, ignored>>

(* The counter that the control word selects. *)
Selected == IF code = "lab2" THEN timer ELSE 0

(* Mutant: the mode is set anew. *)
LowBitsAnew == SQUARE_WAVE

(* The low bits of the control word; lab5 adds TIMER_RB_SEL(timer), BIT(1) *)
(* for its only timer.                                                     *)
LowBits ==
    LET last_bits == status % 16 IN
    IF code = "lab5" /\ (last_bits \div 2) % 2 = 0 THEN last_bits + 2 ELSE last_bits

WriteControl ==
    /\ point = "control" /\ point' = "lsb"
    /\ rw' = [rw EXCEPT ![Selected] = 3]
    /\ low' = [low EXCEPT ![Selected] = LowBits]
    /\ half' = [half EXCEPT ![Selected] = None]
    /\ asked' = [asked EXCEPT ![timer] = 0]
    /\ UNCHANGED <<request, status, shown, calls, count, latch, ignored>>

(* A hexadecimal digit of w, for d a power of 16. *)
Digit(w, d) == (w \div d) % 16

Decimal(w) == Digit(w, 1) + 10 * Digit(w, 16) + 100 * Digit(w, 256) + 1000 * Digit(w, 4096)

(* What the 8254 counts from after w has been written to a counter with    *)
(* these low bits: in base BCD the word is read as four decimal digits,    *)
(* and modes 2 and 3 have no period of 1.  0 is its largest count.         *)
CountsFrom(bits, w) ==
    IF \/ bits % 2 = 1 /\ \E d \in {1, 16, 256, 4096} : Digit(w, d) > 9
       \/ w = 1 /\ (bits \div 2) % 4 \in {2, 3}
    THEN Undefined
    ELSE IF bits % 2 = 1 THEN Decimal(w) ELSE w

(* A byte to the counter, which takes the low byte first. *)
WriteByte(byte, return) ==
    /\ rw[timer] = 3
    /\ \/ half[timer] = None /\ half' = [half EXCEPT ![timer] = byte] /\ UNCHANGED count
       \/ /\ half[timer] # None
          /\ half' = [half EXCEPT ![timer] = None]
          /\ count' = [count EXCEPT ![timer] = CountsFrom(low[timer], half[timer] + 256 * byte)]
    /\ asked' = IF return THEN [asked EXCEPT ![timer] = freq] ELSE asked
    /\ UNCHANGED <<request, status, shown, calls, rw, low, latch, ignored>>

WriteLsb == point = "lsb" /\ point' = "msb" /\ WriteByte(div % 256, FALSE)

WriteMsb == point = "msb" /\ point' = "idle" /\ WriteByte(div \div 256, TRUE)

(* lab2 returns 1; lab5 goes on, and returns 0. *)
WriteFails ==
    /\ point \in {"control", "lsb", "msb"}
    /\ \/ /\ code = "lab2" /\ point' = "idle"
          /\ UNCHANGED <<asked, ignored>>
       \/ /\ code = "lab5" /\ ignored' = TRUE
          /\ \/ point = "control" /\ point' = "lsb" /\ UNCHANGED asked
             \/ point = "lsb" /\ point' = "msb" /\ UNCHANGED asked
             \/ point = "msb" /\ point' = "idle" /\ asked' = [asked EXCEPT ![timer] = freq]
    /\ UNCHANGED <<request, status, shown, calls, device>>

(* The read fails: both return 1, and a status stays latched. *)
ReadStatusFails ==
    /\ point = "status" /\ point' = "idle"
    /\ UNCHANGED <<request, status, shown, calls, device, asked, ignored>>

Access == ReadBack \/ ReadStatus \/ WriteControl \/ WriteLsb \/ WriteMsb

TimerNext ==
    \/ \E c \in {"lab2", "lab5"}, o \in {"set", "display"}, t \in 0 .. 3, f \in Freqs :
        Call(c, o, t, f)
    \/ Access
    \/ ReadBackFails \/ ReadStatusFails \/ WriteFails

TimerSpec == TimerInit /\ [][TimerNext]_timerVars

-----------------------------------------------------------------------------
TimerTypeOK ==
    /\ code \in {"lab2", "lab5"} /\ op \in {"set", "display"}
    /\ timer \in 0 .. 3 /\ freq \in Freqs \cup {0}
    /\ point \in {"idle", "readback", "status", "control", "lsb", "msb"}
    /\ status \in Byte /\ calls \in 0 .. MaxCalls
    /\ rw \in [Timers -> 1 .. 3] /\ low \in [Timers -> 0 .. 15]
    /\ half \in [Timers -> Byte \cup {None}] /\ latch \in [Timers -> Byte \cup {None}]
    /\ count \in [Timers -> Word \cup {Undefined}]
    /\ asked \in [Timers -> Freqs \cup {0}] /\ ignored \in BOOLEAN

(* The counter can count from n, and takes n for what it is. *)
Countable(bits, n) ==
    /\ bits % 2 = 0 \/ n <= 9
    /\ ~(n = 1 /\ (bits \div 2) % 4 \in {2, 3})

(***************************************************************************)
(* A timer whose frequency was set last by a call that returned 0 awaits   *)
(* no second byte, whatever calls on it were rejected since and whatever   *)
(* calls on the other timers did or failed to do, and counts from          *)
(* TIMER_FREQ / freq, not truncated to 16 bits (timer.c:21, 44-58), with   *)
(* two exceptions, both accepted with 0: a timer in base BCD, whose base   *)
(* is kept though the quotient is written in binary (timer.c:19), and a    *)
(* quotient of 1 in modes 2 and 3, against "div tem de ser no minimo 2"    *)
(* (lab5/timer.c:64).                                                      *)
(***************************************************************************)
CountAsAsked ==
    ~ignored => \A t \in Timers : asked[t] > 0 =>
        LET quotient == TIMER_FREQ \div asked[t] IN
        /\ half[t] = None
        /\ count[t] = quotient <=> Countable(low[t], quotient)

LowBitsStay == ~ignored' => low' = low

(***************************************************************************)
(* No call changes the mode or the base of a timer (timer.h:46-47), also   *)
(* when it stops half-way or finds a status latched by an earlier call;    *)
(* for lab5 only because timer 0 is always in mode 3.                      *)
(***************************************************************************)
KeepsLowBits == [][LowBitsStay]_timerVars

(***************************************************************************)
(* What timer_display_conf shows tells the mode and the base of the timer  *)
(* asked about, also when the status was latched by an earlier call that   *)
(* could not read it: no two modes are shown alike.  But only the modes 0  *)
(* and 1 are shown as the "counting mode: 0, 1,.., 5" that timer.h:39      *)
(* promises, because two of the three bits are not shifted                 *)
(* (timer.c:87-143).                                                       *)
(***************************************************************************)
ShowsItsTimer ==
    shown # <<>> /\ ~ignored =>
        LET mode == low[shown.of] \div 2 IN
        /\ shown.count_mode % 4 = mode % 2 /\ shown.count_mode \div 4 = mode \div 2
        /\ shown.count_mode = mode <=> mode \in {0, 1}
        /\ shown.bcd = (low[shown.of] % 2 = 1)
=============================================================================
