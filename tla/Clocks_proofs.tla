--------------------------- MODULE Clocks_proofs -----------------------------
(***************************************************************************)
(* The two clocks of the machine: the counters of the 8254, which give     *)
(* the count asked for in the mode they had, and the date of the RTC,      *)
(* which no update of the clock falsifies beyond what is stated here.      *)
(***************************************************************************)
EXTENDS Timer8254, Rtc, TLAPS

(* The 8254 (timer.c).                                                     *)
LEMMA QuotientBound ==
    ASSUME NEW f \in Nat, InRange(f)
    PROVE  TIMER_FREQ \div f \in Nat /\ TIMER_FREQ \div f < 65536
<1> DEFINE q == TIMER_FREQ \div f
<1>1. TIMER_FREQ \in Nat /\ TIMER_FREQ < 19 * 65536 /\ f >= 19
  BY TimerAssumption DEF InRange
<1>2. q \in Nat /\ q * f <= TIMER_FREQ
  BY <1>1
<1> HIDE DEF q
<1>3. q * 19 <= q * f
  BY <1>1, <1>2
<1>4. q * f \in Nat
  BY <1>1, <1>2
<1>5. q < 65536
  BY <1>1, <1>2, <1>3, <1>4
<1> QED
  BY <1>2, <1>5 DEF q

LEMMA Bytes16 ==
    ASSUME NEW q \in Nat, q < 65536
    PROVE  /\ q % 65536 = q
           /\ q % 256 \in 0 .. 255 /\ q \div 256 \in 0 .. 255
           /\ (q % 256) + 256 * (q \div 256) = q
<1>1. q % 65536 = q
  OBVIOUS
<1>2. q % 256 \in 0 .. 255
  OBVIOUS
<1>3. q \div 256 \in 0 .. 255
  OBVIOUS
<1>4. (q % 256) + 256 * (q \div 256) = q
  OBVIOUS
<1> QED
  BY <1>1, <1>2, <1>3, <1>4

LEMMA Digits16 ==
    ASSUME NEW x \in Nat, NEW y \in Nat, 16 * y <= x, x < 16 * y + 16
    PROVE  x % 16 \in 0 .. 15 /\ x = 16 * y + (x % 16)
OBVIOUS

LEMMA Quotients ==
    ASSUME NEW w \in Nat
    PROVE  /\ w \div 16 \in Nat /\ 16 * (w \div 16) <= w /\ w < 16 * (w \div 16) + 16
           /\ w \div 256 \in Nat /\ 256 * (w \div 256) <= w /\ w < 256 * (w \div 256) + 256
           /\ w \div 4096 \in Nat /\ 4096 * (w \div 4096) <= w
           /\ w < 4096 * (w \div 4096) + 4096
<1>1. w \div 16 \in Nat /\ 16 * (w \div 16) <= w /\ w < 16 * (w \div 16) + 16
  OBVIOUS
<1>2. w \div 256 \in Nat /\ 256 * (w \div 256) <= w /\ w < 256 * (w \div 256) + 256
  OBVIOUS
<1>3. /\ w \div 4096 \in Nat /\ 4096 * (w \div 4096) <= w
      /\ w < 4096 * (w \div 4096) + 4096
  OBVIOUS
<1> QED
  BY <1>1, <1>2, <1>3

(* A word is the sum of its four digits. *)
LEMMA FourDigits ==
    ASSUME NEW w \in Word
    PROVE  /\ \A d \in {1, 16, 256, 4096} : Digit(w, d) \in 0 .. 15
           /\ w = Digit(w, 1) + 16 * Digit(w, 16) + 256 * Digit(w, 256) + 4096 * Digit(w, 4096)
<1>1. w \in Nat /\ w < 65536
  BY DEF Word
<1> DEFINE a == w \div 16
           b == w \div 256
           c == w \div 4096
<1>2. /\ a \in Nat /\ 16 * a <= w /\ w < 16 * a + 16
      /\ b \in Nat /\ 256 * b <= w /\ w < 256 * b + 256
      /\ c \in Nat /\ 4096 * c <= w /\ w < 4096 * c + 4096
  BY <1>1, Quotients
<1>3. w \div 1 = w
  BY <1>1
<1> HIDE DEF a, b, c
<1>4. w % 16 \in 0 .. 15 /\ w = 16 * a + (w % 16)
  BY <1>1, <1>2, Digits16
<1>5. a % 16 \in 0 .. 15 /\ a = 16 * b + (a % 16)
  <2>1. 16 * b <= a /\ a < 16 * b + 16
    BY <1>1, <1>2
  <2> QED
    BY <1>2, <2>1, Digits16
<1>6. b % 16 \in 0 .. 15 /\ b = 16 * c + (b % 16)
  <2>1. 16 * c <= b /\ b < 16 * c + 16
    BY <1>1, <1>2
  <2> QED
    BY <1>2, <2>1, Digits16
<1>7. c % 16 \in 0 .. 15 /\ c % 16 = c
  BY <1>1, <1>2
<1>8. /\ Digit(w, 1) = w % 16 /\ Digit(w, 16) = a % 16
      /\ Digit(w, 256) = b % 16 /\ Digit(w, 4096) = c % 16
  BY <1>3 DEF Digit, a, b, c
<1> DEFINE d0 == w % 16
           d1 == a % 16
           d2 == b % 16
           d3 == c % 16
<1>9. /\ d0 \in 0 .. 15 /\ d1 \in 0 .. 15 /\ d2 \in 0 .. 15 /\ d3 \in 0 .. 15
      /\ w = 16 * a + d0 /\ a = 16 * b + d1 /\ b = 16 * c + d2 /\ c = d3
  BY <1>4, <1>5, <1>6, <1>7
<1> HIDE DEF d0, d1, d2, d3
<1>10. w = d0 + 16 * d1 + 256 * d2 + 4096 * d3
  BY <1>2, <1>9
<1> QED
  BY <1>8, <1>9, <1>10 DEF d0, d1, d2, d3

(***************************************************************************)
(* The counter counts from the word written exactly when Countable says so *)
(* (what timer_set_frequency relies on, timer.c:19, 44-58).                *)
(***************************************************************************)
LEMMA CountExact ==
    ASSUME NEW bits \in 0 .. 15, NEW w \in Word
    PROVE  /\ CountsFrom(bits, w) \in Word \cup {Undefined}
           /\ CountsFrom(bits, w) = w <=> Countable(bits, w)
<1> DEFINE d0 == Digit(w, 1)
           d1 == Digit(w, 16)
           d2 == Digit(w, 256)
           d3 == Digit(w, 4096)
<1>1. /\ d0 \in 0 .. 15 /\ d1 \in 0 .. 15 /\ d2 \in 0 .. 15 /\ d3 \in 0 .. 15
      /\ w = d0 + 16 * d1 + 256 * d2 + 4096 * d3
  BY FourDigits
<1>2. w \in Nat /\ w < 65536 /\ Undefined # w
  BY DEF Word, Undefined
<1>3. CASE w = 1 /\ (bits \div 2) % 4 \in {2, 3}
  BY <1>2, <1>3 DEF CountsFrom, Countable
<1>4. CASE ~(w = 1 /\ (bits \div 2) % 4 \in {2, 3}) /\ bits % 2 # 1
  <2>1. bits % 2 = 0
    BY <1>4
  <2> QED
    BY <1>4, <2>1 DEF CountsFrom, Countable
<1>5. CASE ~(w = 1 /\ (bits \div 2) % 4 \in {2, 3}) /\ bits % 2 = 1
  <2>1. Countable(bits, w) <=> w <= 9
    BY <1>5 DEF Countable
  <2>2. CASE \E d \in {1, 16, 256, 4096} : Digit(w, d) > 9
    <3>1. CountsFrom(bits, w) = Undefined
      BY <1>5, <2>2 DEF CountsFrom
    <3>2. w > 9
      <4>1. d0 > 9 \/ d1 > 9 \/ d2 > 9 \/ d3 > 9
        BY <2>2
      <4> HIDE DEF d0, d1, d2, d3
      <4> QED
        BY <1>1, <4>1
    <3> QED
      BY <1>2, <2>1, <3>1, <3>2
  <2>3. CASE ~\E d \in {1, 16, 256, 4096} : Digit(w, d) > 9
    <3>1. CountsFrom(bits, w) = Decimal(w)
      BY <1>5, <2>3 DEF CountsFrom
    <3>2. d0 <= 9 /\ d1 <= 9 /\ d2 <= 9 /\ d3 <= 9
      BY <1>1, <2>3
    <3>3. Decimal(w) = d0 + 10 * d1 + 100 * d2 + 1000 * d3
      BY DEF Decimal
    <3> HIDE DEF d0, d1, d2, d3
    <3>4. Decimal(w) \in Nat /\ Decimal(w) < 65536
      BY <1>1, <3>2, <3>3
    <3>5. Decimal(w) = w <=> w <= 9
      BY <1>1, <3>2, <3>3
    <3> QED
      BY <2>1, <3>1, <3>4, <3>5 DEF Word
  <2> QED
    BY <2>2, <2>3
<1> QED
  BY <1>3, <1>4, <1>5

LEMMA StatusLow ==
    ASSUME NEW out \in {0, 192}, NEW a \in 1 .. 3, NEW b \in 0 .. 15
    PROVE  out + 16 * a + b \in 0 .. 255 /\ (out + 16 * a + b) % 16 = b
OBVIOUS

LEMMA Mod16 ==
    ASSUME NEW s \in 0 .. 255
    PROVE  s % 16 \in 0 .. 15
OBVIOUS

-----------------------------------------------------------------------------
(* Counter t does what the last call on it that returned 0 asked for. *)
Set(t) ==
    /\ half[t] = None
    /\ count[t] = TIMER_FREQ \div asked[t] <=> Countable(low[t], TIMER_FREQ \div asked[t])

LEMMA AsSet == CountAsAsked <=> (~ignored => \A t \in Timers : asked[t] > 0 => Set(t))
BY DEF CountAsAsked, Set

LEMMA AsSetNext == CountAsAsked' <=> (~ignored' => \A t \in Timers : asked'[t] > 0 => Set(t)')
BY DEF CountAsAsked, Set

(* While no failure has been ignored: what the call under way has done so  *)
(* far, and that a status read or latched has the low bits of its counter. *)
CallUnderWay ==
    /\ point # "idle" => timer \in Timers
    /\ code = "lab5" => timer = 0
    /\ point \in {"control", "lsb", "msb"} => InRange(freq)

StatusTrue ==
    ~ignored =>
        /\ low[0] = SQUARE_WAVE
        /\ \A t \in Timers : latch[t] # None => latch[t] % 16 = low[t]
        /\ point = "status" => latch[timer] # None
        /\ point = "control" => status % 16 = low[timer]

CountWritten ==
    ~ignored =>
        /\ point \in {"lsb", "msb"} => rw[timer] = 3 /\ asked[timer] = 0
        /\ point = "lsb" => half[timer] = None
        /\ point = "msb" => half[timer] = div % 256

TimerInv == TimerTypeOK /\ CallUnderWay /\ StatusTrue /\ CountWritten /\ CountAsAsked

LEMMA DivType ==
    ASSUME TimerTypeOK, InRange(freq)
    PROVE  /\ div = TIMER_FREQ \div freq
           /\ div % 256 \in Byte /\ div \div 256 \in Byte
           /\ (div % 256) + 256 * (div \div 256) = TIMER_FREQ \div freq
<1>1. freq \in Nat
  BY TimerAssumption DEF TimerTypeOK
<1>2. TIMER_FREQ \div freq \in Nat /\ TIMER_FREQ \div freq < 65536
  BY <1>1, QuotientBound
<1> DEFINE q == TIMER_FREQ \div freq
<1>3. div = q % 65536
  BY DEF div
<1> HIDE DEF q
<1>4. q \in Nat /\ q < 65536
  BY <1>2 DEF q
<1>5. div = q
  BY <1>3, <1>4, Bytes16
<1> QED
  BY <1>4, <1>5, Bytes16 DEF q, Byte

LEMMA InitTypes == TimerInit => TimerTypeOK
<1> SUFFICES ASSUME TimerInit PROVE TimerTypeOK
  OBVIOUS
<1>1. PICK a \in 1 .. 3 : rw = [t \in Timers |-> IF t = 0 THEN 3 ELSE a]
  BY DEF TimerInit
<1>2. PICK b \in {2, 4, 7} : low = [t \in Timers |-> IF t = 0 THEN SQUARE_WAVE ELSE b]
  BY DEF TimerInit
<1>3. rw \in [Timers -> 1 .. 3]
  BY <1>1
<1>4. low \in [Timers -> 0 .. 15]
  BY <1>2 DEF SQUARE_WAVE
<1>5. 0 \in Byte /\ 0 \in Word /\ 0 \in 0 .. MaxCalls
  BY TimerAssumption DEF Byte, Word
<1>6. /\ code \in {"lab2", "lab5"} /\ op \in {"set", "display"}
      /\ timer \in 0 .. 3 /\ freq \in Freqs \cup {0}
      /\ point \in {"idle", "readback", "status", "control", "lsb", "msb"}
  BY DEF TimerInit
<1>7. half \in [Timers -> Byte \cup {None}] /\ latch \in [Timers -> Byte \cup {None}]
  BY DEF TimerInit
<1>8. /\ status \in Byte /\ calls \in 0 .. MaxCalls
      /\ count \in [Timers -> Word \cup {Undefined}]
      /\ asked \in [Timers -> Freqs \cup {0}] /\ ignored \in BOOLEAN
  BY <1>5 DEF TimerInit
<1> QED
  BY <1>3, <1>4, <1>6, <1>7, <1>8 DEF TimerTypeOK

LEMMA TimerInvInit == TimerInit => TimerInv
<1> SUFFICES ASSUME TimerInit PROVE TimerInv
  OBVIOUS
<1>1. PICK b \in {2, 4, 7} : low = [t \in Timers |-> IF t = 0 THEN SQUARE_WAVE ELSE b]
  BY DEF TimerInit
<1>2. low[0] = SQUARE_WAVE
  BY <1>1 DEF Timers
<1>3. StatusTrue
  BY <1>2 DEF TimerInit, StatusTrue
<1>4. CallUnderWay /\ CountWritten
  BY DEF TimerInit, CallUnderWay, CountWritten
<1>5. CountAsAsked
  BY DEF TimerInit, CountAsAsked
<1> QED
  BY <1>3, <1>4, <1>5, InitTypes DEF TimerInv

-----------------------------------------------------------------------------
(* In a control word the low bits of the counter are kept. *)
LEMMA LowBitsKept ==
    ASSUME TimerInv, point = "control"
    PROVE  /\ LowBits \in 0 .. 15
           /\ Selected = timer /\ timer \in Timers
           /\ ~ignored => LowBits = low[timer]
<1>1. status % 16 \in 0 .. 15
  BY Mod16 DEF TimerInv, TimerTypeOK, Byte
<1> DEFINE b == status % 16
<1> HIDE DEF b
<1>2. b \in 0 .. 15
  BY <1>1 DEF b
<1>3. LowBits = IF code = "lab5" /\ (b \div 2) % 2 = 0 THEN b + 2 ELSE b
  BY DEF LowBits, b
<1>4. LowBits \in 0 .. 15
  BY <1>2, <1>3
<1>5. Selected = timer /\ timer \in Timers
  BY DEF Selected, TimerInv, CallUnderWay, TimerTypeOK
<1>6. ASSUME ~ignored PROVE LowBits = low[timer]
  <2>1. b = low[timer]
    BY <1>6 DEF TimerInv, StatusTrue, b
  <2>2. code = "lab5" => b = 6
    BY <1>6, <2>1 DEF TimerInv, CallUnderWay, StatusTrue, SQUARE_WAVE
  <2> QED
    BY <1>3, <2>1, <2>2
<1> QED
  BY <1>4, <1>5, <1>6

-----------------------------------------------------------------------------
LEMMA CallTypes ==
    ASSUME TimerTypeOK, NEW c \in {"lab2", "lab5"}, NEW o \in {"set", "display"},
           NEW t \in 0 .. 3, NEW f \in Freqs, Call(c, o, t, f)
    PROVE  TimerTypeOK'
<1>1. calls' \in 0 .. MaxCalls
  BY TimerAssumption DEF TimerTypeOK, Call
<1>2. point' \in {"idle", "readback", "status", "control", "lsb", "msb"}
  BY DEF Call
<1> QED
  BY <1>1, <1>2 DEF TimerTypeOK, Call, device

LEMMA ReadBackTypes == TimerTypeOK /\ CallUnderWay /\ ReadBack => TimerTypeOK'
<1> SUFFICES ASSUME TimerTypeOK, CallUnderWay, ReadBack PROVE TimerTypeOK'
  OBVIOUS
<1>1. timer \in Timers
  BY DEF CallUnderWay, ReadBack
<1>2. \A out \in {0, 192} : out + 16 * rw[timer] + low[timer] \in Byte
  BY <1>1, StatusLow DEF TimerTypeOK, Byte
<1>3. latch' \in [Timers -> Byte \cup {None}]
  BY <1>1, <1>2 DEF TimerTypeOK, ReadBack
<1> QED
  BY <1>3 DEF TimerTypeOK, ReadBack, request

LEMMA ReadStatusTypes == TimerTypeOK /\ CallUnderWay /\ ReadStatus => TimerTypeOK'
<1> SUFFICES ASSUME TimerTypeOK, CallUnderWay, ReadStatus PROVE TimerTypeOK'
  OBVIOUS
<1>1. timer \in Timers
  BY DEF CallUnderWay, ReadStatus
<1>2. status' \in Byte
  BY <1>1, TimerAssumption DEF TimerTypeOK, ReadStatus
<1>3. latch' \in [Timers -> Byte \cup {None}]
  BY <1>1 DEF TimerTypeOK, ReadStatus
<1>4. point' \in {"idle", "control"}
  BY DEF ReadStatus
<1> QED
  BY <1>2, <1>3, <1>4 DEF TimerTypeOK, ReadStatus, request

LEMMA WriteControlTypes == TimerInv /\ WriteControl => TimerTypeOK'
<1> SUFFICES ASSUME TimerInv, WriteControl PROVE TimerTypeOK'
  OBVIOUS
<1>1. LowBits \in 0 .. 15 /\ Selected = timer /\ timer \in Timers
  BY LowBitsKept DEF WriteControl
<1>2. TimerTypeOK
  BY DEF TimerInv
<1>3. rw' \in [Timers -> 1 .. 3] /\ low' \in [Timers -> 0 .. 15]
  BY <1>1, <1>2 DEF TimerTypeOK, WriteControl
<1>4. half' \in [Timers -> Byte \cup {None}]
  BY <1>1, <1>2 DEF TimerTypeOK, WriteControl
<1>5. asked' \in [Timers -> Freqs \cup {0}]
  BY <1>1, <1>2 DEF TimerTypeOK, WriteControl
<1> QED
  BY <1>2, <1>3, <1>4, <1>5 DEF TimerTypeOK, WriteControl, request

LEMMA TwoBytes ==
    ASSUME NEW l \in Byte, NEW h \in Byte
    PROVE  l + 256 * h \in Word
<1>1. l \in Nat /\ h \in Nat /\ l <= 255 /\ h <= 255
  BY DEF Byte
<1> DEFINE w == l + 256 * h
<1>2. w \in Nat /\ w <= 65535
  BY <1>1
<1> HIDE DEF w
<1>3. w \in Word
  BY <1>2 DEF Word
<1> QED
  BY <1>3 DEF w

LEMMA WriteByteTypes ==
    ASSUME TimerTypeOK, timer \in Timers, NEW byte \in Byte, NEW return \in BOOLEAN,
           WriteByte(byte, return), point' \in {"idle", "msb"}
    PROVE  TimerTypeOK'
<1>1. half' \in [Timers -> Byte \cup {None}]
  BY DEF TimerTypeOK, WriteByte
<1>2. half[timer] # None =>
        CountsFrom(low[timer], half[timer] + 256 * byte) \in Word \cup {Undefined}
  <2>1. half[timer] # None => half[timer] \in Byte
    BY DEF TimerTypeOK
  <2>2. half[timer] # None => half[timer] + 256 * byte \in Word
    BY <2>1, TwoBytes
  <2>3. low[timer] \in 0 .. 15
    BY DEF TimerTypeOK
  <2> QED
    BY <2>2, <2>3, CountExact
<1>3. count' \in [Timers -> Word \cup {Undefined}]
  BY <1>2 DEF TimerTypeOK, WriteByte
<1>4. asked' \in [Timers -> Freqs \cup {0}]
  BY DEF TimerTypeOK, WriteByte
<1> QED
  BY <1>1, <1>3, <1>4 DEF TimerTypeOK, WriteByte, request

LEMMA FailureTypes ==
    TimerTypeOK /\ CallUnderWay /\ (ReadBackFails \/ ReadStatusFails \/ WriteFails) => TimerTypeOK'
<1> SUFFICES ASSUME TimerTypeOK, CallUnderWay,
                    ReadBackFails \/ ReadStatusFails \/ WriteFails
             PROVE  TimerTypeOK'
  OBVIOUS
<1>1. CASE ReadBackFails
  BY <1>1 DEF TimerTypeOK, ReadBackFails, request, device
<1>2. CASE ReadStatusFails
  BY <1>2 DEF TimerTypeOK, ReadStatusFails, request, device
<1>3. CASE WriteFails
  <2>1. timer \in Timers
    BY <1>3 DEF WriteFails, CallUnderWay
  <2>2. asked' \in [Timers -> Freqs \cup {0}]
    BY <1>3, <2>1 DEF TimerTypeOK, WriteFails
  <2>3. point' \in {"idle", "lsb", "msb"} /\ ignored' \in BOOLEAN
    BY <1>3 DEF TimerTypeOK, WriteFails
  <2> QED
    BY <1>3, <2>2, <2>3 DEF TimerTypeOK, WriteFails, request, device
<1> QED
  BY <1>1, <1>2, <1>3

-----------------------------------------------------------------------------
LEMMA CallKeeps ==
    ASSUME TimerInv, NEW c \in {"lab2", "lab5"}, NEW o \in {"set", "display"},
           NEW t \in 0 .. 3, NEW f \in Freqs, Call(c, o, t, f)
    PROVE  TimerInv'
<1>1. TimerTypeOK'
  BY CallTypes DEF TimerInv
<1>2. CallUnderWay'
  BY DEF Call, CallUnderWay, Timers
<1>3. StatusTrue'
  BY DEF TimerInv, StatusTrue, Call, device
<1>4. CountWritten'
  BY DEF Call, CountWritten
<1>5. CountAsAsked'
  BY DEF TimerInv, CountAsAsked, Call, device
<1> QED
  BY <1>1, <1>2, <1>3, <1>4, <1>5 DEF TimerInv

LEMMA ReadBackKeeps == TimerInv /\ ReadBack => TimerInv'
<1> SUFFICES ASSUME TimerInv, ReadBack PROVE TimerInv'
  OBVIOUS
<1>0. timer \in Timers
  BY DEF TimerInv, CallUnderWay, ReadBack
<1>1. TimerTypeOK /\ TimerTypeOK'
  BY ReadBackTypes DEF TimerInv
<1>2. CallUnderWay'
  BY DEF TimerInv, ReadBack, request, CallUnderWay
<1>3. StatusTrue'
  <2> SUFFICES ASSUME ~ignored' PROVE StatusTrue'
    BY DEF StatusTrue
  <2>1. /\ low' = low /\ low[0] = SQUARE_WAVE /\ point' = "status" /\ timer' = timer
        /\ \A t \in Timers : latch[t] # None => latch[t] % 16 = low[t]
    BY DEF TimerInv, StatusTrue, ReadBack, request
  <2>2. CASE latch[timer] # None
    <3>1. latch' = latch
      BY <2>2 DEF ReadBack
    <3> QED
      BY <2>1, <2>2, <3>1 DEF StatusTrue
  <2>3. CASE latch[timer] = None
    <3>1. PICK out \in {0, 192} :
            latch' = [latch EXCEPT ![timer] = out + 16 * rw[timer] + low[timer]]
      BY <2>3 DEF ReadBack
    <3> DEFINE st == out + 16 * rw[timer] + low[timer]
    <3>2. st \in Byte /\ st % 16 = low[timer]
      <4>1. rw[timer] \in 1 .. 3 /\ low[timer] \in 0 .. 15
        BY <1>0, <1>1 DEF TimerTypeOK
      <4> QED
        BY <4>1, StatusLow DEF Byte
    <3>3. st # None
      BY <3>2 DEF Byte, None
    <3> HIDE DEF st
    <3>4. latch'[timer] = st /\ \A t \in Timers : t # timer => latch'[t] = latch[t]
      BY <1>0, <1>1, <3>1 DEF TimerTypeOK, st
    <3>5. \A t \in Timers : latch'[t] # None => latch'[t] % 16 = low[t]
      BY <2>1, <3>2, <3>4
    <3> QED
      BY <2>1, <3>3, <3>4, <3>5 DEF StatusTrue
  <2> QED
    BY <2>2, <2>3
<1>4. CountWritten'
  BY DEF ReadBack, CountWritten
<1>5. CountAsAsked'
  BY DEF TimerInv, CountAsAsked, ReadBack
<1> QED
  BY <1>1, <1>2, <1>3, <1>4, <1>5 DEF TimerInv

LEMMA ReadStatusKeeps == TimerInv /\ ReadStatus => TimerInv'
<1> SUFFICES ASSUME TimerInv, ReadStatus PROVE TimerInv'
  OBVIOUS
<1>0. timer \in Timers
  BY DEF TimerInv, CallUnderWay, ReadStatus
<1>1. TimerTypeOK /\ TimerTypeOK'
  BY ReadStatusTypes DEF TimerInv
<1>2. CallUnderWay'
  BY DEF TimerInv, ReadStatus, request, CallUnderWay
<1>3. StatusTrue'
  <2> SUFFICES ASSUME ~ignored' PROVE StatusTrue'
    BY DEF StatusTrue
  <2>1. /\ low' = low /\ low[0] = SQUARE_WAVE /\ timer' = timer
        /\ point' \in {"idle", "control"}
        /\ \A t \in Timers : latch[t] # None => latch[t] % 16 = low[t]
        /\ latch[timer] # None
    BY DEF TimerInv, StatusTrue, ReadStatus, request
  <2>2. status' = latch[timer]
    BY <2>1 DEF ReadStatus
  <2>3. \A t \in Timers : latch'[t] = IF t = timer THEN None ELSE latch[t]
    BY <1>0, <1>1 DEF TimerTypeOK, ReadStatus
  <2> QED
    BY <1>0, <2>1, <2>2, <2>3 DEF StatusTrue
<1>4. CountWritten'
  BY DEF ReadStatus, CountWritten
<1>5. CountAsAsked'
  BY DEF TimerInv, CountAsAsked, ReadStatus
<1> QED
  BY <1>1, <1>2, <1>3, <1>4, <1>5 DEF TimerInv

LEMMA WriteControlKeeps == TimerInv /\ WriteControl => TimerInv'
<1> SUFFICES ASSUME TimerInv, WriteControl PROVE TimerInv'
  OBVIOUS
<1>0. Selected = timer /\ timer \in Timers /\ (~ignored => LowBits = low[timer])
  BY LowBitsKept DEF WriteControl
<1>1. TimerTypeOK /\ TimerTypeOK'
  BY WriteControlTypes DEF TimerInv
<1>2. CallUnderWay'
  BY DEF TimerInv, WriteControl, request, CallUnderWay
<1>3. StatusTrue'
  <2> SUFFICES ASSUME ~ignored' PROVE StatusTrue'
    BY DEF StatusTrue
  <2>1. low' = low
    BY <1>0, <1>1 DEF TimerTypeOK, WriteControl
  <2> QED
    BY <2>1 DEF TimerInv, StatusTrue, WriteControl
<1>4. CountWritten'
  BY <1>0, <1>1 DEF TimerTypeOK, WriteControl, CountWritten, request
<1>5. CountAsAsked'
  <2> SUFFICES ASSUME ~ignored', NEW t \in Timers, asked'[t] > 0 PROVE Set(t)'
    BY AsSetNext
  <2>1. t # timer
    BY <1>0, <1>1 DEF TimerTypeOK, WriteControl
  <2>2. asked'[t] = asked[t] /\ half'[t] = half[t] /\ count' = count /\ low'[t] = low[t]
    BY <1>0, <1>1, <2>1 DEF TimerTypeOK, WriteControl
  <2>3. Set(t)
    BY <2>2, AsSet DEF TimerInv, WriteControl
  <2> QED
    BY <2>2, <2>3 DEF Set
<1> QED
  BY <1>1, <1>2, <1>3, <1>4, <1>5 DEF TimerInv

LEMMA WriteLsbKeeps == TimerInv /\ WriteLsb => TimerInv'
<1> SUFFICES ASSUME TimerInv, WriteLsb PROVE TimerInv'
  OBVIOUS
<1>0. timer \in Timers /\ InRange(freq)
  BY DEF TimerInv, CallUnderWay, WriteLsb
<1>1. TimerTypeOK
  BY DEF TimerInv
<1>2. div % 256 \in Byte
  BY <1>0, <1>1, DivType
<1>3. TimerTypeOK'
  BY <1>0, <1>1, <1>2, WriteByteTypes DEF WriteLsb
<1>4. WriteByte(div % 256, FALSE) /\ point = "lsb" /\ point' = "msb"
  BY DEF WriteLsb
<1>5. CallUnderWay'
  BY <1>4 DEF TimerInv, WriteByte, request, CallUnderWay
<1>6. StatusTrue'
  BY <1>4 DEF TimerInv, StatusTrue, WriteByte
<1>7. asked' = asked /\ ignored' = ignored /\ timer' = timer /\ freq' = freq /\ rw' = rw
  BY <1>4 DEF WriteByte, request
<1>8. ~ignored => half[timer] = None
  BY <1>4 DEF TimerInv, CountWritten
<1>9. ~ignored => count' = count /\ half' = [half EXCEPT ![timer] = div % 256]
  BY <1>4, <1>8 DEF WriteByte
<1>10. CountWritten'
  <2>1. div' = div
    BY <1>7 DEF div
  <2>2. ~ignored => half'[timer] = div % 256
    BY <1>0, <1>1, <1>9 DEF TimerTypeOK
  <2>3. ~ignored => rw[timer] = 3 /\ asked[timer] = 0
    BY <1>4 DEF TimerInv, CountWritten
  <2> QED
    BY <1>4, <1>7, <2>1, <2>2, <2>3 DEF CountWritten
<1>11. CountAsAsked'
  <2> SUFFICES ASSUME ~ignored, NEW t \in Timers, asked[t] > 0 PROVE Set(t)'
    BY <1>7, AsSetNext
  <2>1. asked[timer] = 0
    BY <1>4 DEF TimerInv, CountWritten
  <2>2. t # timer
    BY <2>1
  <2>3. half'[t] = half[t] /\ count' = count /\ low' = low
    BY <1>0, <1>1, <1>4, <1>9, <2>2 DEF TimerTypeOK, WriteByte
  <2>4. Set(t)
    BY AsSet DEF TimerInv
  <2> QED
    BY <1>7, <2>3, <2>4 DEF Set
<1> QED
  BY <1>3, <1>5, <1>6, <1>10, <1>11 DEF TimerInv

LEMMA WriteMsbKeeps == TimerInv /\ WriteMsb => TimerInv'
<1> SUFFICES ASSUME TimerInv, WriteMsb PROVE TimerInv'
  OBVIOUS
<1>0. timer \in Timers /\ InRange(freq)
  BY DEF TimerInv, CallUnderWay, WriteMsb
<1>1. TimerTypeOK
  BY DEF TimerInv
<1>2. /\ div % 256 \in Byte /\ div \div 256 \in Byte
      /\ (div % 256) + 256 * (div \div 256) = TIMER_FREQ \div freq
  BY <1>0, <1>1, DivType
<1>3. TimerTypeOK'
  BY <1>0, <1>1, <1>2, WriteByteTypes DEF WriteMsb
<1>4. WriteByte(div \div 256, TRUE) /\ point = "msb" /\ point' = "idle"
  BY DEF WriteMsb
<1>5. CallUnderWay'
  BY <1>4 DEF TimerInv, WriteByte, request, CallUnderWay
<1>6. StatusTrue'
  BY <1>4 DEF TimerInv, StatusTrue, WriteByte
<1>7. CountWritten'
  BY <1>4 DEF CountWritten
<1>8. CountAsAsked'
  <2> SUFFICES ASSUME ~ignored, NEW t \in Timers, asked'[t] > 0 PROVE Set(t)'
    BY <1>4, AsSetNext DEF WriteByte
  <2> DEFINE lsb == div % 256
             msb == div \div 256
             w == lsb + 256 * msb
  <2>1. half[timer] = lsb /\ lsb \in Byte /\ msb \in Byte
    BY <1>2, <1>4 DEF TimerInv, CountWritten
  <2>2. w = TIMER_FREQ \div freq /\ w \in Word
    BY <1>2, <2>1, TwoBytes
  <2>3. half[timer] # None
    BY <2>1 DEF Byte, None
  <2>4. WriteByte(msb, TRUE)
    BY <1>4
  <2> HIDE DEF lsb, msb
  <2>5. /\ half' = [half EXCEPT ![timer] = None]
        /\ count' = [count EXCEPT ![timer] = CountsFrom(low[timer], w)]
        /\ asked' = [asked EXCEPT ![timer] = freq]
        /\ low' = low
    BY <2>1, <2>3, <2>4 DEF WriteByte
  <2> HIDE DEF w
  <2>6. CASE t = timer
    <3>1. half'[t] = None /\ count'[t] = CountsFrom(low[t], w) /\ asked'[t] = freq
      BY <1>0, <1>1, <2>5, <2>6 DEF TimerTypeOK
    <3>2. low[t] \in 0 .. 15
      BY <1>1 DEF TimerTypeOK
    <3>3. CountsFrom(low[t], w) = w <=> Countable(low[t], w)
      BY <2>2, <3>2, CountExact
    <3> QED
      BY <2>2, <2>5, <3>1, <3>3 DEF Set
  <2>7. CASE t # timer
    <3>1. half'[t] = half[t] /\ count'[t] = count[t] /\ asked'[t] = asked[t]
      BY <1>0, <1>1, <2>5, <2>7 DEF TimerTypeOK
    <3>2. Set(t)
      BY <3>1, AsSet DEF TimerInv
    <3> QED
      BY <2>5, <3>1, <3>2 DEF Set
  <2> QED
    BY <2>6, <2>7
<1> QED
  BY <1>3, <1>5, <1>6, <1>7, <1>8 DEF TimerInv

LEMMA FailureKeeps ==
    TimerInv /\ (ReadBackFails \/ ReadStatusFails \/ WriteFails) => TimerInv'
<1> SUFFICES ASSUME TimerInv, ReadBackFails \/ ReadStatusFails \/ WriteFails
             PROVE  TimerInv'
  OBVIOUS
<1>1. TimerTypeOK'
  BY FailureTypes DEF TimerInv
<1>2. CallUnderWay'
  BY DEF TimerInv, CallUnderWay, ReadBackFails, ReadStatusFails, WriteFails, request
<1>3. ignored' \/ (point' = "idle" /\ UNCHANGED <<ignored, asked, device>>)
  BY DEF ReadBackFails, ReadStatusFails, WriteFails
<1>4. CASE point' = "idle" /\ UNCHANGED <<ignored, asked, device>>
  <2>1. StatusTrue' /\ CountWritten'
    BY <1>4 DEF TimerInv, StatusTrue, CountWritten, device
  <2>2. CountAsAsked'
    BY <1>4 DEF TimerInv, CountAsAsked, device
  <2> QED
    BY <1>1, <1>2, <2>1, <2>2 DEF TimerInv
<1>5. ignored' => StatusTrue' /\ CountWritten' /\ CountAsAsked'
  BY DEF StatusTrue, CountWritten, CountAsAsked
<1> QED
  BY <1>1, <1>2, <1>3, <1>4, <1>5 DEF TimerInv

LEMMA TimerInvKept == TimerInv /\ [TimerNext]_timerVars => TimerInv'
<1> SUFFICES ASSUME TimerInv, [TimerNext]_timerVars PROVE TimerInv'
  OBVIOUS
<1>1. ASSUME NEW c \in {"lab2", "lab5"}, NEW o \in {"set", "display"},
             NEW t \in 0 .. 3, NEW f \in Freqs, Call(c, o, t, f)
      PROVE  TimerInv'
  BY <1>1, CallKeeps
<1>2. CASE Access
  BY <1>2, ReadBackKeeps, ReadStatusKeeps, WriteControlKeeps, WriteLsbKeeps,
     WriteMsbKeeps DEF Access
<1>3. CASE ReadBackFails \/ ReadStatusFails \/ WriteFails
  BY <1>3, FailureKeeps
<1>4. CASE UNCHANGED timerVars
  <2>1. TimerTypeOK' /\ CallUnderWay'
    BY <1>4 DEF timerVars, request, device, TimerInv, TimerTypeOK, CallUnderWay
  <2>2. StatusTrue'
    BY <1>4 DEF timerVars, request, device, TimerInv, StatusTrue
  <2>3. CountWritten'
    BY <1>4 DEF timerVars, request, device, TimerInv, CountWritten, div
  <2>4. CountAsAsked'
    BY <1>4 DEF timerVars, device, TimerInv, CountAsAsked
  <2> QED
    BY <2>1, <2>2, <2>3, <2>4 DEF TimerInv
<1> QED
  BY <1>1, <1>2, <1>3, <1>4 DEF TimerNext

LEMMA NextKeepsLow == TimerInv /\ [TimerNext]_timerVars => [LowBitsStay]_timerVars
<1> SUFFICES ASSUME TimerInv, TimerNext, ~ignored' PROVE low' = low
  BY DEF LowBitsStay
<1>1. CASE WriteControl
  <2>1. Selected = timer /\ timer \in Timers /\ (~ignored => LowBits = low[timer])
    BY <1>1, LowBitsKept DEF WriteControl
  <2> QED
    BY <1>1, <2>1 DEF TimerInv, TimerTypeOK, WriteControl
<1>2. CASE ~WriteControl
  BY <1>2 DEF TimerNext, Access, Call, ReadBack, ReadStatus, WriteLsb, WriteMsb, WriteByte,
     ReadBackFails, ReadStatusFails, WriteFails, device
<1> QED
  BY <1>1, <1>2

-----------------------------------------------------------------------------
(***************************************************************************)
(* For every oscillator frequency below 19 * 2^16, every set of requested  *)
(* frequencies and any number of calls, a timer set by a call that         *)
(* returned 0 awaits no second byte and counts from the whole quotient,    *)
(* unless, and only unless, it is in base BCD with a quotient above 9 or   *)
(* in mode 2 or 3 with a quotient of 1 (timer_set_frequency,               *)
(* timer.c:19-21, 44-58).                                                  *)
(***************************************************************************)
THEOREM CountIsQuotient == TimerSpec => []CountAsAsked
<1>1. TimerInv => CountAsAsked
  BY DEF TimerInv
<1> QED
  BY <1>1, TimerInvInit, TimerInvKept, PTL DEF TimerSpec

(***************************************************************************)
(* While no failed port access has been ignored, timer_set_frequency and   *)
(* timer_get_conf leave mode and base of every timer as they are           *)
(* (timer.c:19, 29-37, 87-117).                                            *)
(***************************************************************************)
THEOREM ModeIsKept == TimerSpec => KeepsLowBits
<1> QED
  BY TimerInvInit, TimerInvKept, NextKeepsLow, PTL DEF TimerSpec, KeepsLowBits

(***************************************************************************)
(* Every value stays within its width: a status and half a count in a      *)
(* byte, a count in 16 bits, the low bits of a control word in 4.          *)
(***************************************************************************)
THEOREM Widths == TimerSpec => []TimerTypeOK
<1>1. TimerInv => TimerTypeOK
  BY DEF TimerInv
<1> QED
  BY <1>1, TimerInvInit, TimerInvKept, PTL DEF TimerSpec

-----------------------------------------------------------------------------
(* What is displayed depends on the low bits alone, and tells the mode. *)
LEMMA FieldsOfLow ==
    ASSUME NEW s \in 0 .. 255
    PROVE  /\ CountMode(s) = 4 * ((s % 16) \div 4) + (((s % 16) \div 2) % 2)
           /\ s % 2 = (s % 16) % 2
<1> DEFINE q == s \div 16
           r == s % 16
<1>1. q \in 0 .. 15 /\ r \in 0 .. 15 /\ s = 16 * q + r
  OBVIOUS
<1> HIDE DEF q, r
<1>2. s \div 4 = 4 * q + (r \div 4) /\ s \div 2 = 8 * q + (r \div 2)
  BY <1>1
<1>3. (s \div 4) % 4 = r \div 4
  BY <1>1, <1>2
<1>4. (s \div 2) % 2 = (r \div 2) % 2
  BY <1>1, <1>2
<1>5. s % 2 = r % 2
  BY <1>1
<1> QED
  BY <1>3, <1>4, <1>5 DEF CountMode, r

LEMMA ModeFromShown ==
    ASSUME NEW b \in 0 .. 15, NEW m, m = 4 * (b \div 4) + ((b \div 2) % 2)
    PROVE  /\ m % 4 = (b \div 2) % 2 /\ m \div 4 = (b \div 2) \div 2
           /\ m = b \div 2 <=> b \div 2 \in {0, 1}
<1>1. b \div 2 \in 0 .. 7 /\ (b \div 2) % 2 \in {0, 1} /\ b \div 4 \in 0 .. 3
  OBVIOUS
<1>2. b \div 4 = (b \div 2) \div 2
  OBVIOUS
<1> DEFINE mode == b \div 2
<1>3. m = 4 * (mode \div 2) + (mode % 2) /\ mode \in 0 .. 7
  BY <1>1, <1>2
<1> HIDE DEF mode
<1>4. m % 4 = mode % 2 /\ m \div 4 = mode \div 2
  BY <1>3
<1>5. m = mode <=> mode \in {0, 1}
  BY <1>3
<1> QED
  BY <1>4, <1>5 DEF mode

LEMMA ShownKept ==
    TimerInv /\ ShowsItsTimer /\ [TimerNext]_timerVars => ShowsItsTimer'
<1> SUFFICES ASSUME TimerInv, ShowsItsTimer, [TimerNext]_timerVars, ~ignored'
             PROVE  ShowsItsTimer'
  BY DEF ShowsItsTimer
<1>1. ~ignored
  BY DEF TimerNext, Access, Call, ReadBack, ReadStatus, WriteControl, WriteLsb, WriteMsb,
     WriteByte, ReadBackFails, ReadStatusFails, WriteFails, timerVars
<1>2. low' = low
  BY NextKeepsLow DEF LowBitsStay, timerVars, device
<1>3. CASE UNCHANGED shown
  BY <1>1, <1>2, <1>3 DEF ShowsItsTimer
<1>4. CASE ReadStatus /\ op = "display"
  <2>1. timer \in Timers /\ latch[timer] # None /\ latch[timer] % 16 = low[timer]
    BY <1>1, <1>4 DEF TimerInv, CallUnderWay, StatusTrue, ReadStatus
  <2>2. status' = latch[timer] /\ shown' = Shown(status')
    BY <1>4, <2>1 DEF ReadStatus
  <2>3. latch[timer] \in 0 .. 255
    BY <2>1 DEF TimerInv, TimerTypeOK, Byte
  <2>4. /\ shown'.of = timer /\ shown'.count_mode = CountMode(latch[timer])
        /\ shown'.bcd = (latch[timer] % 2 = 1)
    BY <2>2 DEF Shown
  <2>5. /\ shown'.count_mode = 4 * (low[timer] \div 4) + ((low[timer] \div 2) % 2)
        /\ latch[timer] % 2 = low[timer] % 2
    BY <2>1, <2>3, <2>4, FieldsOfLow
  <2>6. low[timer] \in 0 .. 15
    BY <2>1 DEF TimerInv, TimerTypeOK
  <2> DEFINE m == shown'.count_mode
             b == low[timer]
  <2>7. /\ m % 4 = (b \div 2) % 2 /\ m \div 4 = (b \div 2) \div 2
        /\ m = b \div 2 <=> b \div 2 \in {0, 1}
    BY <2>5, <2>6, ModeFromShown
  <2> HIDE DEF m, b
  <2>8. /\ m = shown'.count_mode /\ b = low'[shown'.of]
        /\ shown'.bcd = (low'[shown'.of] % 2 = 1)
    BY <1>2, <2>4, <2>5 DEF m, b
  <2> QED
    BY <2>7, <2>8 DEF ShowsItsTimer
<1>5. UNCHANGED shown \/ (ReadStatus /\ op = "display")
  BY DEF TimerNext, Access, Call, ReadBack, ReadStatus, WriteControl, WriteLsb, WriteMsb,
     WriteByte, ReadBackFails, ReadStatusFails, WriteFails, timerVars
<1> QED
  BY <1>3, <1>4, <1>5

(***************************************************************************)
(* While no failed port access has been ignored, what timer_display_conf   *)
(* shows identifies the mode and the base of the timer it was asked about, *)
(* after any number of calls and failed reads of a status, and is the mode *)
(* itself for the modes 0 and 1 only (timer.c:87-143, timer.h:39).         *)
(***************************************************************************)
THEOREM DisplayIsTrue == TimerSpec => []ShowsItsTimer
<1>1. TimerInit => ShowsItsTimer
  BY DEF TimerInit, ShowsItsTimer
<1> QED
  BY <1>1, TimerInvInit, TimerInvKept, ShownKept, PTL DEF TimerSpec

-----------------------------------------------------------------------------
(* The real-time clock (rtc.c).                                            *)
Dec == [f \in Fields |-> convert_bcd_to_dec(bytes[f])]

Done == IF next > 6 THEN 6 ELSE next - 1

ReadSoFar ==
    /\ updating => now < Len(run)
    /\ selected => next \in Fields /\ (next \notin spoilt => reg = next)
    /\ next > 1 \/ selected => began >= 1
    /\ next = 8 => date = Dec

NotAhead ==
    \A k \in 0 .. Done : (1 .. k) \cap spoilt = {} => ~Before(run[now], Dec, k)

FieldsShown ==
    \A f \in 1 .. Done : f \notin spoilt => \E n \in began .. now : Dec[f] = run[n][f]

DateInv == RtcTypeOK /\ ReadSoFar /\ NotAhead /\ FieldsShown

(***************************************************************************)
(* A register of two decimal digits is converted to the number it stands   *)
(* for (convert_bcd_to_dec, rtc.c:26-28).                                  *)
(***************************************************************************)
LEMMA BcdInverse ==
    ASSUME NEW v \in 0 .. 99
    PROVE  Bcd(v) \in 0 .. 255 /\ convert_bcd_to_dec(Bcd(v)) = v
<1> DEFINE a == v \div 10
           b == v % 10
<1>1. a \in 0 .. 9 /\ b \in 0 .. 9 /\ v = 10 * a + b
  OBVIOUS
<1>2. Bcd(v) = 16 * a + b
  BY DEF Bcd
<1> HIDE DEF a, b
<1>3. (16 * a + b) \div 16 = a /\ (16 * a + b) % 16 = b
  BY <1>1
<1>4. 16 * a + b \in 0 .. 255
  BY <1>1
<1> QED
  BY <1>1, <1>2, <1>3, <1>4 DEF convert_bcd_to_dec

LEMMA ConvertType ==
    ASSUME NEW x \in 0 .. 255
    PROVE  convert_bcd_to_dec(x) \in 0 .. 165
BY DEF convert_bcd_to_dec

(* Before(_, d, k) passes from a later time to an earlier one. *)
LEMMA StillNotAhead ==
    ASSUME NEW s \in Times, NEW t \in Times, Before(s, t, 6),
           NEW k \in 0 .. 6, NEW d \in [Fields -> Int], Before(t, d, k)
    PROVE  Before(s, d, k)
<1>1. PICK g \in 1 .. 6 : s[g] < t[g] /\ \A h \in 1 .. g - 1 : s[h] = t[h]
  BY DEF Before
<1>2. PICK f \in 1 .. k : t[f] < d[f] /\ \A h \in 1 .. f - 1 : t[h] = d[h]
  BY DEF Before
<1>3. \A h \in Fields : s[h] \in Int /\ t[h] \in Int /\ d[h] \in Int
  BY DEF Times, Fields
<1>4. f \in Fields /\ g \in Fields
  BY DEF Fields
<1>5. CASE g < f
  <2>1. g \in 1 .. k /\ s[g] < d[g]
    BY <1>1, <1>2, <1>5
  <2>2. \A h \in 1 .. g - 1 : s[h] = d[h]
    BY <1>1, <1>2, <1>5
  <2> QED
    BY <2>1, <2>2 DEF Before
<1>6. CASE ~(g < f)
  <2>1. s[f] <= t[f]
    BY <1>1, <1>3, <1>4, <1>6
  <2>2. s[f] < d[f]
    BY <1>2, <1>3, <1>4, <2>1
  <2>3. \A h \in 1 .. f - 1 : s[h] = d[h]
    BY <1>1, <1>2, <1>6
  <2> QED
    BY <2>2, <2>3 DEF Before
<1> QED
  BY <1>5, <1>6

LEMMA ClockTypes ==
    ASSUME RtcTypeOK
    PROVE  /\ run[now] \in Times /\ Len(run) \in Nat /\ now \in Nat
           /\ now < Len(run) => run[now + 1] \in Times /\ Before(run[now], run[now + 1], 6)
<1>1. run \in Seq(Times) /\ \A n \in 1 .. Len(run) - 1 : Before(run[n], run[n + 1], 6)
  BY ClocksAssumption DEF RtcTypeOK
<1>2. now \in 1 .. Len(run) /\ Len(run) \in Nat
  BY <1>1 DEF RtcTypeOK
<1> QED
  BY <1>1, <1>2

LEMMA DecType == RtcTypeOK => Dec \in [Fields -> 0 .. 165]
<1> SUFFICES ASSUME RtcTypeOK PROVE Dec \in [Fields -> 0 .. 165]
  OBVIOUS
<1>1. \A f \in Fields : bytes[f] \in 0 .. 255
  BY DEF RtcTypeOK
<1>2. \A f \in Fields : convert_bcd_to_dec(bytes[f]) \in 0 .. 165
  BY <1>1, ConvertType
<1> QED
  BY <1>2 DEF Dec

LEMMA DateInvInit == RtcInit => DateInv
<1> SUFFICES ASSUME RtcInit PROVE DateInv
  OBVIOUS
<1>1. run \in Seq(Times) /\ run # <<>>
  BY ClocksAssumption DEF RtcInit
<1>2. now \in 1 .. Len(run)
  BY <1>1 DEF RtcInit
<1>3. bytes \in [Fields -> 0 .. 255] /\ date \in [Fields -> 0 .. 165]
  BY DEF RtcInit, NoDate
<1>4. RtcTypeOK
  <2>1. run \in Clocks /\ updating \in BOOLEAN /\ selected \in BOOLEAN /\ spoilt \subseteq Fields
    BY DEF RtcInit
  <2>2. reg \in 0 .. 6 /\ next \in 1 .. 8 /\ began \in 0 .. now
    BY DEF RtcInit
  <2> QED
    BY <1>2, <1>3, <2>1, <2>2 DEF RtcTypeOK
<1>5. ReadSoFar
  BY DEF RtcInit, ReadSoFar
<1>6. Done = 0
  BY DEF RtcInit, Done
<1>7. NotAhead /\ FieldsShown
  BY <1>6 DEF NotAhead, FieldsShown, Before
<1> QED
  BY <1>4, <1>5, <1>7 DEF DateInv

-----------------------------------------------------------------------------
LEMMA UpdateBeginsKeeps == DateInv /\ UpdateBegins => DateInv'
<1> SUFFICES ASSUME DateInv, UpdateBegins PROVE DateInv'
  OBVIOUS
<1>1. RtcTypeOK'
  BY DEF DateInv, RtcTypeOK, UpdateBegins
<1>2. Dec' = Dec /\ Done' = Done
  BY DEF Dec, Done, UpdateBegins
<1>3. ReadSoFar'
  BY <1>2 DEF DateInv, ReadSoFar, UpdateBegins
<1>4. NotAhead' /\ FieldsShown'
  BY <1>2 DEF DateInv, NotAhead, FieldsShown, UpdateBegins
<1> QED
  BY <1>1, <1>3, <1>4 DEF DateInv

LEMMA DoneType == RtcTypeOK => Done \in 0 .. 6
BY DEF RtcTypeOK, Done

LEMMA UpdateEndsKeeps == DateInv /\ UpdateEnds => DateInv'
<1> SUFFICES ASSUME DateInv, UpdateEnds PROVE DateInv'
  OBVIOUS
<1>1. RtcTypeOK /\ now < Len(run) /\ now' = now + 1 /\ run' = run /\ spoilt' = spoilt
  BY DEF DateInv, ReadSoFar, UpdateEnds
<1>2. now \in Nat /\ Len(run) \in Nat
  BY <1>1, ClockTypes
<1>3. RtcTypeOK'
  <2>1. now' \in 1 .. Len(run') /\ began' \in 0 .. now'
    BY <1>1, <1>2 DEF RtcTypeOK, UpdateEnds
  <2>2. updating' \in BOOLEAN /\ UNCHANGED <<run, reg, next, selected, bytes, date, spoilt>>
    BY DEF UpdateEnds
  <2> QED
    BY <1>1, <2>1, <2>2 DEF RtcTypeOK
<1>4. Dec' = Dec /\ Done' = Done
  BY DEF Dec, Done, UpdateEnds
<1>5. ReadSoFar'
  BY <1>4 DEF DateInv, ReadSoFar, UpdateEnds
<1>6. NotAhead'
  <2> SUFFICES ASSUME NEW k \in 0 .. Done, (1 .. k) \cap spoilt = {},
                      Before(run[now + 1], Dec, k)
               PROVE  FALSE
    BY <1>1, <1>4 DEF NotAhead
  <2>1. Dec \in [Fields -> Int]
    <3>1. 0 .. 165 \subseteq Int /\ Dec \in [Fields -> 0 .. 165]
      BY <1>1, DecType
    <3> QED
      BY <3>1
  <2>2. k \in 0 .. 6
    BY <1>1, DoneType
  <2>3. Before(run[now], Dec, k)
    BY <1>1, <2>1, <2>2, ClockTypes, StillNotAhead
  <2> QED
    BY <2>3 DEF DateInv, NotAhead
<1>7. FieldsShown'
  <2>1. began \in Nat /\ began .. now \subseteq began .. now + 1
    BY <1>1, <1>2 DEF RtcTypeOK
  <2>2. began' = began
    BY DEF UpdateEnds
  <2> QED
    BY <1>1, <1>4, <2>1, <2>2 DEF DateInv, FieldsShown
<1> QED
  BY <1>3, <1>5, <1>6, <1>7 DEF DateInv

LEMMA SelectKeeps == DateInv /\ (Select \/ SelectFails) => DateInv'
<1> SUFFICES ASSUME DateInv, Select \/ SelectFails PROVE DateInv'
  OBVIOUS
<1>1. RtcTypeOK
  BY DEF DateInv
<1>2. /\ UNCHANGED <<run, now, updating, next, bytes, date>>
      /\ next \in Fields /\ selected' = TRUE
      /\ began' = IF next = 1 THEN now ELSE began
  BY DEF Select, SelectFails, Reading, clock
<1>3. /\ reg' \in 0 .. 6 /\ spoilt' \subseteq Fields /\ spoilt \subseteq spoilt'
      /\ next \notin spoilt' => reg' = next
  <2>1. reg \in 0 .. 6 /\ spoilt \subseteq Fields
    BY <1>1 DEF RtcTypeOK
  <2>2. CASE Select
    BY <1>2, <2>1, <2>2 DEF Select, NthField, Fields
  <2>3. CASE SelectFails
    BY <1>2, <2>1, <2>3 DEF SelectFails, NthField
  <2> QED
    BY <2>2, <2>3
<1>4. now \in Nat /\ now >= 1 /\ began' \in 0 .. now
  BY <1>1, <1>2, ClockTypes DEF RtcTypeOK
<1>5. RtcTypeOK'
  BY <1>1, <1>2, <1>3, <1>4 DEF RtcTypeOK
<1>6. Dec' = Dec /\ Done' = Done
  BY <1>2 DEF Dec, Done
<1>7. ReadSoFar'
  <2>1. next # 8 /\ next \in 1 .. 6
    BY <1>2 DEF Fields
  <2>2. began' >= 1
    BY <1>2, <1>4, <2>1 DEF DateInv, ReadSoFar
  <2> QED
    BY <1>1, <1>2, <1>3, <1>4, <2>1, <2>2 DEF DateInv, ReadSoFar
<1>8. NotAhead'
  BY <1>2, <1>3, <1>6 DEF DateInv, NotAhead
<1>9. FieldsShown'
  <2>1. CASE next = 1
    BY <1>6, <2>1 DEF FieldsShown, Done
  <2>2. CASE next # 1
    BY <1>2, <1>3, <1>6, <2>2 DEF DateInv, FieldsShown
  <2> QED
    BY <2>1, <2>2
<1> QED
  BY <1>5, <1>7, <1>8, <1>9 DEF DateInv

-----------------------------------------------------------------------------
(* An unspoilt read takes the field it is meant to from the clock. *)
LEMMA ReadTakesField ==
    ASSUME DateInv, NEW byte \in Registers, Read(byte)
    PROVE  /\ byte \in 0 .. 255 /\ bytes' = [bytes EXCEPT ![next] = byte]
           /\ spoilt' \subseteq Fields /\ spoilt \subseteq spoilt'
           /\ next \notin spoilt' => convert_bcd_to_dec(byte) = run[now][next]
<1>1. RtcTypeOK /\ next \in Fields /\ run[now] \in Times
  BY ClockTypes DEF DateInv, Read, Reading
<1>2. bytes' = [bytes EXCEPT ![next] = byte]
  BY DEF Read, NthField
<1>3. CASE updating \/ reg = 0
  <2>1. byte \in Junk
    BY <1>3 DEF Registers
  <2>2. byte \in 0 .. 255
    BY <2>1, ClocksAssumption
  <2>3. spoilt' = spoilt \cup {next}
    BY <1>3 DEF Read, NthField
  <2> QED
    BY <1>1, <1>2, <2>2, <2>3 DEF RtcTypeOK
<1>4. CASE ~(updating \/ reg = 0)
  <2>1. reg \in Fields
    BY <1>1, <1>4 DEF RtcTypeOK, Fields
  <2>2. byte = Bcd(run[now][reg]) /\ run[now][reg] \in 0 .. 99
    BY <1>1, <1>4, <2>1 DEF Registers, Times
  <2>3. byte \in 0 .. 255 /\ convert_bcd_to_dec(byte) = run[now][reg]
    BY <2>2, BcdInverse
  <2>4. spoilt' = spoilt
    BY <1>4 DEF Read
  <2>5. next \notin spoilt => reg = next
    BY DEF DateInv, ReadSoFar, Read
  <2> QED
    BY <1>1, <1>2, <2>3, <2>4, <2>5 DEF RtcTypeOK
<1> QED
  BY <1>3, <1>4

LEMMA ReadKeeps ==
    ASSUME DateInv, NEW byte \in Registers, Read(byte)
    PROVE  DateInv'
<1>1. RtcTypeOK /\ next \in 1 .. 6 /\ next' = next + 1 /\ selected' = FALSE
  BY DEF DateInv, Read, Reading, Fields
<1>2. UNCHANGED <<run, now, updating, reg, date, began>>
  BY DEF Read, clock
<1>3. /\ byte \in 0 .. 255 /\ bytes' = [bytes EXCEPT ![next] = byte]
      /\ spoilt' \subseteq Fields /\ spoilt \subseteq spoilt'
      /\ next \notin spoilt' => convert_bcd_to_dec(byte) = run[now][next]
  BY ReadTakesField
<1>4. bytes' \in [Fields -> 0 .. 255]
  BY <1>1, <1>3 DEF RtcTypeOK, Fields
<1>6. next' \in 1 .. 8
  BY <1>1
<1>7. RtcTypeOK'
  BY <1>1, <1>2, <1>3, <1>4, <1>6 DEF RtcTypeOK
<1>8. ReadSoFar'
  BY <1>1, <1>2 DEF DateInv, ReadSoFar, Read
<1>9. Done = next - 1 /\ Done' = next
  BY <1>1 DEF Done
<1>10. /\ Dec'[next] = convert_bcd_to_dec(byte)
       /\ \A f \in 1 .. next - 1 : Dec'[f] = Dec[f]
  <2>1. bytes'[next] = byte /\ \A f \in 1 .. next - 1 : bytes'[f] = bytes[f]
    BY <1>1, <1>3 DEF RtcTypeOK, Fields
  <2>2. next \in Fields /\ \A f \in 1 .. next - 1 : f \in Fields
    BY <1>1 DEF Fields
  <2> QED
    BY <2>1, <2>2 DEF Dec
<1>11. NotAhead'
  <2> SUFFICES ASSUME NEW k \in 0 .. next, (1 .. k) \cap spoilt' = {},
                      Before(run[now], Dec', k)
               PROVE  FALSE
    BY <1>2, <1>9 DEF NotAhead
  <2>1. PICK f \in 1 .. k :
          run[now][f] < Dec'[f] /\ \A g \in 1 .. f - 1 : run[now][g] = Dec'[g]
    BY DEF Before
  <2>2. f \in 1 .. next /\ f \notin spoilt'
    BY <1>1
  <2>3. f # next
    <3>1. run[now] \in Times
      BY <1>1, ClockTypes
    <3>2. run[now][next] \in Int
      BY <1>1, <3>1 DEF Times, Fields
    <3>3. next \notin spoilt' => Dec'[next] = run[now][next]
      BY <1>3, <1>10
    <3> QED
      BY <2>1, <2>2, <3>2, <3>3
  <2>4. f \in 1 .. next - 1
    BY <1>1, <2>2, <2>3
  <2>5. run[now][f] < Dec[f] /\ \A g \in 1 .. f - 1 : run[now][g] = Dec[g]
    <3>1. \A g \in 1 .. f - 1 : g \in 1 .. next - 1
      BY <1>1, <2>4
    <3> QED
      BY <1>10, <2>1, <2>4, <3>1
  <2>6. Before(run[now], Dec, f)
    BY <2>4, <2>5 DEF Before
  <2>7. f \in 0 .. Done /\ (1 .. f) \cap spoilt = {}
    <3>1. 1 .. f \subseteq 1 .. k
      BY <1>1
    <3> QED
      BY <1>1, <1>3, <1>9, <2>4, <3>1
  <2> QED
    BY <2>6, <2>7 DEF DateInv, NotAhead
<1>12. FieldsShown'
  <2> SUFFICES ASSUME NEW f \in 1 .. next, f \notin spoilt'
               PROVE  \E n \in began .. now : Dec'[f] = run[n][f]
    BY <1>2, <1>9 DEF FieldsShown
  <2>1. CASE f = next
    <3>1. now \in began .. now
      BY <1>1, ClockTypes DEF RtcTypeOK
    <3> QED
      BY <1>3, <1>10, <2>1, <3>1
  <2>2. CASE f # next
    <3>1. f \in 1 .. next - 1
      BY <1>1, <2>2
    <3> QED
      BY <1>3, <1>9, <1>10, <3>1 DEF DateInv, FieldsShown
  <2> QED
    BY <2>1, <2>2
<1> QED
  BY <1>7, <1>8, <1>11, <1>12 DEF DateInv

LEMMA ReadFailsKeeps == DateInv /\ ReadFails => DateInv'
<1> SUFFICES ASSUME DateInv, ReadFails PROVE DateInv'
  OBVIOUS
<1>1. RtcTypeOK /\ next \in 1 .. 6 /\ next' = next + 1
  BY DEF DateInv, ReadFails, Reading, Fields
<1>2. /\ UNCHANGED <<run, now, updating, reg, bytes, date, began>>
      /\ spoilt' = spoilt \cup {next} /\ selected' = FALSE
  BY DEF ReadFails, clock, NthField
<1>3. next' \in 1 .. 8 /\ next' # 8 /\ spoilt' \subseteq Fields
  BY <1>1, <1>2 DEF RtcTypeOK, Fields
<1>4. RtcTypeOK'
  BY <1>1, <1>2, <1>3 DEF RtcTypeOK
<1>5. ReadSoFar'
  BY <1>2, <1>3 DEF DateInv, ReadSoFar, ReadFails
<1>6. Done = next - 1 /\ Done' = next /\ Dec' = Dec
  BY <1>1, <1>2 DEF Done, Dec
<1>7. NotAhead'
  <2> SUFFICES ASSUME NEW k \in 0 .. next, (1 .. k) \cap spoilt' = {}
               PROVE  ~Before(run[now], Dec, k)
    BY <1>2, <1>6 DEF NotAhead
  <2>1. k # next /\ (1 .. k) \cap spoilt = {}
    BY <1>1, <1>2
  <2>2. k \in 0 .. Done
    BY <1>1, <1>6, <2>1
  <2> QED
    BY <2>1, <2>2 DEF DateInv, NotAhead
<1>8. FieldsShown'
  <2> SUFFICES ASSUME NEW f \in 1 .. next, f \notin spoilt'
               PROVE  \E n \in began .. now : Dec[f] = run[n][f]
    BY <1>2, <1>6 DEF FieldsShown
  <2>1. f \in 1 .. Done /\ f \notin spoilt
    BY <1>1, <1>2, <1>6
  <2> QED
    BY <2>1 DEF DateInv, FieldsShown
<1> QED
  BY <1>4, <1>5, <1>7, <1>8 DEF DateInv

LEMMA ConvertKeeps == DateInv /\ Convert => DateInv'
<1> SUFFICES ASSUME DateInv, Convert PROVE DateInv'
  OBVIOUS
<1>1. RtcTypeOK /\ next = 7 /\ next' = 8 /\ date' = Dec
  BY DEF DateInv, Convert, Dec
<1>2. UNCHANGED <<run, now, updating, reg, selected, bytes, began, spoilt>>
  BY DEF Convert, clock
<1>3. date' \in [Fields -> 0 .. 165] /\ next' \in 1 .. 8
  BY <1>1, DecType
<1>4. RtcTypeOK'
  BY <1>1, <1>2, <1>3, Zenon DEF RtcTypeOK
<1>5. Dec' = Dec /\ Done' = Done
  <2>1. Dec' = Dec
    BY <1>2 DEF Dec
  <2>2. Done = 6 /\ Done' = 6
    BY <1>1 DEF Done
  <2> QED
    BY <2>1, <2>2
<1>6. ReadSoFar'
  BY <1>1, <1>2, <1>5 DEF DateInv, ReadSoFar, Fields
<1>7. NotAhead' /\ FieldsShown'
  BY <1>2, <1>5 DEF DateInv, NotAhead, FieldsShown
<1> QED
  BY <1>4, <1>6, <1>7 DEF DateInv

LEMMA DateInvKept == DateInv /\ [RtcNext]_rtcVars => DateInv'
<1> SUFFICES ASSUME DateInv, [RtcNext]_rtcVars PROVE DateInv'
  OBVIOUS
<1>1. CASE UpdateBegins \/ UpdateEnds \/ Select \/ SelectFails
  BY <1>1, UpdateBeginsKeeps, UpdateEndsKeeps, SelectKeeps
<1>2. ASSUME NEW byte \in Registers, Read(byte) PROVE DateInv'
  BY <1>2, ReadKeeps
<1>3. CASE ReadFails \/ Convert
  BY <1>3, ReadFailsKeeps, ConvertKeeps
<1>4. CASE UNCHANGED rtcVars
  <2>1. UNCHANGED <<run, now, updating, reg, next, selected, bytes, date, began, spoilt>>
    BY <1>4 DEF rtcVars, clock
  <2>2. Dec' = Dec /\ Done' = Done
    BY <2>1 DEF Dec, Done
  <2>3. RtcTypeOK'
    BY <2>1 DEF DateInv, RtcTypeOK
  <2>4. ReadSoFar' /\ NotAhead' /\ FieldsShown'
    BY <2>1, <2>2 DEF DateInv, ReadSoFar, NotAhead, FieldsShown
  <2> QED
    BY <2>3, <2>4 DEF DateInv
<1> QED
  BY <1>1, <1>2, <1>3, <1>4 DEF RtcNext

LEMMA FilledIsDone ==
    ASSUME DateInv, Filled
    PROVE  date = Dec /\ Done = 6
BY DEF DateInv, ReadSoFar, Filled, Done

-----------------------------------------------------------------------------
(***************************************************************************)
(* For every run of the clock and any number of seconds that pass during   *)
(* get_date, the date is not ahead of the clock as far as its fields were  *)
(* read outside an update (rtc.c:35-58).                                   *)
(***************************************************************************)
THEOREM DateNotAhead == RtcSpec => []NeverAhead
<1>1. ASSUME DateInv PROVE NeverAhead
  <2>1. Fields \subseteq 0 .. 6
    BY DEF Fields
  <2> QED
    BY <1>1, <2>1, FilledIsDone DEF DateInv, NotAhead, NeverAhead
<1> QED
  BY <1>1, DateInvInit, DateInvKept, PTL DEF RtcSpec

(***************************************************************************)
(* For every run of the clock each field of the date read outside an       *)
(* update, the hour above all (proj.c:200), is one the clock showed during *)
(* get_date (rtc.c:35-58).                                                 *)
(***************************************************************************)
THEOREM EachFieldShown == RtcSpec => []FieldsWereShown
<1>1. DateInv => FieldsWereShown
  BY FilledIsDone DEF DateInv, FieldsShown, FieldsWereShown, Fields
<1> QED
  BY <1>1, DateInvInit, DateInvKept, PTL DEF RtcSpec

LEMMA WholeDate == DateInv /\ FieldsWereShown => ActualDate
<1> SUFFICES ASSUME DateInv, FieldsWereShown, Filled, spoilt = {}, NoCarry
             PROVE  \E n \in began .. now : date = run[n]
  BY DEF ActualDate
<1>1. \A f \in 1 .. 6 : \E n \in began .. now : date[f] = run[n][f]
  BY DEF FieldsWereShown, Fields
<1>2. PICK n \in began .. now : date[6] = run[n][6]
  BY <1>1
<1>3. \A f \in 1 .. 5 : date[f] = run[began][f]
  BY <1>1 DEF NoCarry
<1>4. \A f \in 1 .. 5 : date[f] = run[n][f]
  BY <1>3 DEF NoCarry
<1>5. date \in [Fields -> Int] /\ run[n] \in [Fields -> Int]
  <2>1. RtcTypeOK /\ date = Dec /\ 0 .. 165 \subseteq Int /\ 0 .. 99 \subseteq Int
    BY FilledIsDone DEF DateInv
  <2>2. date \in [Fields -> Int]
    BY <2>1, DecType
  <2>3. run \in Seq(Times) /\ now \in 1 .. Len(run) /\ began \in 1 .. now
    BY <2>1, ClocksAssumption DEF RtcTypeOK, DateInv, ReadSoFar, Filled
  <2>4. run[n] \in Times
    BY <2>3
  <2> QED
    BY <2>1, <2>2, <2>4 DEF Times
<1>6. \A f \in Fields : date[f] = run[n][f]
  <2>1. \A f \in Fields : f \in 1 .. 5 \/ f = 6
    BY DEF Fields
  <2> QED
    BY <1>2, <1>4, <2>1
<1>7. date = run[n]
  BY <1>5, <1>6
<1> QED
  BY <1>7

(***************************************************************************)
(* For every run of the clock the date read by get_date consists of fields *)
(* shown during the call and is not in the future, as far as no field was  *)
(* read in an update; and it is the actual date (rtc.h:47) when none was   *)
(* and no minute ended during the call (rtc.c:35-58).                      *)
(***************************************************************************)
THEOREM RecentDate == RtcSpec => []DateIsRecent
<1>1. DateInv /\ NeverAhead /\ FieldsWereShown => DateIsRecent
  BY WholeDate DEF DateIsRecent
<1> QED
  BY <1>1, DateInvInit, DateInvKept, DateNotAhead, EachFieldShown, PTL DEF RtcSpec
=============================================================================
