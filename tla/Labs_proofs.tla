---------------------------- MODULE Labs_proofs ------------------------------
(***************************************************************************)
(* The functions of labs 2 to 4: the loops that count idle seconds, the    *)
(* reading of scan codes by interrupt and by polling, and the calls by     *)
(* which every function, the game included, takes and lets go its devices. *)
(***************************************************************************)
EXTENDS IdleLoop, ScanReader, KbdPoll, Lifecycle, SequenceTheorems, TLAPS

(* The idle loops (lab2.c, lab3.c, lab4.c).                                *)
IdleType ==
    /\ loop \in Loops /\ n \in Seconds
    /\ pending \in SUBSET {"tick", "input"}
    /\ tmr_tck_counter \in Nat
    /\ ended \in BOOLEAN /\ missed \in BOOLEAN /\ escaped \in BOOLEAN
    /\ idle \in 0 .. MaxIdle

TickPending == IF "tick" \in pending THEN 1 ELSE 0

(***************************************************************************)
(* What the counter will be once the message is served, against the ticks  *)
(* since the last byte: at most one more, and no fewer if none was missed. *)
(***************************************************************************)
CounterNear ==
    /\ CounterBefore + TickPending <= idle + 1 \/ idle = MaxIdle
    /\ ~missed => CounterBefore + TickPending >= idle

StillRunning == ~ended => tmr_tck_counter = 0 \/ tmr_tck_counter < n * HZ

IdleInv == IdleType /\ CounterNear /\ StillRunning /\ EndsNotTooEarly

LEMMA LimitInNat == IdleType => n * HZ \in Nat /\ n * HZ < MaxIdle
BY IdleAssumption DEF IdleType

LEMMA MaxIdleInNat == MaxIdle \in Nat
BY IdleAssumption

LEMMA IdleTypeStep == IdleType /\ [IdleNext]_idleVars => IdleType'
<1> SUFFICES ASSUME IdleType, [IdleNext]_idleVars PROVE IdleType'
  OBVIOUS
<1>1. CASE Tick
  <2>1. missed' \in BOOLEAN
    BY <1>1, Zenon DEF Tick
  <2> QED
    BY <1>1, <2>1, MaxIdleInNat DEF Tick, IdleType
<1>2. CASE Input
  <2>1. missed' \in BOOLEAN /\ ended' = ended /\ escaped' = escaped /\ idle' = 0
    BY <1>2 DEF Input
  <2>2. pending' \in SUBSET {"tick", "input"}
    BY <1>2 DEF Input, IdleType
  <2> QED
    BY <1>2, <2>1, <2>2, MaxIdleInNat DEF Input, IdleType
<1>3. ASSUME NEW esc \in BOOLEAN, NEW skip \in BOOLEAN, Serve(esc, skip) PROVE IdleType'
  <2>1. tmr_tck_counter' \in Nat
    BY <1>3 DEF Serve, IdleType, CounterBefore
  <2>2. ended' \in BOOLEAN /\ missed' \in BOOLEAN /\ escaped' \in BOOLEAN
    BY <1>3, Zenon DEF Serve
  <2> QED
    BY <1>3, <2>1, <2>2 DEF Serve, IdleType
<1>4. CASE UNCHANGED idleVars
  BY <1>4 DEF idleVars, history, IdleType
<1> QED
  BY <1>1, <1>2, <1>3, <1>4 DEF IdleNext, Served

LEMMA NearStep == IdleType /\ CounterNear /\ [IdleNext]_idleVars => CounterNear'
<1> SUFFICES ASSUME IdleType, CounterNear, [IdleNext]_idleVars PROVE CounterNear'
  OBVIOUS
<1> USE DEF CounterNear, CounterBefore, TickPending
<1>1. CASE Tick
  <2>1. missed' <=> missed \/ "tick" \in pending
    BY <1>1, Zenon DEF Tick
  <2>2. /\ pending' = pending \cup {"tick"} /\ tmr_tck_counter' = tmr_tck_counter
        /\ idle' = IF idle < MaxIdle THEN idle + 1 ELSE idle
    BY <1>1 DEF Tick
  <2> QED
    BY <2>1, <2>2, MaxIdleInNat DEF IdleType
<1>2. CASE Input
  BY <1>2, MaxIdleInNat, SMT DEF Input, IdleType
<1>3. ASSUME NEW esc \in BOOLEAN, NEW skip \in BOOLEAN, Serve(esc, skip) PROVE CounterNear'
  <2>1. missed' <=> missed \/ (skip /\ "tick" \in pending)
    BY <1>3, Zenon DEF Serve
  <2>2. /\ pending' = {} /\ idle' = idle
        /\ tmr_tck_counter' = IF Handled(skip) THEN CounterBefore + 1 ELSE CounterBefore
    BY <1>3 DEF Serve
  <2> QED
    BY <2>1, <2>2, MaxIdleInNat DEF Handled, IdleType
<1>4. CASE UNCHANGED idleVars
  BY <1>4 DEF idleVars, history
<1> QED
  BY <1>1, <1>2, <1>3, <1>4 DEF IdleNext, Served

LEMMA RunningStep == IdleInv /\ [IdleNext]_idleVars => StillRunning' /\ EndsNotTooEarly'
<1> SUFFICES ASSUME IdleInv, [IdleNext]_idleVars PROVE StillRunning' /\ EndsNotTooEarly'
  OBVIOUS
<1>l. n * HZ \in Nat /\ n * HZ < MaxIdle
  BY LimitInNat DEF IdleInv
<1>1. CASE Tick
  BY <1>1, <1>l DEF Tick, IdleInv, IdleType, StillRunning, EndsNotTooEarly
<1>2. CASE Input
  BY <1>2, <1>l DEF Input, IdleInv, IdleType, StillRunning, EndsNotTooEarly
<1>3. ASSUME NEW esc \in BOOLEAN, NEW skip \in BOOLEAN, Serve(esc, skip)
      PROVE  StillRunning' /\ EndsNotTooEarly'
  <2> DEFINE limit == n * HZ
  <2>1. limit \in Nat /\ limit < MaxIdle /\ n' * HZ = limit
    BY <1>3, <1>l DEF Serve
  <2>2. ended' <=> esc \/ (tmr_tck_counter' >= limit /\ (loop = "kbd_test_timed_scan" => Handled(skip)))
    BY <1>3 DEF Serve, TimeUp
  <2>3. tmr_tck_counter' = CounterBefore + (IF Handled(skip) THEN 1 ELSE 0)
    BY <1>3 DEF Serve, CounterBefore, IdleInv, IdleType
  <2>4. /\ CounterBefore + TickPending <= idle + 1 \/ idle = MaxIdle
        /\ idle \in 0 .. MaxIdle /\ idle' = idle /\ tmr_tck_counter \in Nat
        /\ escaped' = esc /\ ~ended
    BY <1>3 DEF Serve, IdleInv, CounterNear, IdleType
  <2>5. EndsNotTooEarly'
    <3> HIDE DEF limit
    <3>1. CounterBefore \in Nat /\ (Handled(skip) => TickPending = 1) /\ TickPending \in 0 .. 1
      BY <2>4 DEF CounterBefore, Handled, TickPending
    <3>2. tmr_tck_counter' <= CounterBefore + TickPending
      BY <2>3, <3>1
    <3>3. ended' /\ ~escaped' => idle' >= limit - 1
      BY <2>1, <2>2, <2>3, <2>4, <3>1, <3>2, MaxIdleInNat
    <3> QED
      BY <3>3, <2>1 DEF EndsNotTooEarly
  <2>6. StillRunning'
    <3>1. "tick" \notin pending => "input" \in pending
      BY <1>3 DEF Serve, IdleInv, IdleType
    <3>2. skip => "input" \in pending
      BY <1>3 DEF Serve
    <3>a. ~Handled(skip) => "input" \in pending
      BY <3>1, <3>2, Zenon DEF Handled
    <3>3. ~Handled(skip) => tmr_tck_counter' = 0
      BY <2>3, <3>a DEF CounterBefore
    <3> HIDE DEF limit
    <3>4. ~ended' => tmr_tck_counter' = 0 \/ tmr_tck_counter' < limit
      BY <2>1, <2>2, <2>3, <2>4, <3>3 DEF CounterBefore
    <3> QED
      BY <3>4, <2>1 DEF StillRunning
  <2> QED
    BY <2>5, <2>6
<1>4. CASE UNCHANGED idleVars
  BY <1>4 DEF idleVars, history, IdleInv, StillRunning, EndsNotTooEarly
<1> QED
  BY <1>1, <1>2, <1>3, <1>4 DEF IdleNext, Served

LEMMA IdleInvInit == IdleInit => IdleInv
<1> SUFFICES ASSUME IdleInit PROVE IdleInv
  OBVIOUS
<1>e. ended \in BOOLEAN
  BY Zenon DEF IdleInit
<1>1. IdleType
  <2>1. pending \in SUBSET {"tick", "input"} /\ idle \in 0 .. MaxIdle
    BY MaxIdleInNat DEF IdleInit
  <2>2. missed \in BOOLEAN /\ escaped \in BOOLEAN /\ tmr_tck_counter \in Nat
    BY DEF IdleInit
  <2> QED
    BY <1>e, <2>1, <2>2 DEF IdleInit, IdleType
<1>2. CounterNear
  BY DEF IdleInit, CounterNear, CounterBefore, TickPending
<1>3. ended => n * HZ = 0
  <2>1. ended => n = 0
    BY DEF IdleInit
  <2> QED
    BY <2>1, IdleAssumption
<1> QED
  BY <1>1, <1>2, <1>3 DEF IdleInit, IdleInv, StillRunning, EndsNotTooEarly

LEMMA IdleInvariance == IdleSpec => []IdleInv
<1>1. IdleInv /\ [IdleNext]_idleVars => IdleInv'
  BY IdleTypeStep, NearStep, RunningStep DEF IdleInv
<1> QED
  BY <1>1, IdleInvInit, PTL DEF IdleSpec

(***************************************************************************)
(* No loop ends more than one tick before its time (lab2.c:74,             *)
(* lab3.c:133, lab4.c:106).                                                *)
(***************************************************************************)
THEOREM NotTooEarly == IdleSpec => []EndsNotTooEarly
<1>1. IdleInv => EndsNotTooEarly
  BY DEF IdleInv
<1> QED
  BY <1>1, IdleInvariance, PTL

(***************************************************************************)
(* A loop that has missed no tick has ended when its time is over.         *)
(***************************************************************************)
THEOREM OnTime == IdleSpec => []EndsOnTime
<1>1. IdleInv => EndsOnTime
  BY LimitInNat DEF IdleInv, EndsOnTime, CounterNear, StillRunning, CounterBefore, TickPending, IdleType
<1> QED
  BY <1>1, IdleInvariance, PTL

-----------------------------------------------------------------------------
(* The messages printed are the whole seconds counted, and no more ticks   *)
(* are counted than there were.                                            *)
SecondsCounted ==
    loop = "timer_test_int" =>
        /\ prints \in Nat /\ "input" \notin pending
        /\ prints * HZ <= tmr_tck_counter /\ tmr_tck_counter < (prints + 1) * HZ
        /\ tmr_tck_counter + TickPending <= idle \/ idle = MaxIdle
        /\ IF ended THEN tmr_tck_counter = n * HZ ELSE tmr_tck_counter < n * HZ

LEMMA Multiples ==
    ASSUME NEW a \in Nat, NEW b \in Nat, a < b
    PROVE  a * HZ \in Nat /\ b * HZ \in Nat /\ a * HZ + HZ <= b * HZ
<1>1. HZ \in Nat /\ b - a - 1 \in Nat
  BY IdleAssumption
<1>2. PICK k \in Nat : b = a + 1 + k
  BY <1>1
<1>3. b * HZ = a * HZ + HZ + k * HZ /\ k * HZ \in Nat /\ a * HZ \in Nat
  BY <1>1, <1>2
<1> QED
  BY <1>1, <1>3

(* The second that a tick completes (PrintsNow, lab2.c:87). *)
LEMMA NextSecond ==
    ASSUME NEW p \in Nat, NEW c \in Nat, p * HZ <= c, c < (p + 1) * HZ
    PROVE  /\ PrintsNow(c + 1) => c + 1 = (p + 1) * HZ
           /\ ~PrintsNow(c + 1) => c + 1 < (p + 1) * HZ
<1> DEFINE q == (c + 1) \div HZ
           r == (c + 1) % HZ
<1>1. HZ \in Nat /\ HZ > 0
  BY IdleAssumption
<1>2. q \in Nat /\ r \in Nat /\ r < HZ /\ c + 1 = HZ * q + r
  BY <1>1
<1>3. PrintsNow(c + 1) <=> r = 0
  BY DEF PrintsNow
<1> HIDE DEF q, r
<1>4. HZ * q = q * HZ /\ q * HZ \in Nat /\ p * HZ \in Nat /\ (p + 1) * HZ \in Nat
  BY <1>1, <1>2
<1>5. q < p + 1 => q * HZ + HZ <= (p + 1) * HZ
  BY <1>2, Multiples
<1>6. q > p + 1 => (p + 1) * HZ + HZ <= q * HZ
  BY <1>2, Multiples
<1>7. q <= p => q * HZ <= p * HZ
  <2>1. q < p => q * HZ + HZ <= p * HZ
    BY <1>2, Multiples
  <2> QED
    BY <1>1, <1>2, <1>4, <2>1
<1>8. ~(q > p + 1)
  BY <1>1, <1>2, <1>4, <1>6
<1>9. CASE q = p + 1
  BY <1>2, <1>3, <1>4, <1>9
<1>10. CASE q <= p
  BY <1>1, <1>2, <1>3, <1>4, <1>5, <1>7, <1>10
<1> QED
  BY <1>2, <1>8, <1>9, <1>10

LEMMA SecondsStep == IdleInv /\ SecondsCounted /\ [IdleNext]_idleVars => SecondsCounted'
<1> SUFFICES ASSUME IdleInv, SecondsCounted, [IdleNext]_idleVars, loop' = "timer_test_int"
             PROVE  SecondsCounted'
  BY DEF SecondsCounted
<1>l. n * HZ \in Nat /\ n * HZ < MaxIdle /\ HZ \in Nat
  BY LimitInNat, IdleAssumption DEF IdleInv
<1>0. loop = "timer_test_int" /\ n' = n
  BY DEF IdleNext, Tick, Input, Served, Serve, idleVars, history
<1>a. /\ prints \in Nat /\ "input" \notin pending
      /\ prints * HZ <= tmr_tck_counter /\ tmr_tck_counter < (prints + 1) * HZ
      /\ tmr_tck_counter + TickPending <= idle \/ idle = MaxIdle
      /\ IF ended THEN tmr_tck_counter = n * HZ ELSE tmr_tck_counter < n * HZ
  BY <1>0 DEF SecondsCounted
<1>1. CASE Tick
  <2>1. /\ ended' = ended /\ tmr_tck_counter' = tmr_tck_counter /\ prints' = prints
        /\ "input" \notin pending' /\ TickPending' = 1 /\ TickPending \in 0 .. 1
        /\ idle' = IF idle < MaxIdle THEN idle + 1 ELSE idle
    BY <1>1, <1>a DEF Tick, TickPending
  <2>2. tmr_tck_counter' + TickPending' <= idle' \/ idle' = MaxIdle
    BY <1>a, <2>1, MaxIdleInNat DEF IdleInv, IdleType
  <2> QED
    BY <1>0, <1>a, <2>1, <2>2 DEF SecondsCounted
<1>2. CASE Input
  BY <1>0, <1>2 DEF Input
<1>3. ASSUME NEW esc \in BOOLEAN, NEW skip \in BOOLEAN, Serve(esc, skip)
      PROVE  SecondsCounted'
  <2>1. ~esc /\ ~skip /\ ~ended /\ "tick" \in pending
    BY <1>0, <1>3, <1>a DEF Serve, IdleInv, IdleType
  <2>2. /\ tmr_tck_counter' = tmr_tck_counter + 1 /\ tmr_tck_counter \in Nat
        /\ pending' = {} /\ idle' = idle /\ TickPending = 1 /\ TickPending' = 0
    BY <1>3, <1>a, <2>1 DEF Serve, Handled, CounterBefore, TickPending, IdleInv, IdleType
  <2>3. prints' = IF PrintsNow(tmr_tck_counter + 1) THEN prints + 1 ELSE prints
    BY <1>0, <1>3, <2>2 DEF Serve
  <2>4. ended' <=> tmr_tck_counter + 1 >= n * HZ
    BY <1>0, <1>3, <2>1, <2>2 DEF Serve, TimeUp
  <2>5. /\ PrintsNow(tmr_tck_counter + 1) => tmr_tck_counter + 1 = (prints + 1) * HZ
        /\ ~PrintsNow(tmr_tck_counter + 1) => tmr_tck_counter + 1 < (prints + 1) * HZ
    BY <1>a, <2>2, NextSecond
  <2>6. /\ (prints + 1) * HZ + HZ <= (prints + 1 + 1) * HZ
        /\ (prints + 1) * HZ \in Nat /\ (prints + 1 + 1) * HZ \in Nat /\ prints * HZ \in Nat
    BY <1>a, <1>l, Multiples
  <2>7. /\ prints' \in Nat
        /\ prints' * HZ <= tmr_tck_counter' /\ tmr_tck_counter' < (prints' + 1) * HZ
    <3>1. CASE PrintsNow(tmr_tck_counter + 1)
      <4>1. prints' = prints + 1 /\ HZ > 0
        BY <2>3, <3>1, IdleAssumption
      <4> QED
        BY <1>l, <1>a, <2>2, <2>5, <2>6, <3>1, <4>1
    <3>2. CASE ~PrintsNow(tmr_tck_counter + 1)
      BY <1>l, <1>a, <2>2, <2>3, <2>5, <2>6, <3>2
    <3> QED
      BY <3>1, <3>2
  <2>8. tmr_tck_counter' + TickPending' <= idle' \/ idle' = MaxIdle
    BY <1>a, <2>2 DEF IdleInv, IdleType
  <2>9. IF ended' THEN tmr_tck_counter' = n' * HZ ELSE tmr_tck_counter' < n' * HZ
    BY <1>l, <1>0, <1>a, <2>1, <2>2, <2>4
  <2> QED
    BY <2>2, <2>7, <2>8, <2>9 DEF SecondsCounted
<1>4. CASE UNCHANGED idleVars
  BY <1>4 DEF idleVars, history, SecondsCounted, TickPending
<1> QED
  BY <1>1, <1>2, <1>3, <1>4 DEF IdleNext, Served

LEMMA SecondsInit == IdleInit => SecondsCounted
<1> SUFFICES ASSUME IdleInit, loop = "timer_test_int" PROVE SecondsCounted
  BY DEF SecondsCounted
<1>1. n \in Nat /\ HZ \in Nat /\ HZ > 0
  BY IdleAssumption DEF IdleInit
<1>2. IF ended THEN n = 0 ELSE 0 < n
  <2>1. ended <=> n = 0
    BY Zenon DEF IdleInit
  <2> QED
    BY <1>1, <2>1
<1>3. IF ended THEN 0 = n * HZ ELSE 0 < n * HZ
  <2>1. 0 < n => 0 * HZ + HZ <= n * HZ /\ n * HZ \in Nat
    BY <1>1, Multiples
  <2> QED
    BY <1>1, <1>2, <2>1
<1>4. 0 * HZ = 0 /\ (0 + 1) * HZ = HZ
  BY <1>1
<1> QED
  BY <1>1, <1>3, <1>4 DEF IdleInit, SecondsCounted, TickPending

LEMMA CountedIsPrinted == IdleInv /\ SecondsCounted => SecondsPrinted
<1> SUFFICES ASSUME IdleInv, SecondsCounted, loop = "timer_test_int", ended
             PROVE  prints = n /\ idle >= n * HZ
  BY DEF SecondsPrinted
<1>1. n \in Nat /\ HZ \in Nat /\ n * HZ \in Nat /\ n * HZ < MaxIdle
  BY LimitInNat, IdleAssumption DEF IdleInv, IdleType
<1>2. prints \in Nat /\ prints * HZ <= n * HZ /\ n * HZ < (prints + 1) * HZ
  BY DEF SecondsCounted
<1>3. n < prints => n * HZ + HZ <= prints * HZ
  BY <1>1, <1>2, Multiples
<1>4. prints + 1 <= n => (prints + 1) * HZ <= n * HZ
  <2>1. prints + 1 < n => (prints + 1) * HZ + HZ <= n * HZ /\ (prints + 1) * HZ \in Nat
    BY <1>1, <1>2, Multiples
  <2> QED
    BY <1>1, <1>2, <2>1
<1>5. HZ > 0 /\ prints * HZ \in Nat /\ (prints + 1) * HZ \in Nat
  BY <1>1, <1>2, IdleAssumption
<1>6. prints = n
  BY <1>1, <1>2, <1>3, <1>4, <1>5
<1>7. idle >= n * HZ
  BY <1>1, MaxIdleInNat DEF SecondsCounted, TickPending, IdleInv, IdleType
<1> QED
  BY <1>6, <1>7

(***************************************************************************)
(* For every tick rate and every argument the loops of the labs end in     *)
(* time, and timer_test_int has printed one message a second (lab2.c:74-88,*)
(* lab3.c:125-135, lab4.c:106-129).                                        *)
(***************************************************************************)
THEOREM InTime == IdleSpec => []EndsInTime
<1>1. IdleInv /\ SecondsCounted /\ [IdleNext]_idleVars => SecondsCounted'
  BY SecondsStep
<1>2. EndsNotTooEarly /\ EndsOnTime /\ SecondsPrinted => EndsInTime
  BY DEF EndsInTime
<1> QED
  BY <1>1, <1>2, SecondsInit, IdleInvariance, CountedIsPrinted, NotTooEarly, OnTime, PTL DEF IdleSpec

-----------------------------------------------------------------------------
(* Scan codes by interrupt (keyboard.c).                                   *)
Shown == Bytes \cup {"00"}

ScanType ==
    /\ code \in {"lab3", "lab5"} /\ key \in Codes
    /\ sent \in {0, 1} /\ (Len(key) = 1 => sent = 0)
    /\ bytes \in 1 .. 2 /\ scancodes \in [1 .. 2 -> Shown]
    /\ hit \in BOOLEAN /\ hitBefore \in BOOLEAN

(* The reader expects the first byte of a code, or the second.             *)
AtStart ==
    /\ code = "lab3" => bytes = 1
    /\ code = "lab5" => scancodes[1] # "E0"

Announced ==
    /\ scancodes[1] = "E0"
    /\ code = "lab3" => bytes = 2

(***************************************************************************)
(* The reader is where the keyboard is after a code, or a first byte, that *)
(* no error has hit, whatever it was left with before.                     *)
(***************************************************************************)
InStep ==
    /\ sent = 0 => ~hit /\ (~hitBefore => AtStart)
    /\ sent = 1 /\ ~hit => Announced

ScanInv == ScanType /\ InStep

(* Codes of two bytes begin with 0xE0, and no code ends with it.           *)
LEMMA CodeShape ==
    ASSUME NEW c \in Codes
    PROVE  \/ Len(c) = 1 /\ c = <<c[1]>> /\ c[1] \in Makes \cup Breaks
           \/ Len(c) = 2 /\ c = <<"E0", c[2]>> /\ c[1] = "E0" /\ c[2] \in Makes \cup Breaks
BY DEF Codes, Makes, Breaks

LEMMA LastByte == "E0" \notin Makes \cup Breaks
BY DEF Makes, Breaks

(* What the keyboard does.                                                 *)
LEMMA SentEffect ==
    ASSUME ScanType, NEW ok \in BOOLEAN, Sent(ok)
    PROVE  /\ key' \in Codes /\ sent' \in {0, 1} /\ (Len(key') = 1 => sent' = 0)
           /\ hit' \in BOOLEAN /\ hitBefore' \in BOOLEAN
           /\ sent + 1 = Len(key) => sent' = 0 /\ ~hit' /\ (hitBefore' <=> hit \/ ~ok)
           /\ sent + 1 # Len(key) => /\ Len(key) = 2 /\ sent = 0 /\ sent' = 1 /\ key' = key
                                     /\ hit' <=> hit \/ ~ok
<1>1. (Len(key) = 1 /\ sent = 0) \/ (Len(key) = 2 /\ sent \in {0, 1})
  BY CodeShape DEF ScanType
<1>2. CASE sent + 1 = Len(key)
  <2>1. sent' = 0 /\ key' \in Codes
    BY <1>2 DEF Sent
  <2>2. ~hit' /\ hit' \in BOOLEAN
    BY <1>2, Zenon DEF Sent
  <2>3. hitBefore' <=> hit \/ ~ok
    BY <1>2, Zenon DEF Sent
  <2>4. hitBefore' \in BOOLEAN
    BY <1>2, Zenon DEF Sent
  <2> QED
    BY <1>2, <2>1, <2>2, <2>3, <2>4
<1>3. CASE sent + 1 # Len(key)
  <2>0. (sent = 0 => sent + 1 = 1) /\ (sent = 1 => sent + 1 = 2)
    OBVIOUS
  <2>1. Len(key) = 2 /\ sent = 0
    BY <1>1, <1>3, <2>0, Zenon
  <2>2. sent' = 1 /\ key' = key
    BY <1>3, <2>1 DEF Sent
  <2>3. hit' \in BOOLEAN /\ (hit' <=> hit \/ ~ok)
    BY <1>3, Zenon DEF Sent
  <2>4. hitBefore' \in BOOLEAN
    BY <1>3 DEF Sent, ScanType
  <2> QED
    BY <1>3, <2>1, <2>2, <2>3, <2>4 DEF ScanType
<1> QED
  BY <1>2, <1>3

(* What the two texts make of a byte.                                      *)
LEMMA ReaderEffect ==
    ASSUME ScanType, NEW byte \in Bytes,
           \/ code = "lab3" /\ printSC(byte)
           \/ code = "lab5" /\ kbc_print_scancode(byte),
           code' = code
    PROVE  /\ bytes' \in 1 .. 2 /\ scancodes' \in [1 .. 2 -> Shown]
           /\ byte = "E0" => Announced'
           /\ byte # "E0" => AtStart'
<1>0. byte \in Shown /\ "00" \in Shown /\ "00" # "E0" /\ <<"00", "00">> \in [1 .. 2 -> Shown]
  BY DEF Shown
<1>1. CASE code = "lab3"
  BY <1>0, <1>1 DEF printSC, ScanType, Announced, AtStart
<1>2. CASE code = "lab5"
  BY <1>0, <1>2 DEF kbc_print_scancode, ScanType, Announced, AtStart
<1> QED
  BY <1>1, <1>2

LEMMA ScanStep == ScanInv /\ [ScanNext]_scanVars => ScanInv'
<1> SUFFICES ASSUME ScanInv, [ScanNext]_scanVars PROVE ScanInv'
  OBVIOUS
<1>1. ASSUME NEW byte \in Bytes, NEW ok \in BOOLEAN, Interrupt(byte, ok) PROVE ScanInv'
  <2>0. ScanType
    BY DEF ScanInv
  <2>1. /\ bytes' \in 1 .. 2 /\ scancodes' \in [1 .. 2 -> Shown] /\ code' = code
        /\ byte = "E0" => Announced'
        /\ byte # "E0" => AtStart'
    BY <1>1, <2>0, ReaderEffect DEF Interrupt, kbc_ih
  <2>2. Sent(ok) /\ (ok => byte = key[sent + 1])
    BY <1>1 DEF Interrupt
  <2>3. ScanType'
    BY <2>0, <2>1, <2>2, SentEffect DEF ScanType
  <2>4. CASE sent + 1 = Len(key)
    <3>1. sent' = 0 /\ ~hit' /\ (hitBefore' <=> hit \/ ~ok)
      BY <2>0, <2>2, <2>4, SentEffect
    <3>2. key[sent + 1] # "E0"
      BY <2>0, <2>4, CodeShape, LastByte DEF ScanType
    <3> QED
      BY <2>1, <2>2, <2>3, <3>1, <3>2 DEF ScanInv, InStep
  <2>5. CASE sent + 1 # Len(key)
    <3>1. Len(key) = 2 /\ sent = 0 /\ sent' = 1 /\ (hit' <=> hit \/ ~ok)
      BY <2>0, <2>2, <2>5, SentEffect
    <3>2. key[1] = "E0"
      BY <2>0, <3>1, CodeShape DEF ScanType
    <3> QED
      BY <2>1, <2>2, <2>3, <3>1, <3>2 DEF ScanInv, InStep
  <2> QED
    BY <2>4, <2>5
<1>2. CASE UNCHANGED scanVars
  BY <1>2 DEF scanVars, keyboard, reader, ScanInv, ScanType, InStep, AtStart, Announced
<1> QED
  BY <1>1, <1>2 DEF ScanNext

(* The beginnings of an array of two.                                      *)
LEMMA FirstOfTwo ==
    ASSUME NEW S, NEW a \in S, NEW b \in S
    PROVE  SubSeq(<<a, b>>, 1, 1) = <<a>> /\ SubSeq(<<a, b>>, 1, 2) = <<a, b>>
<1> DEFINE s == SubSeq(<<a, b>>, 1, 1)
<1>1. <<a, b>> \in Seq(S) /\ Len(<<a, b>>) = 2
  OBVIOUS
<1>2. s \in Seq(S) /\ Len(s) = 1 /\ s[1] = a
  BY <1>1, SubSeqProperties
<1> HIDE DEF s
<1>3. s \in [1 .. 1 -> S]
  BY <1>2, LenProperties
<1>4. s = <<a>>
  BY <1>2, <1>3
<1>5. SubSeq(<<a, b>>, 1, 2) = <<a, b>>
  BY <1>1, SubSeqFull
<1> QED
  BY <1>4, <1>5 DEF s

(* A second byte, or an only one, is printed with what came before it.     *)
LEMMA PrintedCode ==
    ASSUME ScanType, NEW byte \in Bytes, byte # "E0",
           \/ code = "lab3" /\ printSC(byte)
           \/ code = "lab5" /\ kbc_print_scancode(byte)
    PROVE  /\ AtStart => printed' = <<byte \in Makes, <<byte>>>>
           /\ Announced => printed' = <<byte \in Makes, <<"E0", byte>>>>
<1>0. byte \in Shown /\ scancodes[1] \in Shown /\ scancodes[2] \in Shown
  BY DEF ScanType, Shown
<1>1. SubSeq([scancodes EXCEPT ![1] = byte], 1, 1) = <<byte>>
  <2>1. [scancodes EXCEPT ![1] = byte] = <<byte, scancodes[2]>>
    BY DEF ScanType
  <2>2. SubSeq(<<byte, scancodes[2]>>, 1, 1) = <<byte>>
    BY <1>0, FirstOfTwo
  <2> QED
    BY <2>1, <2>2, Zenon
<1>2. scancodes[1] = "E0" => SubSeq([scancodes EXCEPT ![2] = byte], 1, 2) = <<"E0", byte>>
  <2>1. [scancodes EXCEPT ![2] = byte] = <<scancodes[1], byte>>
    BY DEF ScanType
  <2>2. SubSeq(<<scancodes[1], byte>>, 1, 2) = <<scancodes[1], byte>>
    BY <1>0, FirstOfTwo
  <2> QED
    BY <2>1, <2>2, Zenon
<1>3. CASE code = "lab3"
  <2>1. printed' = <<byte \in Makes, SubSeq([scancodes EXCEPT ![bytes] = byte], 1, bytes)>>
    BY <1>3 DEF printSC
  <2>2. /\ AtStart => bytes = 1
        /\ Announced => bytes = 2 /\ scancodes[1] = "E0"
    BY <1>3 DEF AtStart, Announced
  <2> QED
    BY <1>1, <1>2, <2>1, <2>2, Zenon
<1>4. CASE code = "lab5"
  <2> DEFINE n_bytes == IF scancodes[1] = "E0" THEN 2 ELSE 1
  <2>1. printed' = <<byte \in Makes, SubSeq([scancodes EXCEPT ![n_bytes] = byte], 1, n_bytes)>>
    BY <1>4 DEF kbc_print_scancode
  <2>2. /\ AtStart => n_bytes = 1
        /\ Announced => n_bytes = 2 /\ scancodes[1] = "E0"
    BY <1>4 DEF AtStart, Announced
  <2> HIDE DEF n_bytes
  <2> QED
    BY <1>1, <1>2, <2>1, <2>2, Zenon
<1> QED
  BY <1>3, <1>4

(***************************************************************************)
(* For every sequence of keys and errors, a code that no error hit after   *)
(* one that no error hit is printed as it was sent (lab3/keyboard.c:46-71, *)
(* lab5/keyboard.c:56-79).                                                 *)
(***************************************************************************)
THEOREM PrintedAsSent == ScanSpec => PrintsAsSent
<1>1. ScanInit => ScanInv
  <2> SUFFICES ASSUME ScanInit PROVE ScanInv
    OBVIOUS
  <2>1. ~hit /\ hit \in BOOLEAN /\ ~hitBefore /\ hitBefore \in BOOLEAN
    BY Zenon DEF ScanInit
  <2>2. key \in Codes /\ Len(key) \in 1 .. 2
    BY CodeShape DEF ScanInit
  <2>3. scancodes \in [1 .. 2 -> Shown] /\ scancodes[1] # "E0" /\ sent = 0 /\ bytes = 1
    BY DEF ScanInit, Shown
  <2> QED
    BY <2>1, <2>2, <2>3 DEF ScanInit, ScanInv, ScanType, InStep, AtStart
<1>2. ScanInv /\ [ScanNext]_scanVars => [PrintRight]_scanVars
  <2> SUFFICES ASSUME ScanInv, NEW byte \in Bytes, NEW ok \in BOOLEAN, Interrupt(byte, ok),
                      ~hit, ~hitBefore, ~hitBefore', sent' = 0
               PROVE  printed' = <<key[Len(key)] \in Makes, key>>
    BY DEF ScanNext, PrintRight
  <2>0. ScanType /\ Sent(ok)
    BY DEF ScanInv, Interrupt
  <2>1. sent + 1 = Len(key) /\ ok
    BY <2>0, SentEffect
  <2>2. byte = key[Len(key)]
    BY <2>1 DEF Interrupt
  <2>3. byte # "E0"
    BY <2>0, <2>2, CodeShape, LastByte DEF ScanType
  <2>4. /\ AtStart => printed' = <<byte \in Makes, <<byte>>>>
        /\ Announced => printed' = <<byte \in Makes, <<"E0", byte>>>>
    BY <2>0, <2>3, PrintedCode DEF Interrupt, kbc_ih
  <2>5. CASE Len(key) = 1
    <3>1. AtStart /\ key = <<byte>>
      BY <2>0, <2>1, <2>2, <2>5, CodeShape DEF ScanType, ScanInv, InStep
    <3> QED
      BY <2>2, <2>4, <3>1
  <2>6. CASE Len(key) = 2
    <3>1. Announced /\ key = <<"E0", byte>>
      BY <2>0, <2>1, <2>2, <2>6, CodeShape DEF ScanType, ScanInv, InStep
    <3> QED
      BY <2>2, <2>4, <3>1
  <2> QED
    BY <2>0, <2>5, <2>6, CodeShape DEF ScanType
<1> QED
  BY <1>1, <1>2, ScanStep, PTL DEF ScanSpec, PrintsAsSent

-----------------------------------------------------------------------------
(* Scan codes by polling (kbd_test_poll).                                  *)
Ask20 == <<"command", "20">>
Ask60 == <<"command", "60">>

(* Until 0x60 is written the command byte is as it was, and nothing awaits *)
(* an argument.                                                            *)
CommandUntouched == command = <<CommandByte, FALSE>> /\ ~awaiting

(* The answer to 0x20, if no scan code came after ESC: not yet asked for,  *)
(* on its way or in the output buffer, and nothing else is.                *)
AnswerComing ==
    \/ ibf = Ask20 /\ ~answer /\ ~obf
    \/ ibf = Empty /\ answer /\ ~obf
    \/ ibf = Empty /\ ~answer /\ obf /\ ob = CommandByte

(***************************************************************************)
(* Where the exchange with the controller is, per place in the program.    *)
(* InterruptsBack speaks of its end alone.                                 *)
(***************************************************************************)
PollInv ==
    /\ at \in {"scan", "0x20", "read", "0x60", "argument", "done", "failed"}
    /\ at = "scan" => ibf = Empty /\ ~answer /\ CommandUntouched
    /\ at = "0x20" => ibf = Empty /\ ~answer /\ CommandUntouched /\ (~late => ~obf)
    /\ at = "read" => /\ ibf \in {Ask20, Empty} /\ CommandUntouched
                      /\ ~late => AnswerComing
    /\ at = "0x60" => /\ ibf \in {Ask20, Empty} /\ CommandUntouched
                      /\ ~late => polled = CommandByte
    /\ at = "argument" /\ ~overrun => /\ ibf = Ask60 \/ (ibf = Empty /\ awaiting)
                                      /\ ~late => polled = CommandByte
    /\ at = "done" /\ ~overrun =>
        /\ \/ ibf = <<"argument", polled, TRUE>> /\ awaiting
           \/ ibf = Empty /\ command = <<polled, TRUE>>
        /\ ~late => polled = CommandByte

LEMMA WriteFirst ==
    ASSUME NEW byte, Write(byte), ~overrun'
    PROVE  ~overrun /\ ibf = Empty /\ ibf' = byte
BY DEF Write

LEMMA ProgramStep ==
    ASSUME PollInv,
           \/ Scan \/ AskCommand \/ ReadCommand \/ WriteCommand \/ WriteArgument \/ WriteFails
    PROVE  PollInv'
<1>1. CASE Scan
  BY <1>1 DEF Scan, kbc_read, PollInv, CommandUntouched
<1>2. CASE AskCommand
  BY <1>2 DEF AskCommand, Write, PollInv, CommandUntouched, AnswerComing, Ask20, Empty
<1>3. CASE ReadCommand
  BY <1>3 DEF ReadCommand, kbc_read, PollInv, CommandUntouched, AnswerComing
<1>4. CASE WriteCommand
  <2>1. at = "0x60" /\ at' = "argument" /\ polled' = polled /\ (late' <=> late)
    BY <1>4 DEF WriteCommand
  <2>2. ibf' = Ask60
    BY <1>4 DEF WriteCommand, Write, Ask60
  <2> QED
    BY <2>1, <2>2 DEF PollInv
<1>5. CASE WriteArgument
  <2>1. /\ at = "argument" /\ at' = "done" /\ polled' = polled
        /\ (late' <=> late) /\ (awaiting' <=> awaiting)
    BY <1>5 DEF WriteArgument
  <2>2. ~overrun' => ~overrun /\ ibf = Empty /\ ibf' = <<"argument", polled, TRUE>>
    BY <1>5, WriteFirst DEF WriteArgument
  <2>3. Empty # Ask60
    BY DEF Empty, Ask60
  <2>4. ~overrun' => awaiting' /\ (~late' => polled' = CommandByte)
    BY <2>1, <2>2, <2>3 DEF PollInv
  <2> QED
    BY <2>1, <2>2, <2>4 DEF PollInv
<1>6. CASE WriteFails
  BY <1>6 DEF WriteFails, PollInv
<1> QED
  BY <1>1, <1>2, <1>3, <1>4, <1>5, <1>6

LEMMA TakeInputStep == PollInv /\ TakeInput => PollInv'
<1> SUFFICES ASSUME PollInv, TakeInput PROVE PollInv'
  OBVIOUS
<1>1. /\ ibf # Empty /\ ibf' = Empty /\ at' = at /\ polled' = polled
      /\ ob' = ob /\ (obf' <=> obf) /\ (late' <=> late) /\ (overrun' <=> overrun)
  BY DEF TakeInput
<1>2. /\ answer' <=> answer \/ ibf = Ask20
      /\ awaiting' <=> ibf = Ask60
  BY Zenon DEF TakeInput, Ask20, Ask60
<1>3. command' = IF awaiting /\ ibf[1] = "argument" THEN <<ibf[2], ibf[3]>> ELSE command
  BY DEF TakeInput
<1>4. ibf = Ask20 => ibf # Ask60 /\ ibf[1] # "argument"
  BY DEF Ask20, Ask60
<1>5. CASE at \in {"scan", "0x20"}
  BY <1>1, <1>5 DEF PollInv
<1>6. CASE at \in {"read", "0x60"}
  BY <1>1, <1>2, <1>3, <1>4, <1>6 DEF PollInv, CommandUntouched, AnswerComing
<1>7. CASE at = "argument"
  BY <1>1, <1>2, <1>7 DEF PollInv
<1>8. CASE at = "done"
  <2>1. overrun \/ (ibf = <<"argument", polled, TRUE>> /\ awaiting)
    BY <1>1, <1>8, Zenon DEF PollInv
  <2>2. ibf = <<"argument", polled, TRUE>> =>
            ibf[1] = "argument" /\ ibf[2] = polled /\ ibf[3] = TRUE
    OBVIOUS
  <2>3. overrun \/ command' = <<polled, TRUE>>
    BY <1>3, <2>1, <2>2, Zenon
  <2> QED
    BY <1>1, <1>8, <2>3 DEF PollInv
<1>9. CASE at = "failed"
  BY <1>1, <1>9 DEF PollInv
<1> QED
  BY <1>5, <1>6, <1>7, <1>8, <1>9 DEF PollInv

LEMMA FillStep ==
    ASSUME PollInv, FillWithAnswer \/ \E c \in Keys : FillWithKey(c)
    PROVE  PollInv'
<1>1. CASE FillWithAnswer
  BY <1>1 DEF FillWithAnswer, PollInv, CommandUntouched, AnswerComing, Ask20, Empty
<1>2. ASSUME NEW c \in Keys, FillWithKey(c) PROVE PollInv'
  <2>1. /\ at' = at /\ polled' = polled /\ ibf' = ibf /\ (awaiting' <=> awaiting)
        /\ (answer' <=> answer) /\ command' = command /\ (overrun' <=> overrun)
    BY <1>2 DEF FillWithKey
  <2>2. late' <=> late \/ at # "scan"
    BY <1>2, Zenon DEF FillWithKey
  <2> QED
    BY <2>1, <2>2 DEF PollInv, CommandUntouched
<1> QED
  BY <1>1, <1>2

(***************************************************************************)
(* However many keys are hit, and whenever the controller takes its bytes, *)
(* kbd_test_poll leaves the interrupts on if it returns 0 and none of its  *)
(* writes came too early (lab3.c:91-96).                                   *)
(***************************************************************************)
THEOREM InterruptsAreBack == PollSpec => []InterruptsBack
<1>1. PollInit => PollInv
  <2>1. PollInit => ~awaiting /\ ~answer
    BY Zenon DEF PollInit
  <2> QED
    BY <2>1 DEF PollInit, PollInv, CommandUntouched
<1>2. PollInv /\ [PollNext]_pollVars => PollInv'
  <2>1. CASE UNCHANGED pollVars
    BY <2>1 DEF pollVars, PollInv, CommandUntouched, AnswerComing
  <2> QED
    BY <2>1, ProgramStep, TakeInputStep, FillStep DEF PollNext
<1>3. PollInv => InterruptsBack
  <2> SUFFICES ASSUME PollInv, Settled
               PROVE  command[2] /\ (~late => command[1] = CommandByte)
    BY DEF InterruptsBack
  <2>1. ibf # <<"argument", polled, TRUE>>
    BY DEF Settled, Empty
  <2>2. command = <<polled, TRUE>> /\ (~late => polled = CommandByte)
    BY <2>1 DEF Settled, PollInv
  <2>3. command[1] = polled /\ command[2] = TRUE
    BY <2>2
  <2> QED
    BY <2>2, <2>3
<1> QED
  BY <1>1, <1>2, <1>3, PTL DEF PollSpec

-----------------------------------------------------------------------------
(* What is taken and let go.                                               *)
Steps == [do : {"get", "put", "call", "loop"}, on : SUBSET Resources, tested : BOOLEAN]

LEMMA StepTypes ==
    ASSUME NEW r \in Resources
    PROVE  Get(r) \in Steps /\ TryGet(r) \in Steps /\ Put(r) \in Steps /\ TryPut(r) \in Steps
BY DEF Get, TryGet, Put, TryPut, Steps

LEMMA CallTypes ==
    ASSUME NEW R \in SUBSET Resources
    PROVE  Call(R) \in Steps /\ Loop(R) \in Steps
BY DEF Call, Loop, Steps

LEMMA ProgramTypes == Programs \subseteq Seq(Steps)
<1>1. /\ "kbd" \in Resources /\ "timer" \in Resources /\ "mouse" \in Resources
      /\ "reporting" \in Resources /\ "remote" \in Resources /\ "graphics" \in Resources
  BY DEF Resources
<1>2. /\ {} \in SUBSET Resources /\ {"timer"} \in SUBSET Resources
      /\ {"kbd"} \in SUBSET Resources /\ {"mouse", "reporting"} \in SUBSET Resources
  BY <1>1
<1>3. proj_main_loop \in Seq(Steps)
  BY <1>1, <1>2, StepTypes, CallTypes DEF proj_main_loop
<1>4. timer_test_int \in Seq(Steps) /\ kbd_test_scan \in Seq(Steps)
  BY <1>1, <1>2, StepTypes, CallTypes DEF timer_test_int, kbd_test_scan
<1>5. kbd_test_timed_scan \in Seq(Steps) /\ mouse_test_packet \in Seq(Steps)
  BY <1>1, <1>2, StepTypes, CallTypes DEF kbd_test_timed_scan, mouse_test_packet
<1>6. mouse_test_async \in Seq(Steps) /\ mouse_test_remote \in Seq(Steps)
  BY <1>1, <1>2, StepTypes, CallTypes DEF mouse_test_async, mouse_test_remote
<1>7. video_test_init \in Seq(Steps) /\ video_test_rectangle \in Seq(Steps)
  BY <1>1, <1>2, StepTypes, CallTypes DEF video_test_init, video_test_rectangle
<1>8. video_test_pattern \in Seq(Steps) /\ video_test_move \in Seq(Steps)
  BY <1>1, <1>2, StepTypes, CallTypes DEF video_test_pattern, video_test_move
<1> QED
  BY <1>3, <1>4, <1>5, <1>6, <1>7, <1>8 DEF Programs, mouse_test_gesture, video_test_xpm

-----------------------------------------------------------------------------
LifeType == program \in Seq(Steps) /\ pc \in 1 .. Len(program) + 1

(* Call k has let r go, its result is tested, and r was not taken since.   *)
LetGoTested(r, k) ==
    /\ program[k].do = "put" /\ program[k].tested /\ r \in program[k].on
    /\ \A l \in k + 1 .. pc - 1 : program[l].do = "get" => r \notin program[l].on

(* Call k has taken r, its result is tested, and r was not let go since.   *)
GotTested(r, k) ==
    /\ program[k].do = "get" /\ program[k].tested /\ r \in program[k].on
    /\ \A l \in k + 1 .. pc - 1 : program[l].do = "put" => r \notin program[l].on

(***************************************************************************)
(* What a function holds while it has met no tested failure, read off the  *)
(* calls made so far: nothing let go with a test of the result, all that   *)
(* was taken with one, and nothing that was not taken.                     *)
(***************************************************************************)
HeldInv ==
    /\ LifeType /\ program \in Programs
    /\ outcome = "zero" => pc = Len(program) + 1
    /\ outcome \in {"running", "zero"} =>
        /\ \A k \in 1 .. pc - 1, r \in held : ~LetGoTested(r, k)
        /\ \A k \in 1 .. pc - 1 : \A r \in program[k].on : GotTested(r, k) => r \in held
        /\ \A r \in held : \E k \in 1 .. pc - 1 : program[k].do = "get" /\ r \in program[k].on

(* What a call after which the function goes on does to what is held.      *)
LEMMA CallEffect ==
    ASSUME LifeType, Taken \/ LetGo \/ Called \/ LoopEnds \/ Failed
    PROVE  /\ pc \in 1 .. Len(program) /\ pc' = pc + 1
           /\ program' = program /\ outcome' = outcome /\ outcome = "running"
           /\ \A r \in held' : r \in held \/ (program[pc].do = "get" /\ r \in program[pc].on)
           /\ \A r \in held : r \in held' \/ (program[pc].do = "put" /\ r \in program[pc].on)
           /\ program[pc].do = "put" /\ program[pc].tested =>
                \A r \in program[pc].on : r \notin held'
           /\ program[pc].do = "get" /\ program[pc].tested =>
                \A r \in program[pc].on : r \in held'
<1> USE DEF Running, Step, GoOn, LifeType
<1>1. CASE Taken
  BY <1>1 DEF Taken
<1>2. CASE LetGo
  BY <1>2 DEF LetGo
<1>3. CASE Called
  BY <1>3 DEF Called
<1>4. CASE LoopEnds
  BY <1>4 DEF LoopEnds
<1>5. CASE Failed
  BY <1>5 DEF Failed, HeldAfterFailure
<1> QED
  BY <1>1, <1>2, <1>3, <1>4, <1>5

LEMMA GoOnStep ==
    ASSUME HeldInv, Taken \/ LetGo \/ Called \/ LoopEnds \/ Failed
    PROVE  HeldInv'
<1>0. LifeType
  BY DEF HeldInv
<1> DEFINE s == program[pc]
<1>1. /\ pc \in 1 .. Len(program) /\ pc' = pc + 1
      /\ program' = program /\ outcome' = outcome /\ outcome = "running"
      /\ \A r \in held' : r \in held \/ (s.do = "get" /\ r \in s.on)
      /\ \A r \in held : r \in held' \/ (s.do = "put" /\ r \in s.on)
      /\ s.do = "put" /\ s.tested => \A r \in s.on : r \notin held'
      /\ s.do = "get" /\ s.tested => \A r \in s.on : r \in held'
  BY <1>0, CallEffect
<1>2. LifeType'
  BY <1>0, <1>1 DEF LifeType
<1>3. pc \in Nat /\ pc' - 1 = pc
  BY <1>0, <1>1 DEF LifeType
<1>4. ASSUME NEW k \in 1 .. pc' - 1, NEW r \in held', LetGoTested(r, k)' PROVE FALSE
  <2>1. /\ program[k].do = "put" /\ program[k].tested /\ r \in program[k].on
        /\ \A l \in k + 1 .. pc : program[l].do = "get" => r \notin program[l].on
    BY <1>1, <1>3, <1>4 DEF LetGoTested
  <2>2. CASE k = pc
    BY <1>1, <2>1, <2>2
  <2>3. CASE k # pc
    <3>1. k \in 1 .. pc - 1 /\ pc \in k + 1 .. pc
      BY <1>3, <2>3
    <3>2. LetGoTested(r, k)
      BY <1>3, <2>1 DEF LetGoTested
    <3>3. r \in held
      BY <1>1, <2>1, <3>1
    <3> QED
      BY <1>1, <3>1, <3>2, <3>3 DEF HeldInv
  <2> QED
    BY <2>2, <2>3
<1>5. ASSUME NEW k \in 1 .. pc' - 1, NEW r \in program'[k].on, GotTested(r, k)'
      PROVE  r \in held'
  <2>1. /\ program[k].do = "get" /\ program[k].tested /\ r \in program[k].on
        /\ \A l \in k + 1 .. pc : program[l].do = "put" => r \notin program[l].on
    BY <1>1, <1>3, <1>5 DEF GotTested
  <2>2. CASE k = pc
    BY <1>1, <2>1, <2>2
  <2>3. CASE k # pc
    <3>1. k \in 1 .. pc - 1 /\ pc \in k + 1 .. pc
      BY <1>3, <2>3
    <3>2. GotTested(r, k)
      BY <1>3, <2>1 DEF GotTested
    <3>3. r \in held
      BY <1>1, <2>1, <3>1, <3>2 DEF HeldInv
    <3> QED
      BY <1>1, <2>1, <3>1, <3>3
  <2> QED
    BY <2>2, <2>3
<1>6. ASSUME NEW r \in held'
      PROVE  \E k \in 1 .. pc' - 1 : program[k].do = "get" /\ r \in program[k].on
  <2>1. CASE r \in held
    <3>1. PICK k \in 1 .. pc - 1 : program[k].do = "get" /\ r \in program[k].on
      BY <1>1, <2>1 DEF HeldInv
    <3>2. k \in 1 .. pc' - 1
      BY <1>3
    <3> QED
      BY <3>1, <3>2
  <2>2. CASE r \notin held
    <3>1. s.do = "get" /\ r \in s.on
      BY <1>1, <2>2
    <3>2. pc \in 1 .. pc' - 1
      BY <1>1, <1>3
    <3> QED
      BY <3>1, <3>2
  <2> QED
    BY <2>1, <2>2
<1>7. (program \in Programs)'
  <2>1. Programs' = Programs
    BY DEF Programs
  <2> QED
    BY <1>1, <2>1 DEF HeldInv
<1> HIDE DEF s
<1> QED
  BY <1>1, <1>2, <1>4, <1>5, <1>6, <1>7 DEF HeldInv

LEMMA HeldStep == HeldInv /\ [LifeNext]_lifeVars => HeldInv'
<1> SUFFICES ASSUME HeldInv, [LifeNext]_lifeVars PROVE HeldInv'
  OBVIOUS
<1>1. CASE FailedReturn \/ CallFailed \/ Panic
  <2>1. outcome' \in {"nonzero", "panic"} /\ program' = program /\ pc' = pc
    BY <1>1 DEF FailedReturn, CallFailed, Panic, Give
  <2> QED
    BY <2>1 DEF HeldInv, LifeType
<1>2. CASE Return
  <2>1. /\ outcome = "running" /\ outcome' = "zero" /\ pc = Len(program) + 1
        /\ program' = program /\ pc' = pc /\ held' = held
    BY <1>2 DEF Return, Give
  <2> QED
    BY <2>1 DEF HeldInv, LifeType, LetGoTested, GotTested
<1>3. CASE UNCHANGED lifeVars
  BY <1>3 DEF lifeVars, HeldInv, LifeType, LetGoTested, GotTested
<1> QED
  BY <1>1, <1>2, <1>3, GoOnStep DEF LifeNext

LEMMA HeldInit == LifeInit => HeldInv
BY ProgramTypes DEF LifeInit, HeldInv, LifeType

-----------------------------------------------------------------------------
(* Everything that p takes it lets go further on, with or without a test,  *)
(* and does not take again.                                                *)
Returned(p, r, k) ==
    \E l \in k + 1 .. Len(p) :
        p[l] \in {Put(r), TryPut(r)} /\ \A m \in l + 1 .. Len(p) : p[m].do # "get"

LetsAllGo(p) ==
    \A k \in 1 .. Len(p) : p[k].do = "get" => \A r \in p[k].on : Returned(p, r, k)

(* It is enough that nothing is taken from call K on.                      *)
LEMMA TakenBefore ==
    ASSUME NEW p, Len(p) \in Nat, NEW K \in Nat, NEW R,
           \A k \in 1 .. Len(p) : p[k].do = "get" => k < K /\ p[k].on \subseteq R,
           \A r \in R : \E l \in K .. Len(p) : p[l] \in {Put(r), TryPut(r)}
    PROVE  LetsAllGo(p)
<1> SUFFICES ASSUME NEW k \in 1 .. Len(p), p[k].do = "get", NEW r \in p[k].on
             PROVE  Returned(p, r, k)
  BY DEF LetsAllGo
<1>0. Len(p) \in Nat /\ k < K /\ r \in R
  OBVIOUS
<1>1. PICK l \in K .. Len(p) : p[l] \in {Put(r), TryPut(r)}
  BY <1>0
<1>2. l \in k + 1 .. Len(p)
  BY <1>0
<1>3. ASSUME NEW m \in l + 1 .. Len(p) PROVE p[m].do # "get"
  <2>1. m \in 1 .. Len(p) /\ ~(m < K)
    BY <1>0
  <2> QED
    BY <2>1
<1> QED
  BY <1>1, <1>2, <1>3 DEF Returned

(* What the functions take, up to which call, and where they let it go.    *)
LEMMA AllLetGo == \A p \in Programs : LetsAllGo(p)
<1>1. LetsAllGo(proj_main_loop)
  <2> DEFINE R == {"kbd", "timer", "mouse", "reporting", "graphics"}
  <2>1. \A k \in 1 .. Len(proj_main_loop) :
            proj_main_loop[k].do = "get" =>
                k < 7 /\ proj_main_loop[k].on \subseteq R
    BY DEF proj_main_loop, Get, Put, Loop
  <2>2. /\ Len(proj_main_loop) = 11
        /\ proj_main_loop[9] = Put("kbd")
        /\ proj_main_loop[8] = Put("timer")
        /\ proj_main_loop[10] = Put("mouse")
        /\ proj_main_loop[7] = Put("reporting")
        /\ proj_main_loop[11] = Put("graphics")
    BY DEF proj_main_loop
  <2>3. \A r \in R :
            \E l \in 7 .. Len(proj_main_loop) : proj_main_loop[l] \in {Put(r), TryPut(r)}
    BY <2>2
  <2>4. Len(proj_main_loop) \in Nat
    BY <2>2
  <2> HIDE DEF R
  <2> QED
    BY <2>1, <2>3, <2>4, TakenBefore
<1>2. LetsAllGo(timer_test_int)
  <2> DEFINE R == {"timer"}
  <2>1. \A k \in 1 .. Len(timer_test_int) :
            timer_test_int[k].do = "get" =>
                k < 4 /\ timer_test_int[k].on \subseteq R
    BY DEF timer_test_int, Get, Put, Call, Loop
  <2>2. /\ Len(timer_test_int) = 4
        /\ timer_test_int[4] = Put("timer")
    BY DEF timer_test_int
  <2>3. \A r \in R :
            \E l \in 4 .. Len(timer_test_int) : timer_test_int[l] \in {Put(r), TryPut(r)}
    BY <2>2
  <2>4. Len(timer_test_int) \in Nat
    BY <2>2
  <2> HIDE DEF R
  <2> QED
    BY <2>1, <2>3, <2>4, TakenBefore
<1>3. LetsAllGo(kbd_test_scan)
  <2> DEFINE R == {"kbd"}
  <2>1. \A k \in 1 .. Len(kbd_test_scan) :
            kbd_test_scan[k].do = "get" =>
                k < 3 /\ kbd_test_scan[k].on \subseteq R
    BY DEF kbd_test_scan, Get, Put, Loop
  <2>2. /\ Len(kbd_test_scan) = 3
        /\ kbd_test_scan[3] = Put("kbd")
    BY DEF kbd_test_scan
  <2>3. \A r \in R :
            \E l \in 3 .. Len(kbd_test_scan) : kbd_test_scan[l] \in {Put(r), TryPut(r)}
    BY <2>2
  <2>4. Len(kbd_test_scan) \in Nat
    BY <2>2
  <2> HIDE DEF R
  <2> QED
    BY <2>1, <2>3, <2>4, TakenBefore
<1>4. LetsAllGo(kbd_test_timed_scan)
  <2> DEFINE R == {"kbd", "timer"}
  <2>1. \A k \in 1 .. Len(kbd_test_timed_scan) :
            kbd_test_timed_scan[k].do = "get" =>
                k < 4 /\ kbd_test_timed_scan[k].on \subseteq R
    BY DEF kbd_test_timed_scan, Get, TryPut, Loop
  <2>2. /\ Len(kbd_test_timed_scan) = 5
        /\ kbd_test_timed_scan[4] = TryPut("kbd")
        /\ kbd_test_timed_scan[5] = TryPut("timer")
    BY DEF kbd_test_timed_scan
  <2>3. \A r \in R :
            \E l \in 4 .. Len(kbd_test_timed_scan) : kbd_test_timed_scan[l] \in {Put(r), TryPut(r)}
    BY <2>2
  <2>4. Len(kbd_test_timed_scan) \in Nat
    BY <2>2
  <2> HIDE DEF R
  <2> QED
    BY <2>1, <2>3, <2>4, TakenBefore
<1>5. LetsAllGo(mouse_test_packet)
  <2> DEFINE R == {"mouse", "reporting"}
  <2>1. \A k \in 1 .. Len(mouse_test_packet) :
            mouse_test_packet[k].do = "get" =>
                k < 4 /\ mouse_test_packet[k].on \subseteq R
    BY DEF mouse_test_packet, Get, TryGet, Put, TryPut, Loop
  <2>2. /\ Len(mouse_test_packet) = 5
        /\ mouse_test_packet[4] = TryPut("mouse")
        /\ mouse_test_packet[5] = Put("reporting")
    BY DEF mouse_test_packet
  <2>3. \A r \in R :
            \E l \in 4 .. Len(mouse_test_packet) : mouse_test_packet[l] \in {Put(r), TryPut(r)}
    BY <2>2
  <2>4. Len(mouse_test_packet) \in Nat
    BY <2>2
  <2> HIDE DEF R
  <2> QED
    BY <2>1, <2>3, <2>4, TakenBefore
<1>6. LetsAllGo(mouse_test_async)
  <2> DEFINE R == {"mouse", "reporting", "timer"}
  <2>1. \A k \in 1 .. Len(mouse_test_async) :
            mouse_test_async[k].do = "get" =>
                k < 5 /\ mouse_test_async[k].on \subseteq R
    BY DEF mouse_test_async, Get, TryGet, TryPut, Loop
  <2>2. /\ Len(mouse_test_async) = 7
        /\ mouse_test_async[5] = TryPut("mouse")
        /\ mouse_test_async[6] = TryPut("reporting")
        /\ mouse_test_async[7] = TryPut("timer")
    BY DEF mouse_test_async
  <2>3. \A r \in R :
            \E l \in 5 .. Len(mouse_test_async) : mouse_test_async[l] \in {Put(r), TryPut(r)}
    BY <2>2
  <2>4. Len(mouse_test_async) \in Nat
    BY <2>2
  <2> HIDE DEF R
  <2> QED
    BY <2>1, <2>3, <2>4, TakenBefore
<1>7. LetsAllGo(mouse_test_remote)
  <2> DEFINE R == {"remote"}
  <2>1. \A k \in 1 .. Len(mouse_test_remote) :
            mouse_test_remote[k].do = "get" =>
                k < 3 /\ mouse_test_remote[k].on \subseteq R
    BY DEF mouse_test_remote, TryGet, Put, Call, Loop
  <2>2. /\ Len(mouse_test_remote) = 5
        /\ mouse_test_remote[3] = Put("remote")
    BY DEF mouse_test_remote
  <2>3. \A r \in R :
            \E l \in 3 .. Len(mouse_test_remote) : mouse_test_remote[l] \in {Put(r), TryPut(r)}
    BY <2>2
  <2>4. Len(mouse_test_remote) \in Nat
    BY <2>2
  <2> HIDE DEF R
  <2> QED
    BY <2>1, <2>3, <2>4, TakenBefore
<1>8. LetsAllGo(video_test_init)
  <2> DEFINE R == {"graphics"}
  <2>1. \A k \in 1 .. Len(video_test_init) :
            video_test_init[k].do = "get" =>
                k < 2 /\ video_test_init[k].on \subseteq R
    BY DEF video_test_init, Get, TryPut
  <2>2. /\ Len(video_test_init) = 2
        /\ video_test_init[2] = TryPut("graphics")
    BY DEF video_test_init
  <2>3. \A r \in R :
            \E l \in 2 .. Len(video_test_init) : video_test_init[l] \in {Put(r), TryPut(r)}
    BY <2>2
  <2>4. Len(video_test_init) \in Nat
    BY <2>2
  <2> HIDE DEF R
  <2> QED
    BY <2>1, <2>3, <2>4, TakenBefore
<1>9. LetsAllGo(video_test_rectangle)
  <2> DEFINE R == {"kbd", "graphics"}
  <2>1. \A k \in 1 .. Len(video_test_rectangle) :
            video_test_rectangle[k].do = "get" =>
                k < 5 /\ video_test_rectangle[k].on \subseteq R
    BY DEF video_test_rectangle, Get, TryPut, Call, Loop
  <2>2. /\ Len(video_test_rectangle) = 6
        /\ video_test_rectangle[5] = TryPut("kbd")
        /\ video_test_rectangle[6] = TryPut("graphics")
    BY DEF video_test_rectangle
  <2>3. \A r \in R :
            \E l \in 5 .. Len(video_test_rectangle) : video_test_rectangle[l] \in {Put(r), TryPut(r)}
    BY <2>2
  <2>4. Len(video_test_rectangle) \in Nat
    BY <2>2
  <2> HIDE DEF R
  <2> QED
    BY <2>1, <2>3, <2>4, TakenBefore
<1>10. LetsAllGo(video_test_pattern)
  <2> DEFINE R == {"kbd", "graphics"}
  <2>1. \A k \in 1 .. Len(video_test_pattern) :
            video_test_pattern[k].do = "get" =>
                k < 4 /\ video_test_pattern[k].on \subseteq R
    BY DEF video_test_pattern, Get, TryGet, TryPut, Loop
  <2>2. /\ Len(video_test_pattern) = 5
        /\ video_test_pattern[4] = TryPut("kbd")
        /\ video_test_pattern[5] = TryPut("graphics")
    BY DEF video_test_pattern
  <2>3. \A r \in R :
            \E l \in 4 .. Len(video_test_pattern) : video_test_pattern[l] \in {Put(r), TryPut(r)}
    BY <2>2
  <2>4. Len(video_test_pattern) \in Nat
    BY <2>2
  <2> HIDE DEF R
  <2> QED
    BY <2>1, <2>3, <2>4, TakenBefore
<1>11. LetsAllGo(video_test_move)
  <2> DEFINE R == {"timer", "kbd", "graphics"}
  <2>1. \A k \in 1 .. Len(video_test_move) :
            video_test_move[k].do = "get" =>
                k < 5 /\ video_test_move[k].on \subseteq R
    BY DEF video_test_move, Get, TryGet, TryPut, Loop
  <2>2. /\ Len(video_test_move) = 7
        /\ video_test_move[5] = TryPut("timer")
        /\ video_test_move[6] = TryPut("kbd")
        /\ video_test_move[7] = TryPut("graphics")
    BY DEF video_test_move
  <2>3. \A r \in R :
            \E l \in 5 .. Len(video_test_move) : video_test_move[l] \in {Put(r), TryPut(r)}
    BY <2>2
  <2>4. Len(video_test_move) \in Nat
    BY <2>2
  <2> HIDE DEF R
  <2> QED
    BY <2>1, <2>3, <2>4, TakenBefore
<1> QED
  BY <1>1, <1>2, <1>3, <1>4, <1>5, <1>6, <1>7, <1>8, <1>9, <1>10, <1>11
  DEF Programs, mouse_test_gesture, video_test_xpm

(***************************************************************************)
(* Whichever calls fail, a function that returns 0 has asked to let go all *)
(* that it took, and holds only what a call with an ignored result failed  *)
(* to let go: the game, timer_test_int and kbd_test_scan hold nothing      *)
(* (proj.c:388-408, lab2.c:102, lab3.c:79).                                *)
(***************************************************************************)
THEOREM LetGoOnZero == LifeSpec => []ZeroMeansLetGo
<1>1. HeldInv => ZeroMeansLetGo
  <2> SUFFICES ASSUME HeldInv, outcome = "zero", NEW r \in held
               PROVE  \E k \in 1 .. Len(program) : program[k] = TryPut(r)
    BY DEF ZeroMeansLetGo
  <2>1. pc = Len(program) + 1 /\ Len(program) \in Nat /\ program \in Programs
    BY DEF HeldInv, LifeType
  <2>2. PICK k \in 1 .. pc - 1 : program[k].do = "get" /\ r \in program[k].on
    BY DEF HeldInv
  <2>3. Returned(program, r, k)
    BY <2>1, <2>2, AllLetGo DEF LetsAllGo
  <2>4. PICK l \in k + 1 .. Len(program) :
            /\ program[l] \in {Put(r), TryPut(r)}
            /\ \A m \in l + 1 .. Len(program) : program[m].do # "get"
    BY <2>3 DEF Returned
  <2>5. l \in 1 .. Len(program) /\ l \in 1 .. pc - 1 /\ pc - 1 = Len(program)
    BY <2>1, <2>2
  <2>6. program[l] # Put(r)
    <3> SUFFICES ASSUME program[l] = Put(r) PROVE LetGoTested(r, l)
      BY <2>5 DEF HeldInv
    <3> QED
      BY <2>4, <2>5 DEF LetGoTested, Put
  <2> QED
    BY <2>4, <2>5, <2>6
<1> QED
  BY <1>1, HeldInit, HeldStep, PTL DEF LifeSpec

-----------------------------------------------------------------------------
(* Everything that a loop of p waits for is taken before the loop, and     *)
(* nothing is let go in between.                                           *)
LoopsPrepared(p) ==
    \A k \in 1 .. Len(p) : p[k].do = "loop" =>
        \A r \in p[k].on : \E l \in 1 .. k - 1 :
            /\ p[l] \in {Get(r), TryGet(r)}
            /\ \A m \in l + 1 .. k - 1 : p[m].do # "put"

(* It is enough to look at the only loop of a function.                    *)
LEMMA OneLoop ==
    ASSUME NEW p, NEW K \in Nat,
           \A k \in 1 .. Len(p) : p[k].do = "loop" => k = K,
           \A m \in 1 .. K - 1 : p[m].do # "put",
           \A r \in p[K].on : \E l \in 1 .. K - 1 : p[l] \in {Get(r), TryGet(r)}
    PROVE  LoopsPrepared(p)
<1> SUFFICES ASSUME NEW r \in p[K].on
             PROVE  \E l \in 1 .. K - 1 : /\ p[l] \in {Get(r), TryGet(r)}
                                          /\ \A m \in l + 1 .. K - 1 : p[m].do # "put"
  BY DEF LoopsPrepared
<1>1. PICK l \in 1 .. K - 1 : p[l] \in {Get(r), TryGet(r)}
  OBVIOUS
<1>2. \A m \in l + 1 .. K - 1 : m \in 1 .. K - 1
  OBVIOUS
<1> QED
  BY <1>1, <1>2

LEMMA AllLoopsPrepared == \A p \in Programs : LoopsPrepared(p)
<1>1. LoopsPrepared(proj_main_loop)
  <2>1. /\ \A k \in 1 .. Len(proj_main_loop) : proj_main_loop[k].do = "loop" => k = 6
        /\ \A m \in 1 .. 6 - 1 : proj_main_loop[m].do # "put"
    BY DEF proj_main_loop, Get, Put, Loop
  <2>2. /\ proj_main_loop[6].on = {"timer"}
        /\ proj_main_loop[2] = Get("timer")
    BY DEF proj_main_loop, Get, Put, Loop
  <2>3. \A r \in proj_main_loop[6].on : \E l \in 1 .. 6 - 1 : proj_main_loop[l] \in {Get(r), TryGet(r)}
    BY <2>2
  <2> QED
    BY <2>1, <2>3, OneLoop
<1>2. LoopsPrepared(timer_test_int)
  <2>1. /\ \A k \in 1 .. Len(timer_test_int) : timer_test_int[k].do = "loop" => k = 3
        /\ \A m \in 1 .. 3 - 1 : timer_test_int[m].do # "put"
    BY DEF timer_test_int, Get, Put, Call, Loop
  <2>2. /\ timer_test_int[3].on = {"timer"}
        /\ timer_test_int[1] = Get("timer")
    BY DEF timer_test_int, Get, Put, Call, Loop
  <2>3. \A r \in timer_test_int[3].on : \E l \in 1 .. 3 - 1 : timer_test_int[l] \in {Get(r), TryGet(r)}
    BY <2>2
  <2> QED
    BY <2>1, <2>3, OneLoop
<1>3. LoopsPrepared(kbd_test_scan)
  <2>1. /\ \A k \in 1 .. Len(kbd_test_scan) : kbd_test_scan[k].do = "loop" => k = 2
        /\ \A m \in 1 .. 2 - 1 : kbd_test_scan[m].do # "put"
    BY DEF kbd_test_scan, Get, Put, Loop
  <2>2. /\ kbd_test_scan[2].on = {"kbd"}
        /\ kbd_test_scan[1] = Get("kbd")
    BY DEF kbd_test_scan, Get, Put, Loop
  <2>3. \A r \in kbd_test_scan[2].on : \E l \in 1 .. 2 - 1 : kbd_test_scan[l] \in {Get(r), TryGet(r)}
    BY <2>2
  <2> QED
    BY <2>1, <2>3, OneLoop
<1>4. LoopsPrepared(kbd_test_timed_scan)
  <2>1. /\ \A k \in 1 .. Len(kbd_test_timed_scan) : kbd_test_timed_scan[k].do = "loop" => k = 3
        /\ \A m \in 1 .. 3 - 1 : kbd_test_timed_scan[m].do # "put"
    BY DEF kbd_test_timed_scan, Get, TryPut, Loop
  <2>2. /\ kbd_test_timed_scan[3].on = {"timer"}
        /\ kbd_test_timed_scan[2] = Get("timer")
    BY DEF kbd_test_timed_scan, Get, TryPut, Loop
  <2>3. \A r \in kbd_test_timed_scan[3].on : \E l \in 1 .. 3 - 1 : kbd_test_timed_scan[l] \in {Get(r), TryGet(r)}
    BY <2>2
  <2> QED
    BY <2>1, <2>3, OneLoop
<1>5. LoopsPrepared(mouse_test_packet)
  <2>1. /\ \A k \in 1 .. Len(mouse_test_packet) : mouse_test_packet[k].do = "loop" => k = 3
        /\ \A m \in 1 .. 3 - 1 : mouse_test_packet[m].do # "put"
    BY DEF mouse_test_packet, Get, TryGet, Put, TryPut, Loop
  <2>2. /\ mouse_test_packet[3].on = {"mouse", "reporting"}
        /\ mouse_test_packet[1] = Get("reporting")
        /\ mouse_test_packet[2] = TryGet("mouse")
    BY DEF mouse_test_packet, Get, TryGet, Put, TryPut, Loop
  <2>3. \A r \in mouse_test_packet[3].on : \E l \in 1 .. 3 - 1 : mouse_test_packet[l] \in {Get(r), TryGet(r)}
    BY <2>2
  <2> QED
    BY <2>1, <2>3, OneLoop
<1>6. LoopsPrepared(mouse_test_async)
  <2>1. /\ \A k \in 1 .. Len(mouse_test_async) : mouse_test_async[k].do = "loop" => k = 4
        /\ \A m \in 1 .. 4 - 1 : mouse_test_async[m].do # "put"
    BY DEF mouse_test_async, Get, TryGet, TryPut, Loop
  <2>2. /\ mouse_test_async[4].on = {"timer"}
        /\ mouse_test_async[3] = TryGet("timer")
    BY DEF mouse_test_async, Get, TryGet, TryPut, Loop
  <2>3. \A r \in mouse_test_async[4].on : \E l \in 1 .. 4 - 1 : mouse_test_async[l] \in {Get(r), TryGet(r)}
    BY <2>2
  <2> QED
    BY <2>1, <2>3, OneLoop
<1>7. LoopsPrepared(mouse_test_remote)
  <2>1. /\ \A k \in 1 .. Len(mouse_test_remote) : mouse_test_remote[k].do = "loop" => k = 2
        /\ \A m \in 1 .. 2 - 1 : mouse_test_remote[m].do # "put"
    BY DEF mouse_test_remote, TryGet, Put, Call, Loop
  <2>2. /\ mouse_test_remote[2].on = {}
    BY DEF mouse_test_remote, TryGet, Put, Call, Loop
  <2>3. \A r \in mouse_test_remote[2].on : \E l \in 1 .. 2 - 1 : mouse_test_remote[l] \in {Get(r), TryGet(r)}
    BY <2>2
  <2> QED
    BY <2>1, <2>3, OneLoop
<1>8. LoopsPrepared(video_test_rectangle)
  <2>1. /\ \A k \in 1 .. Len(video_test_rectangle) : video_test_rectangle[k].do = "loop" => k = 4
        /\ \A m \in 1 .. 4 - 1 : video_test_rectangle[m].do # "put"
    BY DEF video_test_rectangle, Get, TryPut, Call, Loop
  <2>2. /\ video_test_rectangle[4].on = {"kbd"}
        /\ video_test_rectangle[1] = Get("kbd")
    BY DEF video_test_rectangle, Get, TryPut, Call, Loop
  <2>3. \A r \in video_test_rectangle[4].on : \E l \in 1 .. 4 - 1 : video_test_rectangle[l] \in {Get(r), TryGet(r)}
    BY <2>2
  <2> QED
    BY <2>1, <2>3, OneLoop
<1>9. LoopsPrepared(video_test_pattern)
  <2>1. /\ \A k \in 1 .. Len(video_test_pattern) : video_test_pattern[k].do = "loop" => k = 3
        /\ \A m \in 1 .. 3 - 1 : video_test_pattern[m].do # "put"
    BY DEF video_test_pattern, Get, TryGet, TryPut, Loop
  <2>2. /\ video_test_pattern[3].on = {"kbd"}
        /\ video_test_pattern[2] = Get("kbd")
    BY DEF video_test_pattern, Get, TryGet, TryPut, Loop
  <2>3. \A r \in video_test_pattern[3].on : \E l \in 1 .. 3 - 1 : video_test_pattern[l] \in {Get(r), TryGet(r)}
    BY <2>2
  <2> QED
    BY <2>1, <2>3, OneLoop
<1>10. LoopsPrepared(video_test_move)
  <2>1. /\ \A k \in 1 .. Len(video_test_move) : video_test_move[k].do = "loop" => k = 4
        /\ \A m \in 1 .. 4 - 1 : video_test_move[m].do # "put"
    BY DEF video_test_move, Get, TryGet, TryPut, Loop
  <2>2. /\ video_test_move[4].on = {"kbd"}
        /\ video_test_move[3] = Get("kbd")
    BY DEF video_test_move, Get, TryGet, TryPut, Loop
  <2>3. \A r \in video_test_move[4].on : \E l \in 1 .. 4 - 1 : video_test_move[l] \in {Get(r), TryGet(r)}
    BY <2>2
  <2> QED
    BY <2>1, <2>3, OneLoop
<1>11. LoopsPrepared(video_test_init)
  <2>1. \A k \in 1 .. Len(video_test_init) : video_test_init[k].do # "loop"
    BY DEF video_test_init, Get, TryPut
  <2> QED
    BY <2>1 DEF LoopsPrepared
<1> QED
  BY <1>1, <1>2, <1>3, <1>4, <1>5, <1>6, <1>7, <1>8, <1>9, <1>10, <1>11
  DEF Programs, mouse_test_gesture, video_test_xpm

(* Where the game has the mouse, and where it has told it to report.       *)
GameHolds ==
    program = proj_main_loop =>
        /\ pc \in 1 .. 3 \/ pc > 7 => "reporting" \notin held
        /\ pc \in 4 .. 10 => "mouse" \in held

ListenInv == HeldInv /\ GameHolds

LEMMA GameCalls ==
    /\ Len(proj_main_loop) = 11
    /\ \A k \in 1 .. 11 : "reporting" \in proj_main_loop[k].on <=> k \in {4, 7}
    /\ \A k \in 1 .. 11 : "mouse" \in proj_main_loop[k].on <=> k \in {3, 10}
    /\ proj_main_loop[3] = Get("mouse") /\ proj_main_loop[7] = Put("reporting")
    /\ proj_main_loop[4] = Get("reporting") /\ proj_main_loop[10] = Put("mouse")
BY DEF proj_main_loop, Get, Put, Loop

LEMMA FailureEffect ==
    ASSUME LifeType, FailedReturn \/ CallFailed \/ Panic
    PROVE  /\ pc \in 1 .. Len(program) /\ pc' = pc /\ program' = program
           /\ \A r \in held' : r \in held \/ (program[pc].do = "get" /\ r \in program[pc].on)
           /\ \A r \in held : \/ r \in held'
                              \/ /\ r \in program[pc].on
                                 /\ program[pc].do = "call" \/ program[pc].on \subseteq {"reporting", "remote"}
<1> USE DEF Running, Step, Give, LifeType
<1>1. CASE FailedReturn
  BY <1>1 DEF FailedReturn, HeldAfterFailure
<1>2. CASE CallFailed
  BY <1>2 DEF CallFailed
<1>3. CASE Panic
  BY <1>3 DEF Panic
<1> QED
  BY <1>1, <1>2, <1>3

LEMMA GameHoldsStep == HeldInv /\ GameHolds /\ [LifeNext]_lifeVars => GameHolds'
<1> SUFFICES ASSUME HeldInv, GameHolds, [LifeNext]_lifeVars, program' = proj_main_loop
             PROVE  GameHolds'
  BY DEF GameHolds
<1>0. LifeType
  BY DEF HeldInv
<1>g. /\ Get("mouse").do = "get" /\ Get("mouse").tested
      /\ Put("mouse").do = "put" /\ Put("mouse").tested /\ Put("mouse").on = {"mouse"}
      /\ Put("reporting").do = "put" /\ Put("reporting").tested
  BY DEF Get, Put
<1>1. CASE Taken \/ LetGo \/ Called \/ LoopEnds \/ Failed
  <2>1. /\ pc \in 1 .. 11 /\ pc' = pc + 1 /\ program = proj_main_loop
    BY <1>0, <1>1, CallEffect, GameCalls
  <2>2. /\ "reporting" \in held' /\ "reporting" \notin held => pc = 4
        /\ "mouse" \in held /\ "mouse" \notin held' => pc \in {3, 10}
    BY <1>0, <1>1, <1>g, <2>1, CallEffect, GameCalls
  <2>3. /\ pc = 3 => "mouse" \in held'
        /\ pc = 7 => "reporting" \notin held'
    BY <1>0, <1>1, <1>g, <2>1, CallEffect, GameCalls
  <2> QED
    BY <2>1, <2>2, <2>3 DEF GameHolds
<1>2. CASE FailedReturn \/ CallFailed \/ Panic
  <2>1. pc \in 1 .. 11 /\ pc' = pc /\ program = proj_main_loop
    BY <1>0, <1>2, FailureEffect, GameCalls
  <2>2. "reporting" \in held' /\ "reporting" \notin held => pc = 4
    BY <1>0, <1>2, <1>g, <2>1, FailureEffect, GameCalls
  <2>3. "mouse" \in held => "mouse" \in held' \/ pc = 3
    BY <1>0, <1>2, <1>g, <2>1, FailureEffect, GameCalls
  <2> QED
    BY <2>1, <2>2, <2>3 DEF GameHolds
<1>3. CASE Return \/ UNCHANGED lifeVars
  BY <1>3 DEF Return, Give, lifeVars, GameHolds
<1> QED
  BY <1>1, <1>2, <1>3 DEF LifeNext

LEMMA LoopHeard == ListenInv => LoopIsHeard
<1> SUFFICES ASSUME ListenInv, Running("loop"), NEW r \in Step.on \ held
             PROVE  \E k \in 1 .. pc - 1 : program[k] = TryGet(r)
  BY DEF LoopIsHeard
<1>1. /\ pc \in 1 .. Len(program) /\ program[pc].do = "loop" /\ r \in program[pc].on
      /\ outcome = "running" /\ r \notin held
  BY DEF Running, Step, ListenInv, HeldInv, LifeType
<1>2. PICK l \in 1 .. pc - 1 :
        /\ program[l] \in {Get(r), TryGet(r)}
        /\ \A m \in l + 1 .. pc - 1 : program[m].do # "put"
  BY <1>1, AllLoopsPrepared DEF LoopsPrepared, ListenInv, HeldInv
<1>3. CASE program[l] = Get(r)
  <2>1. r \in program[l].on /\ GotTested(r, l)
    BY <1>2, <1>3 DEF Get, GotTested
  <2> QED
    BY <1>1, <2>1 DEF ListenInv, HeldInv
<1> QED
  BY <1>2, <1>3

(***************************************************************************)
(* Whichever calls fail, no function waits for an interrupt whose          *)
(* subscription it has tested and not got, and the mouse of the game       *)
(* reports only while somebody listens (proj.c:127-159, 388-403).          *)
(***************************************************************************)
THEOREM ListenedTo == LifeSpec => []SomeoneListens
<1>1. LifeInit => ListenInv
  <2>1. LifeInit => GameHolds
    BY DEF LifeInit, GameHolds
  <2> QED
    BY <2>1, HeldInit DEF LifeInit, ListenInv
<1>2. ListenInv /\ [LifeNext]_lifeVars => ListenInv'
  BY HeldStep, GameHoldsStep DEF ListenInv
<1>3. ListenInv => MouseIsHeard
  <2> SUFFICES ASSUME ListenInv, program = proj_main_loop, "reporting" \in held
               PROVE  "mouse" \in held
    BY DEF MouseIsHeard
  <2>1. pc \in 1 .. 12
    BY GameCalls DEF ListenInv, HeldInv, LifeType
  <2> QED
    BY <2>1 DEF ListenInv, GameHolds
<1> QED
  BY <1>1, <1>2, <1>3, LoopHeard, PTL DEF LifeSpec, SomeoneListens
=============================================================================
