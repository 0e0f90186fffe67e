------------------------- MODULE MouseDriver_proofs -------------------------
(* What an error in the byte stream can and cannot do: to the packets, to  *)
(* the timer whose ticks come in the same messages, and to the polling of  *)
(* the remote mode.  At the end, the gesture that lab 4 reads from them.   *)
EXTENDS MouseTicks, RemotePoll, Gesture, TLAPS

(***************************************************************************)
(* While nothing has derailed the driver: counter is the mouse's position, *)
(* only a spoilt packet is skipped, every byte but the first comes after   *)
(* the synchronisation, and the bytes of an unspoilt packet are in place.  *)
(***************************************************************************)
OnTrack ==
    /\ counter = phase
    /\ reading_error => failed /\ phase = 1
    /\ phase # 0 => is_sync
    /\ failed => phase # 0
    /\ ~failed => \A i \in Positions : i < phase => bytes[i] = <<sending, i>>
    /\ \A i \in Positions : bytes[i] = NoByte \/ bytes[i][2] = i
    /\ failed \/ applied \in {0, phase + 1}

(* On or off the track, a packet has moved the pointer at most once per    *)
(* byte counted since.                                                     *)
MovesCounted ==
    /\ applied <= 3 /\ applied <= counter + 1
    /\ applied > 0 => is_sync

IInv == TypeOK /\ MovesCounted /\ (derailed \/ OnTrack)

(* The mouse's side of an interrupt keeps its types.                       *)
LEMMA SentType ==
    ASSUME TypeOK, NEW ok \in BOOLEAN, Sent(ok)
    PROVE  /\ sending' \in 0 .. Packets - 1 /\ phase' \in Positions
           /\ failed' \in BOOLEAN /\ derailed' \in BOOLEAN
           /\ phase = 0 => phase' = 1
           /\ phase = 1 => phase' = 2
           /\ phase = 2 => phase' = 0
           /\ phase # 2 => sending' = sending
           /\ failed' <=> phase # 2 /\ (failed \/ ~ok)
           /\ derailed' <=> derailed \/ (~ok /\ (phase = 2 \/ ~is_sync))
<1>1. phase \in {0, 1, 2} /\ sending \in 0 .. Packets - 1
  BY DEF TypeOK, Positions
<1>2. /\ phase = 0 => phase' = 1
      /\ phase = 1 => phase' = 2
      /\ phase = 2 => phase' = 0
  BY <1>1 DEF Sent
<1>3. sending' \in 0 .. Packets - 1
  BY <1>1, DriverAssumption DEF Sent
<1>4. failed' \in BOOLEAN /\ derailed' \in BOOLEAN
  BY DEF Sent
<1>5. phase # 2 => sending' = sending
  BY DEF Sent
<1>6. /\ failed' <=> phase # 2 /\ (failed \/ ~ok)
      /\ derailed' <=> derailed \/ (~ok /\ (phase = 2 \/ ~is_sync))
  BY Zenon DEF Sent
<1>7. phase' \in Positions
  BY <1>1, <1>2 DEF Positions
<1> QED BY <1>2, <1>3, <1>4, <1>5, <1>6, <1>7

(* A skipped byte keeps the invariant.                                     *)
LEMMA SkipInv ==
    ASSUME IInv, NEW ok \in BOOLEAN, Skip(ok), Sent(ok)
    PROVE  IInv'
<1>1. TypeOK'
  BY SentType, DriverAssumption DEF IInv, TypeOK, Skip, Counted, Spoilt
<1>2. MovesCounted'
  BY DriverAssumption DEF IInv, TypeOK, MovesCounted, Skip, Counted, Spoilt
<1>3. (derailed \/ OnTrack)'
  <2> SUFFICES ASSUME ~derailed' PROVE OnTrack'
    OBVIOUS
  <2>1. OnTrack /\ ~derailed /\ (ok \/ (phase # 2 /\ is_sync))
    BY SentType DEF IInv
  <2>2. counter = 0 /\ phase = 0 /\ ~ok /\ is_sync
    BY <2>1 DEF IInv, TypeOK, OnTrack, Skip, Counted, Spoilt, Positions
  <2>3. /\ counter' = 1 /\ phase' = 1 /\ failed' /\ is_sync'
        /\ bytes' = bytes /\ applied' = applied
    <3>1. counter' = 1
      BY <2>2, DriverAssumption DEF Skip, Counted, Spoilt
    <3>2. is_sync' /\ bytes' = bytes /\ applied' = applied
      BY <2>2 DEF Skip
    <3>3. phase' = 1 /\ failed'
      BY <2>2, SentType DEF IInv
    <3> QED BY <3>1, <3>2, <3>3
  <2> QED BY <2>1, <2>3 DEF OnTrack
<1> QED BY <1>1, <1>2, <1>3 DEF IInv

(* So does the end of the skipping.                                        *)
LEMMA ResumeInv ==
    ASSUME IInv, NEW ok \in BOOLEAN, Resume(ok), Sent(ok)
    PROVE  IInv'
<1>1. TypeOK'
  <2>1. counter' \in 0 .. CounterBound /\ counter' \in Positions
    BY DriverAssumption DEF Resume, Positions
  <2>2. /\ is_sync' \in BOOLEAN /\ reading_error' \in BOOLEAN
        /\ bytes' \in [Positions -> Bytes] /\ packet' \in [Positions -> Bytes]
        /\ applied' \in 0 .. 4
    BY DEF IInv, TypeOK, Resume
  <2>3. /\ sending' \in 0 .. Packets - 1 /\ phase' \in Positions
        /\ failed' \in BOOLEAN /\ derailed' \in BOOLEAN
    BY SentType DEF IInv
  <2> QED BY <2>1, <2>2, <2>3 DEF TypeOK
<1>2. MovesCounted'
  BY DEF IInv, TypeOK, MovesCounted, Resume
<1>3. (derailed \/ OnTrack)'
  <2> SUFFICES ASSUME ~derailed' PROVE OnTrack'
    OBVIOUS
  <2>1. OnTrack /\ ~derailed
    BY SentType DEF IInv
  <2>2. phase = 1 /\ is_sync /\ (failed \/ ~ok)
    BY <2>1 DEF IInv, TypeOK, OnTrack, Resume, Counted, Spoilt, Positions
  <2>3. /\ counter' = 2 /\ phase' = 2 /\ failed' /\ is_sync' /\ ~reading_error'
        /\ bytes' = bytes /\ applied' = applied
    <3>1. /\ counter' = 2 /\ is_sync' /\ ~reading_error'
          /\ bytes' = bytes /\ applied' = applied
      BY <2>2 DEF Resume
    <3>2. phase' = 2 /\ failed'
      BY <2>2, SentType DEF IInv
    <3> QED BY <3>1, <3>2
  <2> QED BY <2>1, <2>3 DEF OnTrack
<1> QED BY <1>1, <1>2, <1>3 DEF IInv

(* So does a byte that print_mouse_packet is given.                        *)
LEMMA PrintInv ==
    ASSUME IInv, NEW ok \in BOOLEAN, NEW bit3 \in BOOLEAN, phase = 0 => bit3,
           print_mouse_packet(ok, bit3), Sent(ok)
    PROVE  IInv'
<1>0. /\ ok /\ ~reading_error /\ ~reading_error' /\ counter \in Positions
      /\ phase \in Positions /\ <<sending, phase>> \in Bytes
      /\ is_sync' \in BOOLEAN
  BY DEF IInv, TypeOK, print_mouse_packet, Spoilt, Bytes
<1>s. /\ phase = 0 => phase' = 1
      /\ phase = 1 => phase' = 2
      /\ phase = 2 => phase' = 0
      /\ phase # 2 => sending' = sending
      /\ failed' <=> phase # 2 /\ (failed \/ ~ok)
  BY SentType DEF IInv
<1>1. TypeOK'
  <2>1. bytes' \in [Positions -> Bytes] /\ packet' \in [Positions -> Bytes]
    BY <1>0 DEF IInv, TypeOK, print_mouse_packet
  <2>2. counter' \in Positions
    BY <1>0 DEF IInv, TypeOK, print_mouse_packet, Complete, CounterAfter, Positions
  <2>3. applied' \in 0 .. 4
    BY DEF IInv, TypeOK, print_mouse_packet, update_mouse_position
  <2>4. /\ sending' \in 0 .. Packets - 1 /\ phase' \in Positions
        /\ failed' \in BOOLEAN /\ derailed' \in BOOLEAN
    BY SentType DEF IInv
  <2>5. counter' \in 0 .. CounterBound
    BY <2>2, DriverAssumption DEF Positions
  <2>6. reading_error' \in BOOLEAN
    BY DEF IInv, TypeOK, print_mouse_packet
  <2> QED BY <1>0, <2>1, <2>2, <2>3, <2>4, <2>5, <2>6 DEF TypeOK
<1>2. MovesCounted'
  BY <1>0 DEF IInv, TypeOK, MovesCounted, print_mouse_packet, Complete, CounterAfter,
      update_mouse_position, Positions
<1>3. (derailed \/ OnTrack)'
  <2> SUFFICES ASSUME ~derailed' PROVE OnTrack'
    OBVIOUS
  <2>1. OnTrack /\ ~derailed
    BY SentType DEF IInv
  <2>2. /\ is_sync' /\ counter = phase
        /\ bytes' = [bytes EXCEPT ![phase] = <<sending, phase>>]
        /\ bytes \in [Positions -> Bytes]
    <3>1. is_sync'
      <4>1. is_sync \/ bit3
        BY <2>1 DEF OnTrack
      <4> QED BY <4>1, Zenon DEF print_mouse_packet
    <3>2. counter = phase
      BY <2>1 DEF OnTrack
    <3>3. bytes' = [bytes EXCEPT ![counter] = <<sending, phase>>]
      BY <3>1, Zenon DEF print_mouse_packet
    <3> QED BY <3>1, <3>2, <3>3 DEF IInv, TypeOK
  <2>3. counter' = phase'
    <3>1. counter' = CounterAfter
      BY <2>2, Zenon DEF print_mouse_packet
    <3> QED BY <1>0, <1>s, <2>2, <3>1 DEF Complete, CounterAfter, Positions
  <2>4. failed' => phase' # 0
    BY <1>0, <1>s DEF Positions
  <2>5. ~failed' => \A i \in Positions : i < phase' => bytes'[i] = <<sending', i>>
    <3>1. CASE phase = 2
      BY <3>1, <1>s DEF Positions
    <3>2. CASE phase # 2
      <4>1. phase' = phase + 1 /\ sending' = sending /\ (failed' <=> failed)
        BY <1>0, <1>s, <3>2 DEF Positions
      <4> QED BY <1>0, <2>1, <2>2, <4>1 DEF OnTrack, Positions
    <3> QED BY <3>1, <3>2
  <2>6. \A i \in Positions : bytes'[i] = NoByte \/ bytes'[i][2] = i
    BY <1>0, <2>1, <2>2 DEF OnTrack
  <2>7. failed' \/ applied' \in {0, phase' + 1}
    <3>1. CASE phase = 2
      BY <3>1, <2>2, <1>s DEF print_mouse_packet, Complete, update_mouse_position
    <3>2. CASE phase # 2
      <4>1. phase' = phase + 1 /\ (failed' <=> failed)
        BY <1>0, <1>s, <3>2 DEF Positions
      <4> QED BY <1>0, <3>2, <2>1, <2>2, <4>1
          DEF OnTrack, print_mouse_packet, Complete, update_mouse_position, Positions
    <3> QED BY <3>1, <3>2
  <2> QED BY <1>0, <2>2, <2>3, <2>4, <2>5, <2>6, <2>7 DEF OnTrack
<1> QED BY <1>1, <1>2, <1>3 DEF IInv

LEMMA StreamInit == Init => IInv
<1> SUFFICES ASSUME Init PROVE IInv
  OBVIOUS
<1>1. /\ bytes \in [Positions -> Bytes] /\ packet \in [Positions -> Bytes]
      /\ \A i \in Positions : bytes[i] = NoByte
  BY DEF Init, Bytes
<1>2. TypeOK
  <2>1. /\ sending \in 0 .. Packets - 1 /\ phase \in Positions
        /\ counter \in 0 .. CounterBound /\ counter \in Positions
        /\ applied \in 0 .. 4
    BY DriverAssumption DEF Init, Positions
  <2>2. /\ is_sync \in BOOLEAN /\ reading_error \in BOOLEAN
        /\ failed \in BOOLEAN /\ derailed \in BOOLEAN
    BY DEF Init
  <2> QED BY <1>1, <2>1, <2>2 DEF TypeOK
<1>3. MovesCounted
  BY DEF Init, MovesCounted
<1>4. OnTrack
  BY <1>1 DEF Init, OnTrack, Positions
<1> QED BY <1>2, <1>3, <1>4 DEF IInv

LEMMA ByteInv ==
    ASSUME IInv, NEW ok \in BOOLEAN, NEW bit3 \in BOOLEAN, MouseByte(ok, bit3)
    PROVE  IInv'
  BY SkipInv, ResumeInv, PrintInv DEF MouseByte

LEMMA StreamStep == IInv /\ [Next]_vars => IInv'
<1>1. IInv /\ UNCHANGED vars => IInv'
  BY DEF IInv, TypeOK, MovesCounted, OnTrack, vars, mouse, driver
<1> QED BY <1>1, ByteInv DEF Next

(* The inductive invariant of the byte stream.                             *)
THEOREM StreamInvariance == Spec => []IInv
  BY StreamInit, StreamStep, PTL DEF Spec

(* counter and the bytes kept by print_mouse_packet stay within their      *)
(* ranges, whatever the errors (mouse.c:145-160).                          *)
THEOREM StreamTypes == Spec => []TypeOK
<1>1. IInv => TypeOK
  BY DEF IInv
<1> QED BY <1>1, StreamInvariance, PTL

(***************************************************************************)
(* An error on a first or second byte never costs the driver its place in  *)
(* the stream (mouse.c:130-131, proj.c:181-186).                           *)
(***************************************************************************)
THEOREM KeepsPhase == Spec => []InPhase
<1>1. IInv => InPhase
  BY DEF IInv, OnTrack, InPhase
<1> QED BY <1>1, StreamInvariance, PTL

(* A byte is never stored in the place of another (mouse.c:145-159).       *)
THEOREM KeepsPlaces == Spec => []BytesInPlace
<1>1. IInv => BytesInPlace
  BY DEF IInv, OnTrack, BytesInPlace
<1> QED BY <1>1, StreamInvariance, PTL

(* A packet moves the pointer three times at most, whatever the errors.    *)
THEOREM MovesThrice == Spec => []ThreeMovesPerPacket
<1>1. IInv => ThreeMovesPerPacket
  BY DEF IInv, MovesCounted, OnTrack, ThreeMovesPerPacket
<1> QED BY <1>1, StreamInvariance, PTL

(***************************************************************************)
(* Every packet that print_mouse_packet completes is one that the mouse    *)
(* has sent, unless an error hit it or derailed the driver.                *)
(***************************************************************************)
THEOREM RealPackets == Spec => PacketsAreReal
<1>1. IInv /\ [Next]_vars => [PacketReal]_vars
  <2> SUFFICES ASSUME IInv, NEW ok \in BOOLEAN, NEW bit3 \in BOOLEAN,
                      MouseByte(ok, bit3), packet' # packet, ~derailed', ~failed
               PROVE  packet' = [i \in Positions |-> <<sending, i>>]
    BY DEF PacketReal, Next
  <2>1. print_mouse_packet(ok, bit3) /\ OnTrack
    <3>1. OnTrack
      BY SentType DEF IInv, MouseByte
    <3> QED BY <3>1 DEF MouseByte, Skip, Resume
  <2>2. /\ counter = 2 /\ phase = 2
        /\ packet' = [bytes EXCEPT ![2] = <<sending, 2>>]
    BY <2>1 DEF print_mouse_packet, Complete, OnTrack
  <2>3. bytes \in [Positions -> Bytes]
    BY DEF IInv, TypeOK
  <2>4. bytes[0] = <<sending, 0>> /\ bytes[1] = <<sending, 1>>
    BY <2>1, <2>2 DEF OnTrack, Positions
  <2>5. Positions = {0, 1, 2}
    BY DEF Positions
  <2>6. \A i \in Positions : packet'[i] = <<sending, i>>
    BY <2>2, <2>3, <2>4, <2>5
  <2>7. packet' \in [Positions -> {<<sending, i>> : i \in Positions}]
    BY <2>2, <2>3, <2>4, <2>5
  <2> QED BY <2>6, <2>7
<1> QED BY <1>1, StreamInvariance, PTL DEF Spec, PacketsAreReal

(* Bytes are skipped after the first of a packet, or past all of them.     *)
SkippedCount == reading_error => counter = 1 \/ counter > 2

(* The byte after a skipped one is the last that is skipped, or the        *)
(* skipping never ends.                                                    *)
OneByteOrForEver ==
    reading_error => IF counter > 2 THEN reading_error' /\ counter' > 2 ELSE ~reading_error'

LEMMA SkippedByte ==
    ASSUME TypeOK, SkippedCount, NEW ok \in BOOLEAN, NEW bit3 \in BOOLEAN, MouseByte(ok, bit3)
    PROVE  SkippedCount' /\ OneByteOrForEver
<1>0. /\ counter \in Nat /\ counter <= CounterBound /\ reading_error \in BOOLEAN
      /\ CounterBound \in Nat /\ CounterBound > 2
  BY DriverAssumption DEF TypeOK
<1>1. CASE Skip(ok)
  <2>1. Spoilt(ok) /\ Counted(ok) = counter + 1 /\ counter + 1 # 2 /\ reading_error'
    BY <1>1 DEF Skip, Counted
  <2>2. counter' = IF counter + 1 > CounterBound THEN CounterBound ELSE counter + 1
    BY <1>1, <2>1 DEF Skip
  <2> QED BY <1>0, <2>1, <2>2 DEF SkippedCount, OneByteOrForEver
<1>2. CASE Resume(ok)
  <2>1. counter + 1 = 2
    BY <1>2 DEF Resume, Counted
  <2>2. reading_error' \in BOOLEAN /\ ~reading_error'
    BY <1>2, Zenon DEF Resume
  <2> QED BY <1>0, <2>1, <2>2 DEF SkippedCount, OneByteOrForEver
<1>3. CASE print_mouse_packet(ok, bit3)
  <2>1. ~reading_error
    BY <1>3 DEF print_mouse_packet, Spoilt
  <2>2. reading_error' = reading_error
    BY <1>3 DEF print_mouse_packet
  <2> QED BY <2>1, <2>2 DEF SkippedCount, OneByteOrForEver
<1> QED BY <1>1, <1>2, <1>3 DEF MouseByte

(***************************************************************************)
(* The skipping of proj.c:181-186 lasts for one byte more, or for ever: if *)
(* counter has passed the 2 that proj.c:184 waits for, no later byte, good *)
(* or spoilt, ends it.  The first half is why RecoversOnBytes holds, the   *)
(* second why it makes the exception.  (CounterBound stands for the int    *)
(* counter, which would need 2^31 skipped bytes to overflow.)              *)
(***************************************************************************)
THEOREM SkipsOneByteOrForEver == Spec => [][OneByteOrForEver]_vars
<1>1. Init => SkippedCount
  <2>1. Init => ~reading_error
    BY Zenon DEF Init
  <2> QED BY <2>1 DEF SkippedCount
<1>2. TypeOK /\ SkippedCount /\ [Next]_vars => SkippedCount' /\ [OneByteOrForEver]_vars
  <2>1. CASE UNCHANGED vars
    BY <2>1 DEF vars, driver, SkippedCount
  <2> QED BY <2>1, SkippedByte DEF Next
<1> QED BY <1>1, <1>2, StreamTypes, PTL DEF Spec

-----------------------------------------------------------------------------
(* What a byte does to a driver on track, by its position in the packet:   *)
(* an error on a first byte makes it skip one byte and take up the second, *)
(* one on a second byte is made up for at once.                            *)
LEMMA TrackedByte ==
    ASSUME IInv, NEW ok \in BOOLEAN, NEW bit3 \in BOOLEAN, MouseByte(ok, bit3), ~derailed'
    PROVE  /\ OnTrack /\ ~derailed /\ phase \in {0, 1, 2} /\ counter = phase
           /\ Spoilt(ok) /\ Counted(ok) # 2 => phase = 0 /\ ~ok
           /\ phase = 0 => phase' = 1
           /\ phase = 1 => phase' = 2
           /\ phase = 2 => phase' = 0
           /\ failed' <=> phase # 2 /\ (failed \/ ~ok)
<1>1. TypeOK /\ Sent(ok)
  BY DEF IInv, MouseByte
<1>2. ~derailed /\ (ok \/ (phase # 2 /\ is_sync))
  BY <1>1, SentType
<1>3. OnTrack
  BY <1>2 DEF IInv
<1>4. phase \in {0, 1, 2} /\ counter = phase
  BY <1>1, <1>3 DEF TypeOK, Positions, OnTrack
<1>5. Spoilt(ok) /\ Counted(ok) # 2 => phase = 0 /\ ~ok
  BY <1>2, <1>3, <1>4 DEF OnTrack, Spoilt, Counted
<1> QED BY <1>1, <1>2, <1>3, <1>4, <1>5, SentType

(* The ticks dropped with the packet under way.                            *)
LEMMA TicksStep ==
    IInv /\ OneTickPerPacket /\ [TicksNext]_ticksVars => IInv' /\ OneTickPerPacket'
<1> SUFFICES ASSUME IInv, OneTickPerPacket, [TicksNext]_ticksVars
             PROVE  IInv' /\ OneTickPerPacket'
  OBVIOUS
<1>1. CASE UNCHANGED vars /\ dropped' = dropped
  <2>1. IInv'
    BY <1>1, StreamStep
  <2> QED BY <1>1, <2>1 DEF OneTickPerPacket, vars, mouse
<1>2. ASSUME NEW ok \in BOOLEAN, NEW bit3 \in BOOLEAN, MouseMessage(ok, bit3)
      PROVE  IInv' /\ OneTickPerPacket'
  <2>1. IInv'
    BY <1>2, ByteInv DEF MouseMessage
  <2>2. ASSUME ~derailed'
        PROVE  dropped' = 0 \/ (dropped' = 1 /\ (phase' = 0 \/ failed'))
    <3>1. /\ ~derailed /\ phase \in {0, 1, 2}
          /\ Continues(ok) => phase = 0 /\ ~ok
          /\ phase = 0 => phase' = 1
          /\ phase = 1 => phase' = 2
          /\ phase = 2 => phase' = 0
          /\ failed' <=> phase # 2 /\ (failed \/ ~ok)
      BY <1>2, <2>2, TrackedByte DEF MouseMessage, Continues
    <3>2. dropped = 0 \/ (dropped = 1 /\ (phase = 0 \/ failed))
      BY <3>1 DEF OneTickPerPacket
    <3>3. CASE phase = 0
      <4>1. dropped' = 0 \/ (dropped' = 1 /\ Continues(ok))
        BY <1>2, <3>3 DEF MouseMessage
      <4> QED BY <3>1, <3>3, <4>1
    <3>4. CASE phase # 0
      <4>1. dropped' = dropped
        BY <1>2, <3>1, <3>2, <3>4 DEF MouseMessage
      <4> QED BY <3>1, <3>2, <3>4, <4>1
    <3> QED BY <3>3, <3>4
  <2> QED BY <2>1, <2>2 DEF OneTickPerPacket
<1>3. CASE TimerInterrupt \/ TimerMessage \/ UNCHANGED ticksVars
  BY <1>1, <1>3 DEF TimerInterrupt, TimerMessage, ticksVars
<1> QED BY <1>2, <1>3 DEF TicksNext, MovedOn

(***************************************************************************)
(* As long as no error hits a third byte, a spoilt packet costs the timer  *)
(* one tick at most, however the ticks and the bytes come together         *)
(* (proj.c:181-182, lab4.c:117-118).                                       *)
(***************************************************************************)
THEOREM OneTickDropped == TicksSpec => []OneTickPerPacket
<1>1. TicksInit => IInv /\ OneTickPerPacket
  BY StreamInit DEF TicksInit, OneTickPerPacket
<1> QED BY <1>1, TicksStep, PTL DEF TicksSpec

-----------------------------------------------------------------------------
(***************************************************************************)
(* The remote mode, request by request.  While no error has hit a first or *)
(* a third byte, the bytes counted are those the mouse has sent, and the   *)
(* third completes the packet; after such an error fewer than three bytes  *)
(* will be counted, and the inner loop is not left any more; nor is it     *)
(* after a request that did not reach the mouse.                           *)
(***************************************************************************)
RemoteInv ==
    /\ pc \in {"ask", "read", "done"} /\ left \in 0 .. 3 /\ count \in 0 .. 3
    /\ hitEnd \in BOOLEAN /\ unasked \in BOOLEAN
    /\ unasked => pc = "read" /\ left = 0 /\ count = 0
    /\ pc # "read" => ~hitEnd /\ left = 0 /\ count = 0 /\ answered = 1 /\ phase = 0
    /\ hitEnd => count + left <= 2
    /\ ~hitEnd => ~derailed /\ ~reading_error
    /\ pc = "read" /\ ~hitEnd /\ ~unasked =>
        /\ count + left = 3
        /\ phase = IF count = 3 THEN 0 ELSE count
        /\ answered = IF count = 3 THEN 1 ELSE 0

(* A byte, counted or not.                                                 *)
LEMMA CountEffect ==
    ASSUME RemoteInv, NEW ok \in BOOLEAN, NEW bit3 \in BOOLEAN, ReadByte(ok, bit3)
    PROVE  /\ count \in 0 .. 2 /\ left \in 1 .. 3 /\ left' = left - 1
           /\ count' \in {count, count + 1}
           /\ Spoilt(ok) /\ Counted(ok) # 2 => count' = count
           /\ ~(Spoilt(ok) /\ Counted(ok) # 2) => count' = count + 1
           /\ pc = "read" /\ pc' = "read" /\ MouseByte(ok, bit3)
           /\ hitEnd' \in BOOLEAN /\ (hitEnd' <=> hitEnd \/ (~ok /\ phase # 1))
           /\ ~unasked /\ ~unasked' /\ unasked' \in BOOLEAN
<1>1. /\ hitEnd' <=> hitEnd \/ (~ok /\ phase # 1)
      /\ hitEnd' \in BOOLEAN
  BY Zenon DEF ReadByte
<1>2. count' = CountAfter(ok) /\ left' = left - 1 /\ pc = "read" /\ pc' = "read"
      /\ count # 3 /\ left > 0 /\ MouseByte(ok, bit3) /\ (unasked' <=> unasked)
      /\ (unasked \in BOOLEAN => unasked' \in BOOLEAN)
  BY DEF ReadByte
<1> QED BY <1>1, <1>2 DEF CountAfter, RemoteInv

LEMMA ReadByteInv ==
    ASSUME IInv, RemoteInv, NEW ok \in BOOLEAN, NEW bit3 \in BOOLEAN, ReadByte(ok, bit3)
    PROVE  RemoteInv'
<1>0. TypeOK /\ Sent(ok)
  BY DEF IInv, ReadByte, MouseByte
<1>1. CASE hitEnd
  BY <1>1, CountEffect DEF RemoteInv
<1>2. CASE ~hitEnd /\ ~ok /\ phase # 1
  <2>1. ~derailed /\ ~reading_error /\ count + left = 3 /\ phase = count
    BY <1>2, CountEffect DEF RemoteInv
  <2>2. counter = phase
    BY <2>1 DEF IInv, OnTrack
  <2>3. Spoilt(ok) /\ Counted(ok) # 2
    BY <1>0, <1>2, <2>2 DEF Spoilt, Counted, TypeOK, Positions
  <2> QED BY <1>2, <2>1, <2>3, CountEffect DEF RemoteInv
<1>3. CASE ~hitEnd /\ (ok \/ phase = 1)
  <2>1. /\ ~derailed /\ ~reading_error /\ count + left = 3 /\ phase = count /\ answered = 0
    BY <1>3, CountEffect DEF RemoteInv
  <2>2. OnTrack /\ counter = phase /\ (phase # 0 => is_sync)
    BY <2>1 DEF IInv, OnTrack
  <2>3. ~derailed'
    BY <1>0, <1>3, <2>1, <2>2, SentType
  <2>4. ~(Spoilt(ok) /\ Counted(ok) # 2)
    BY <1>3, <2>1, <2>2 DEF Spoilt, Counted
  <2>5. ~reading_error'
    BY <2>1, <2>4, CountEffect DEF MouseByte, Skip, Resume, print_mouse_packet
  <2>6. /\ phase = 0 => phase' = 1
        /\ phase = 1 => phase' = 2
        /\ phase = 2 => phase' = 0
    BY <1>0, SentType
  <2>7. Assembled(ok) <=> phase = 2
    <3>1. CASE phase = 2
      <4>1. ok /\ ~Spoilt(ok) /\ Complete
        BY <1>3, <2>1, <2>2, <3>1 DEF Spoilt, Complete
      <4>2. print_mouse_packet(ok, bit3)
        BY <4>1, Zenon DEF ReadByte, MouseByte, Skip, Resume
      <4>3. is_sync
        BY <2>2, <3>1
      <4>4. is_sync'
        BY <4>2, <4>3, Zenon DEF print_mouse_packet
      <4> QED BY <3>1, <4>1, <4>4 DEF Assembled
    <3>2. CASE phase # 2
      BY <2>2, <3>2 DEF Assembled, Complete
    <3> QED BY <3>1, <3>2
  <2>8. answered' = IF phase = 2 THEN 1 ELSE 0
    BY <2>1, <2>7 DEF ReadByte
  <2>9. /\ ~hitEnd' /\ hitEnd' \in BOOLEAN /\ count' = count + 1 /\ left' = left - 1
        /\ count \in 0 .. 2 /\ left \in 1 .. 3 /\ pc' = "read"
        /\ ~unasked' /\ unasked' \in BOOLEAN
    BY <1>3, <2>4, CountEffect
  <2> QED BY <2>1, <2>3, <2>5, <2>6, <2>8, <2>9 DEF RemoteInv
<1> QED BY <1>1, <1>2, <1>3 DEF RemoteInv

LEMMA RemoteStep == IInv /\ RemoteInv /\ [RemoteNext]_remoteVars => IInv' /\ RemoteInv'
<1> SUFFICES ASSUME IInv, RemoteInv, [RemoteNext]_remoteVars PROVE IInv' /\ RemoteInv'
  OBVIOUS
<1>1. ASSUME NEW ok \in BOOLEAN, NEW bit3 \in BOOLEAN, ReadByte(ok, bit3)
      PROVE  IInv' /\ RemoteInv'
  <2>1. IInv'
    BY <1>1, ByteInv DEF ReadByte
  <2> QED BY <1>1, <2>1, ReadByteInv
<1>2. CASE Ask \/ AskFails \/ Finish \/ Wait \/ UNCHANGED remoteVars
  <2>1. UNCHANGED vars
    BY <1>2 DEF Ask, AskFails, Finish, Wait, remoteVars
  <2>2. IInv'
    BY <2>1, StreamStep
  <2>3. phase' = phase /\ (derailed' <=> derailed) /\ (reading_error' <=> reading_error)
    BY <2>1 DEF vars, mouse, driver
  <2>4. RemoteInv'
    <3>1. CASE AskFails
      <4>1. unasked' \in BOOLEAN /\ unasked'
        BY <3>1, Zenon DEF AskFails
      <4>2. pc = "ask" /\ pc' = "read" /\ left' = left /\ count' = count /\ (hitEnd' <=> hitEnd)
            /\ hitEnd' = hitEnd
        BY <3>1 DEF AskFails
      <4> QED BY <2>3, <4>1, <4>2 DEF RemoteInv
    <3>2. CASE Ask
      BY <2>3, <3>2 DEF Ask, RemoteInv
    <3>3. CASE Finish
      BY <2>3, <3>3 DEF Finish, RemoteInv
    <3>4. CASE Wait
      BY <2>3, <3>4 DEF Wait, RemoteInv
    <3>5. CASE UNCHANGED remoteVars
      BY <2>3, <3>5 DEF remoteVars, remote, RemoteInv
    <3> QED BY <1>2, <3>1, <3>2, <3>3, <3>4, <3>5
  <2> QED BY <2>2, <2>4
<1> QED BY <1>1, <1>2 DEF RemoteNext

LEMMA RemoteInvariance == RemoteSpec => [](IInv /\ RemoteInv)
<1>1. RemoteInit => IInv /\ RemoteInv
  <2> SUFFICES ASSUME RemoteInit PROVE IInv /\ RemoteInv
    OBVIOUS
  <2>1. ~derailed /\ ~reading_error /\ ~hitEnd /\ hitEnd \in BOOLEAN
        /\ ~unasked /\ unasked \in BOOLEAN
    BY DEF RemoteInit, Init
  <2>2. phase = 0 /\ pc = "ask" /\ left = 0 /\ count = 0 /\ answered = 1
    BY DEF RemoteInit, Init
  <2> QED BY <2>1, <2>2, StreamInit DEF RemoteInit, RemoteInv
<1> QED BY <1>1, RemoteStep, PTL DEF RemoteSpec

(***************************************************************************)
(* For any number of packets, a request of mouse_test_remote that is       *)
(* answered to the end yields one packet and leaves no byte to be mixed    *)
(* with the next one's (lab4.c:245-257).                                   *)
(***************************************************************************)
THEOREM OnePacketPerRequest == RemoteSpec => []PacketPerRequest
<1>1. RemoteInv => PacketPerRequest
  BY DEF RemoteInv, PacketPerRequest
<1> QED BY <1>1, RemoteInvariance, PTL

(* mouse_ih waits for a fourth byte only after an error on the first or    *)
(* the third byte of a packet, and for a first one only after a request    *)
(* that failed.                                                            *)
StarvedByError == Starved => hitEnd \/ (unasked /\ count = 0)

(***************************************************************************)
(* An error on a second byte never makes mouse_test_remote wait for ever:  *)
(* the safety half of EndsOrStarves (lab4.c:245-257).                      *)
(***************************************************************************)
THEOREM SecondByteIsHarmless == RemoteSpec => []StarvedByError
<1>1. RemoteInv => StarvedByError
  BY DEF RemoteInv, StarvedByError, Starved
<1> QED BY <1>1, RemoteInvariance, PTL

-----------------------------------------------------------------------------
(* The gesture (mouse_test_gesture).                                       *)
(***************************************************************************)
(* What the program has added up is the length of the line under way,      *)
(* unless the attempt before was abandoned at its very end, and what it    *)
(* has accepted is long enough.  LinesAreLong speaks of the states after a *)
(* line alone; that the sum starts at 0 has to be carried through all the  *)
(* states in between.                                                      *)
(***************************************************************************)
GestureInv ==
    /\ counter_exit \in 0 .. 6 /\ x_displacement \in Int /\ line \in Int
    /\ abandoned \in BOOLEAN
    /\ counter_exit = 0 => abandoned \/ x_displacement = 0
    /\ counter_exit = 1 => abandoned \/ x_displacement = line
    /\ counter_exit = 2 => abandoned \/ line >= x_len
    /\ counter_exit = 3 => x_displacement = 0
    /\ counter_exit = 4 => x_displacement = line
    /\ counter_exit \in {5, 6} => line >= x_len

(* A packet that continues a line keeps the two lengths equal.             *)
LEMMA AlongAdds ==
    ASSUME GestureInv, NEW dx \in Int, NEW next, Along(dx, next)
    PROVE  /\ x_displacement' \in Int /\ line' \in Int /\ abandoned' = abandoned
           /\ x_displacement = line => x_displacement' = line'
           /\ counter_exit' = IF x_displacement' >= x_len THEN next ELSE counter_exit
BY DEF GestureInv, Along, Goto

(* A line given up leaves nothing behind.                                  *)
LEMMA GiveUpStep == GestureInv /\ GiveUp => GestureInv'
<1> SUFFICES ASSUME GestureInv, GiveUp PROVE GestureInv'
  OBVIOUS
<1>1. abandoned' \in BOOLEAN
  BY Zenon DEF GiveUp
<1>2. counter_exit' = 0 /\ x_displacement' = 0 /\ line' = 0
  BY DEF GiveUp, Goto
<1> QED
  BY <1>1, <1>2 DEF GestureInv

LEMMA LeftLineStep ==
    ASSUME GestureInv, NEW lb, NEW dx \in Int, NEW dy \in Int, LeftLine(lb, dx, dy)
    PROVE  GestureInv'
<1>1. CASE Along(dx, 2)
  <2>1. counter_exit = 1
    BY DEF LeftLine
  <2> QED
    BY <1>1, <2>1, AlongAdds, GestureAssumption DEF GestureInv
<1>2. CASE GiveUp
  BY <1>2, GiveUpStep
<1> QED
  BY <1>1, <1>2 DEF LeftLine

LEMMA RightLineStep ==
    ASSUME GestureInv, NEW rb, NEW dx \in Int, NEW dy \in Int, RightLine(rb, dx, dy)
    PROVE  GestureInv'
<1>1. CASE Along(dx, 5)
  <2>1. counter_exit = 4
    BY DEF RightLine
  <2> QED
    BY <1>1, <2>1, AlongAdds, GestureAssumption DEF GestureInv
<1>2. CASE GiveUp
  BY <1>2, GiveUpStep
<1> QED
  BY <1>1, <1>2 DEF RightLine

LEMMA GestureStep == GestureInv /\ [GestureNext]_gestureVars => GestureInv'
<1> SUFFICES ASSUME GestureInv, [GestureNext]_gestureVars PROVE GestureInv'
  OBVIOUS
<1>1. CASE GestureNext
  <2>1. PICK lb \in BOOLEAN, rb \in BOOLEAN, dx \in Int, dy \in Int : Packet(lb, rb, dx, dy)
    <3>1. {d - tolerance - 1 : d \in Deltas} \subseteq Int
      BY GestureAssumption
    <3> QED
      BY <1>1, <3>1 DEF GestureNext
  <2>2. CASE LeftPressed(lb)
    BY <2>2 DEF LeftPressed, Goto, GestureInv
  <2>3. CASE LeftReleased(lb)
    BY <2>3 DEF LeftReleased, Goto, GestureInv
  <2>4. CASE RightPressed(rb)
    BY <2>4 DEF RightPressed, Goto, GestureInv
  <2>5. CASE RightReleased(rb)
    <3>1. \/ counter_exit' = 6 /\ abandoned' = abandoned
          \/ counter_exit' = 0 /\ abandoned' = TRUE
      BY <2>5, Zenon DEF RightReleased, Goto
    <3>2. counter_exit = 5 /\ x_displacement' = x_displacement /\ line' = line
      BY <2>5 DEF RightReleased, KeepsLine
    <3>3. abandoned' \in BOOLEAN /\ (counter_exit' = 6 \/ abandoned')
      BY <3>1, Zenon DEF GestureInv
    <3>4. counter_exit' \in {0, 6}
      BY <3>1
    <3> QED
      BY <3>2, <3>3, <3>4 DEF GestureInv
  <2> QED
    BY <2>1, <2>2, <2>3, <2>4, <2>5, LeftLineStep, RightLineStep DEF Packet
<1>2. CASE UNCHANGED gestureVars
  BY <1>2 DEF gestureVars, GestureInv
<1> QED
  BY <1>1, <1>2

(***************************************************************************)
(* For every x_len and tolerance and whatever the mouse sends, a line that *)
(* mouse_test_gesture accepts is as long as asked (lab4.c:175-215): the    *)
(* second always, the first unless an attempt was abandoned at its end.    *)
(***************************************************************************)
THEOREM GestureIsLong == GestureSpec => []LinesAreLong
<1>1. GestureInit => GestureInv
  <2>1. GestureInit => abandoned \in BOOLEAN
    BY Zenon DEF GestureInit
  <2> QED
    BY <2>1 DEF GestureInit, GestureInv
<1>2. GestureInv => LinesAreLong
  BY DEF GestureInv, LinesAreLong, FirstLineLong, SecondLineLong
<1> QED
  BY <1>1, <1>2, GestureStep, PTL DEF GestureSpec
=============================================================================
