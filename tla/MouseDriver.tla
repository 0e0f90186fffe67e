---------------------------- MODULE MouseDriver ----------------------------
(***************************************************************************)
(* The bottom half of the mouse: mouse_ih reads one byte per interrupt,    *)
(* the loop (proj.c:178-191) skips what a parity or time-out error has     *)
(* spoilt, print_mouse_packet puts three bytes together, and               *)
(* update_mouse_position moves the pointer by the packet completed last,   *)
(* after every byte that is not skipped.  A byte is the number of the      *)
(* packet it was sent in and its position there; of its value only bit 3,  *)
(* which every first byte has, is used to find the start of a packet.      *)
(* lab4/mouse.c and lab4/lab4.c:44-89 assemble packets in the same way.    *)
(***************************************************************************)
EXTENDS Integers

CONSTANTS
    Packets,     \* packet numbers are told apart modulo this
    CounterBound \* a runaway counter is held here

ASSUME DriverAssumption ==
    /\ Packets \in Nat \ {0}
    /\ CounterBound \in Nat /\ CounterBound > 2

Positions == 0 .. 2
NoByte == <<-1, -1>>
Bytes == {NoByte} \cup ((0 .. Packets - 1) \X Positions)

VARIABLES
    sending, phase,             \* the mouse: packet and position of the next byte
    counter, is_sync, reading_error,
    bytes, packet,              \* packet1.bytes, and as last completed
    applied,                    \* history: moves made by that packet
    failed,                     \* history: an error hit the packet being sent
    derailed                    \* history: an error hit a third byte, or came first

mouse == <<sending, phase>>
driver == <<counter, is_sync, reading_error, bytes, packet, applied>>
vars == <<mouse, driver, failed, derailed>>

Init ==
    /\ sending = 0 /\ phase = 0
    /\ counter = 0 /\ is_sync = FALSE /\ reading_error = FALSE
    /\ bytes = [i \in Positions |-> NoByte] /\ packet = [i \in Positions |-> NoByte]
    /\ applied = 0 /\ failed = FALSE /\ derailed = FALSE

(* The mouse goes on with its next byte whatever became of this one. *)
Sent(ok) ==
    /\ phase' = (phase + 1) % 3
    /\ sending' = IF phase = 2 THEN (sending + 1) % Packets ELSE sending
    /\ failed' = (phase # 2 /\ (failed \/ ~ok))
    /\ derailed' = (derailed \/ (~ok /\ (phase = 2 \/ ~is_sync)))

-----------------------------------------------------------------------------
(* Moves of the packet in force; before the first packet they are by 0. *)
update_mouse_position(completes) ==
    applied' = IF completes THEN 1
               ELSE IF applied \in 1 .. 3 THEN applied + 1 ELSE applied

(* reading_error and counter as mouse_ih leaves them. *)
Spoilt(ok) == reading_error \/ ~ok

(* Mutant: the bytes skipped after an error are not counted. *)
CountedOnce(ok) == IF ok THEN counter ELSE counter + 1

Counted(ok) == IF Spoilt(ok) THEN counter + 1 ELSE counter

(* Mutant: the pointer is moved for a skipped byte too. *)
SkipMoves(ok) ==
    /\ Spoilt(ok) /\ Counted(ok) # 2
    /\ reading_error' = TRUE
    /\ counter' = IF Counted(ok) > CounterBound THEN CounterBound ELSE Counted(ok)
    /\ update_mouse_position(FALSE)
    /\ UNCHANGED <<is_sync, bytes, packet>>

(* A byte inside a spoilt packet. *)
Skip(ok) ==
    /\ Spoilt(ok) /\ Counted(ok) # 2
    /\ reading_error' = TRUE
    /\ counter' = IF Counted(ok) > CounterBound THEN CounterBound ELSE Counted(ok)
    /\ UNCHANGED <<is_sync, bytes, packet, applied>>

(* Mutants: assembly starts again from the first byte, or never. *)
ResumeAtStart(ok) ==
    /\ Spoilt(ok) /\ Counted(ok) = 2
    /\ reading_error' = FALSE /\ counter' = 0
    /\ UNCHANGED <<is_sync, bytes, packet, applied>>

ResumeNever(ok) ==
    /\ Spoilt(ok) /\ Counted(ok) = 2
    /\ reading_error' = TRUE /\ counter' = 1
    /\ UNCHANGED <<is_sync, bytes, packet, applied>>

(* The second byte of a spoilt packet: the third is taken again. *)
Resume(ok) ==
    /\ Spoilt(ok) /\ Counted(ok) = 2
    /\ reading_error' = FALSE
    /\ counter' = 2
    /\ UNCHANGED <<is_sync, bytes, packet, applied>>

(* Mutant: a packet is complete one byte early. *)
CompleteEarly == counter = 1

Complete == counter = 2

CounterAfter == IF Complete THEN 0 ELSE counter + 1

(* bit3 only matters until it has been seen once. *)
print_mouse_packet(ok, bit3) ==
    /\ ~Spoilt(ok)
    /\ UNCHANGED reading_error
    /\ is_sync' = (is_sync \/ bit3)
    /\ IF is_sync'
       THEN /\ bytes' = [bytes EXCEPT ![counter] = <<sending, phase>>]
            /\ packet' = IF Complete THEN bytes' ELSE packet
            /\ counter' = CounterAfter
       ELSE UNCHANGED <<bytes, packet, counter>>
    /\ update_mouse_position(is_sync' /\ Complete)

(* One mouse interrupt: a byte that may be spoilt. *)
MouseByte(ok, bit3) ==
    /\ phase = 0 => bit3
    /\ Skip(ok) \/ Resume(ok) \/ print_mouse_packet(ok, bit3)
    /\ Sent(ok)

Next == \E ok, bit3 \in BOOLEAN : MouseByte(ok, bit3)

Spec == Init /\ [][Next]_vars

-----------------------------------------------------------------------------
(* Types; counter is an index of bytes whenever print_mouse_packet runs.   *)
TypeOK ==
    /\ sending \in 0 .. Packets - 1 /\ phase \in Positions
    /\ counter \in 0 .. CounterBound
    /\ is_sync \in BOOLEAN /\ reading_error \in BOOLEAN
    /\ bytes \in [Positions -> Bytes] /\ packet \in [Positions -> Bytes]
    /\ applied \in 0 .. 4 /\ failed \in BOOLEAN /\ derailed \in BOOLEAN
    /\ ~reading_error => counter \in Positions

(***************************************************************************)
(* An error on a first or second byte (mouse.c:130-131 and the skipping of *)
(* proj.c:181-186) never costs the driver its place in the stream.         *)
(***************************************************************************)
InPhase == derailed \/ counter = phase

(* A byte is never stored in the place of another (mouse.c:145-159).       *)
BytesInPlace ==
    derailed \/ \A i \in Positions : bytes[i] = NoByte \/ bytes[i][2] = i

PacketReal ==
    packet' # packet =>
        derailed' \/ failed \/ packet' = [i \in Positions |-> <<sending, i>>]

(***************************************************************************)
(* A packet the loop acts on is one the mouse has sent, unless an error    *)
(* hit that very packet (its bytes are then mixed with older ones).        *)
(***************************************************************************)
PacketsAreReal == [][PacketReal]_vars

(***************************************************************************)
(* update_mouse_position runs once per byte and not once per packet: a     *)
(* packet moves the pointer when it is complete and with the first two     *)
(* bytes of the next one, three times in all and never a fourth time,      *)
(* fewer when an error makes the loop skip a byte.                         *)
(***************************************************************************)
ThreeMovesPerPacket ==
    /\ applied <= 3
    /\ failed \/ derailed \/ applied \in {0, phase + 1}

(***************************************************************************)
(* The skipping of proj.c:181 ends, except when an error hit a third byte: *)
(* counter has then gone past the 2 that proj.c:184 waits for.             *)
(***************************************************************************)
Recovers == reading_error ~> ~reading_error \/ counter > 2

InStepOnSync == is_sync' /\ ~is_sync => counter = phase

(***************************************************************************)
(* "Mouse out of sync please click again!" (lab4/mouse.c:153): the byte on *)
(* which print_mouse_packet finds its place is stored in its own place.    *)
(***************************************************************************)
ClickAgainSyncs == [][InStepOnSync]_vars
=============================================================================
