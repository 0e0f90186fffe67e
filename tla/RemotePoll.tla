----------------------------- MODULE RemotePoll -----------------------------
(***************************************************************************)
(* mouse_test_remote (lab4.c): in remote mode the mouse sends one packet   *)
(* of three bytes when it is asked to, and nothing by itself.  The program *)
(* asks, calls mouse_ih until three bytes have been counted, and treats    *)
(* errors as the loops of the stream mode do (MouseDriver); mouse_ih polls *)
(* until a byte comes, so that a fourth call never returns.                *)
(***************************************************************************)
EXTENDS MouseDriver

CONSTANT Cnt \* packets to receive

ASSUME CntAssumption == Cnt \in Nat

VARIABLES
    pc,            \* "ask", "read" or "done"
    left,          \* bytes the mouse has still to send
    count,
    total_packets,
    answered,      \* history: packets put together since the last request
    hitEnd,        \* history: an error hit the first or third byte of a packet
    unasked        \* history: a request did not reach the mouse

remote == <<pc, left, count, total_packets, answered, hitEnd, unasked>>
remoteVars == <<vars, remote>>

RemoteInit ==
    /\ Init
    /\ pc = "ask" /\ left = 0 /\ count = 0 /\ total_packets = 0
    /\ answered = 1 /\ hitEnd = FALSE /\ unasked = FALSE

(* READ_DATA_MOUSE, if packets are missing. *)
Ask ==
    /\ pc = "ask" /\ total_packets < Cnt
    /\ pc' = "read" /\ left' = left + 3
    /\ answered' = 0
    /\ UNCHANGED <<vars, count, total_packets, hitEnd, unasked>>

(* write_argument_to_mouse fails before the mouse has the request; its     *)
(* result is dropped.                                                      *)
AskFails ==
    /\ pc = "ask" /\ total_packets < Cnt
    /\ pc' = "read"
    /\ answered' = 0 /\ unasked' = TRUE
    /\ UNCHANGED <<vars, left, count, total_packets, hitEnd>>

Finish ==
    /\ pc = "ask" /\ total_packets >= Cnt
    /\ pc' = "done"
    /\ UNCHANGED <<vars, left, count, total_packets, answered, hitEnd, unasked>>

(* Mutant: a byte is counted only if it is not spoilt. *)
CountedIfGood(ok) == IF Spoilt(ok) THEN count ELSE count + 1

(* A byte for which the inner loop says continue is not counted. *)
CountAfter(ok) == IF Spoilt(ok) /\ Counted(ok) # 2 THEN count ELSE count + 1

Assembled(ok) == ~Spoilt(ok) /\ is_sync' /\ Complete

(* print_mouse_packet counts the packets it has put together. *)
TotalAfter(ok) == IF Assembled(ok) THEN total_packets + 1 ELSE total_packets

(* mouse_ih and what the inner loop does with the byte. *)
ReadByte(ok, bit3) ==
    /\ pc = "read" /\ count # 3 /\ left > 0
    /\ MouseByte(ok, bit3)
    /\ left' = left - 1
    /\ count' = CountAfter(ok)
    /\ total_packets' = TotalAfter(ok)
    /\ answered' = IF Assembled(ok) THEN answered + 1 ELSE answered
    /\ hitEnd' = (hitEnd \/ (~ok /\ phase # 1))
    /\ UNCHANGED <<pc, unasked>>

(* The end of the inner loop, and tickdelay. *)
Wait ==
    /\ pc = "read" /\ count = 3
    /\ pc' = "ask" /\ count' = 0
    /\ UNCHANGED <<vars, left, total_packets, answered, hitEnd, unasked>>

RemoteNext ==
    \/ Ask \/ AskFails \/ Finish \/ Wait
    \/ \E ok, bit3 \in BOOLEAN : ReadByte(ok, bit3)

RemoteSpec == RemoteInit /\ [][RemoteNext]_remoteVars

-----------------------------------------------------------------------------
Starved == pc = "read" /\ count # 3 /\ left = 0

(***************************************************************************)
(* Every request that is answered to the end yields one packet, and the    *)
(* packets of later requests are not mixed with leftovers of earlier ones. *)
(***************************************************************************)
PacketPerRequest == pc # "read" => answered = 1 /\ left = 0

(***************************************************************************)
(* The test ends, or mouse_ih waits for a byte that never comes; and that  *)
(* only after an error hit the first or the third byte of a packet, or a   *)
(* request failed and its result was dropped (lab4.c:243): an error on the *)
(* second byte costs nothing (lab4.c:245-257).                             *)
(***************************************************************************)
EndsOrStarves == <>(pc = "done" \/ (Starved /\ (hitEnd \/ unasked)))
=============================================================================
