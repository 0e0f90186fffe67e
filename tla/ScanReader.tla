----------------------------- MODULE ScanReader -----------------------------
(***************************************************************************)
(* Scan codes: kbc_ih reads one byte per interrupt and printSC (lab3 and   *)
(* proj) or kbc_print_scancode (lab5) puts the codes of one or two bytes   *)
(* together, in the loop of kbd_test_scan (lab3.c:48-75), which ends when  *)
(* the byte read is 0x81.  kbc_ih reports a parity or time-out error and   *)
(* keeps the byte all the same.                                            *)
(***************************************************************************)
EXTENDS Integers, Sequences

(* 0xE0 announces a second byte; a break code is a make code plus 0x80. *)
Makes == {"1E", "48"}
Breaks == {"9E", "81"}
ESCAPE == "81"
Bytes == {"E0"} \cup Makes \cup Breaks
Codes == {<<b>> : b \in Makes \cup Breaks} \cup {<<"E0", b>> : b \in {"1E", "48", "9E"}}
Nothing == <<>>

VARIABLES
    code,                  \* which of the two texts runs
    key, sent,             \* the keyboard: code being sent, bytes of it sent
    scancode,
    bytes, scancodes,      \* bytes expected (lab3, proj) and the array
    printed,               \* what kbd_print_scancode was given in this round
    hit, hitBefore         \* history: an error hit this code, the one before

keyboard == <<key, sent>>
reader == <<scancode, bytes, scancodes, printed>>
scanVars == <<code, keyboard, reader, hit, hitBefore>>

ScanInit ==
    /\ code \in {"lab3", "lab5"}
    /\ key \in Codes /\ sent = 0
    /\ scancode = "00" /\ bytes = 1 /\ scancodes = <<"00", "00">>
    /\ printed = Nothing
    /\ hit = FALSE /\ hitBefore = FALSE

-----------------------------------------------------------------------------
(* Mutant: the length is not set back after a code of two bytes. *)
printSCStuck(byte) ==
    IF byte = "E0"
    THEN bytes' = 2 /\ scancodes' = [scancodes EXCEPT ![1] = byte] /\ printed' = Nothing
    ELSE /\ printed' = <<byte \in Makes, SubSeq([scancodes EXCEPT ![bytes] = byte], 1, bytes)>>
         /\ scancodes' = <<"00", "00">> /\ UNCHANGED bytes

(* Of lab3 and proj. *)
printSC(byte) ==
    IF byte = "E0"
    THEN bytes' = 2 /\ scancodes' = [scancodes EXCEPT ![1] = byte] /\ printed' = Nothing
    ELSE /\ printed' = <<byte \in Makes, SubSeq([scancodes EXCEPT ![bytes] = byte], 1, bytes)>>
         /\ scancodes' = <<"00", "00">> /\ bytes' = 1

(* Of lab5, without bytes: an 0xE0 left in the array tells. *)
kbc_print_scancode(byte) ==
    LET n_bytes == IF scancodes[1] = "E0" THEN 2 ELSE 1
        filled == [scancodes EXCEPT ![n_bytes] = byte]
    IN  /\ IF byte = "E0"
           THEN scancodes' = [scancodes EXCEPT ![1] = byte] /\ printed' = Nothing
           ELSE /\ printed' = <<byte \in Makes, SubSeq(filled, 1, n_bytes)>>
                /\ scancodes' = [filled EXCEPT ![1] = "00"]
        /\ UNCHANGED bytes

(* Whether the status shows an error or not. *)
kbc_ih(byte) == scancode' = byte

(* The keyboard goes on with the next byte, or with the next key. *)
Sent(ok) ==
    LET last == sent + 1 = Len(key) IN
    /\ sent' = IF last THEN 0 ELSE sent + 1
    /\ key' \in IF last THEN Codes ELSE {key}
    /\ hit' = (~last /\ (hit \/ ~ok))
    /\ hitBefore' = IF last THEN hit \/ ~ok ELSE hitBefore

(* One keyboard interrupt; a byte hit by an error may have any value. *)
Interrupt(byte, ok) ==
    /\ scancode # ESCAPE
    /\ ok => byte = key[sent + 1]
    /\ kbc_ih(byte)
    /\ \/ code = "lab3" /\ printSC(scancode')
       \/ code = "lab5" /\ kbc_print_scancode(scancode')
    /\ Sent(ok)
    /\ UNCHANGED code

ScanNext == \E byte \in Bytes, ok \in BOOLEAN : Interrupt(byte, ok)

ScanSpec == ScanInit /\ [][ScanNext]_scanVars

-----------------------------------------------------------------------------
PrintRight ==
    ~hit /\ ~hitBefore /\ ~hitBefore' /\ sent' = 0 =>
        printed' = <<key[Len(key)] \in Makes, key>>

(***************************************************************************)
(* A code is printed exactly as it was sent unless an error hit it or the  *)
(* code before it: one byte lost or made up never costs the reader more    *)
(* (lab3/keyboard.c:46-71, lab5/keyboard.c:56-79).                         *)
(***************************************************************************)
PrintsAsSent == [][PrintRight]_scanVars
=============================================================================
