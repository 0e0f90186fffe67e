------------------------------- MODULE KbdPoll -------------------------------
(***************************************************************************)
(* kbd_test_poll (lab3.c): reads scan codes by polling until ESC is        *)
(* released, then reads the controller's command byte, sets the bit that   *)
(* enables interrupts and writes it back.  kbc_read is the one of          *)
(* lab5/keyboard.c (lab3/keyboard.c has none); kbcEnableInterrutpt and     *)
(* readData (proj/src/keyboard.c:93-128, never called) take the same       *)
(* steps.  Nothing polls the input buffer, and kbc_read takes whatever     *)
(* byte comes first, a scan code for instance.                             *)
(***************************************************************************)
EXTENDS Integers, Sequences

CONSTANT MaxKeys \* scan codes sent

ASSUME KeysAssumption == MaxKeys \in Nat

Keys == {"1E", "81"}
CommandByte == "CB" \* as the controller has it, interrupts off
Empty == <<"none", "none">>

VARIABLES
    at, polled,
    ibf, awaiting,    \* input buffer; 0x60 was taken, its argument was not
    ob, obf, answer,  \* output buffer, and the answer to 0x20 before it gets there
    command,          \* the command byte in force: its source, and bit 0
    keys,             \* scan codes sent
    late,             \* history: a scan code came after the ESC
    overrun           \* history: a byte of the input buffer was overwritten

pollVars == <<at, polled, ibf, awaiting, ob, obf, answer, command, keys, late, overrun>>

PollInit ==
    /\ at = "scan" /\ polled = "00"
    /\ ibf = Empty /\ awaiting = FALSE
    /\ ob = "00" /\ obf = FALSE /\ answer = FALSE
    /\ command = <<CommandByte, FALSE>>
    /\ keys = 0 /\ late = FALSE /\ overrun = FALSE

-----------------------------------------------------------------------------
(* The status shows a byte; with an error it is kept all the same, and the *)
(* result of kbc_read is dropped.                                          *)
kbc_read == obf /\ obf' = FALSE /\ polled' = ob

Scan ==
    /\ at = "scan" /\ kbc_read
    /\ at' = IF ob = "81" THEN "0x20" ELSE "scan"
    /\ UNCHANGED <<ibf, awaiting, ob, answer, command, keys, late, overrun>>

(* sys_outb without a look at the status. *)
Write(byte) == ibf' = byte /\ overrun' = (overrun \/ ibf # Empty)

AskCommand ==
    /\ at = "0x20" /\ Write(<<"command", "20">>)
    /\ at' = "read"
    /\ UNCHANGED <<polled, awaiting, ob, obf, answer, command, keys, late>>

ReadCommand ==
    /\ at = "read" /\ kbc_read
    /\ at' = "0x60"
    /\ UNCHANGED <<ibf, awaiting, ob, answer, command, keys, late, overrun>>

WriteCommand ==
    /\ at = "0x60" /\ Write(<<"command", "60">>)
    /\ at' = "argument"
    /\ UNCHANGED <<polled, awaiting, ob, obf, answer, command, keys, late>>

(* Mutant: the byte is written back as it was read. *)
WriteArgumentRead ==
    /\ at = "argument" /\ Write(<<"argument", polled, FALSE>>)
    /\ at' = "done"
    /\ UNCHANGED <<polled, awaiting, ob, obf, answer, command, keys, late>>

(* polled | BIT(0): the byte, and its bit 0. *)
WriteArgument ==
    /\ at = "argument" /\ Write(<<"argument", polled, TRUE>>)
    /\ at' = "done"
    /\ UNCHANGED <<polled, awaiting, ob, obf, answer, command, keys, late>>

(* A write fails: 1 is returned. *)
WriteFails ==
    /\ at \in {"0x20", "0x60", "argument"}
    /\ at' = "failed"
    /\ UNCHANGED <<polled, ibf, awaiting, ob, obf, answer, command, keys, late, overrun>>

-----------------------------------------------------------------------------
(* The controller; an argument that nothing awaits goes to the keyboard. *)
TakeInput ==
    /\ ibf # Empty /\ ibf' = Empty
    /\ answer' = (answer \/ ibf = <<"command", "20">>)
    /\ awaiting' = (ibf = <<"command", "60">>)
    /\ command' = IF awaiting /\ ibf[1] = "argument" THEN <<ibf[2], ibf[3]>> ELSE command
    /\ UNCHANGED <<at, polled, ob, obf, keys, late, overrun>>

FillWithAnswer ==
    /\ answer /\ ~obf
    /\ answer' = FALSE /\ obf' = TRUE /\ ob' = CommandByte
    /\ UNCHANGED <<at, polled, ibf, awaiting, command, keys, late, overrun>>

FillWithKey(key) ==
    /\ ~obf /\ keys < MaxKeys
    /\ obf' = TRUE /\ ob' = key /\ keys' = keys + 1
    /\ late' = (late \/ at # "scan")
    /\ UNCHANGED <<at, polled, ibf, awaiting, answer, command, overrun>>

PollNext ==
    \/ Scan \/ AskCommand \/ ReadCommand \/ WriteCommand \/ WriteArgument \/ WriteFails
    \/ TakeInput \/ FillWithAnswer \/ \E key \in Keys : FillWithKey(key)

PollSpec == PollInit /\ [][PollNext]_pollVars

-----------------------------------------------------------------------------
Settled == at = "done" /\ ibf = Empty /\ ~overrun

(***************************************************************************)
(* Interrupts are back on when the test has returned 0, whatever byte was  *)
(* taken for the command byte, provided the controller was quicker than    *)
(* the three writes; and the rest of the command byte is as it was if no   *)
(* key was hit after ESC (lab3.c:91-96).                                   *)
(***************************************************************************)
InterruptsBack ==
    Settled => command[2] /\ (~late => command[1] = CommandByte)
=============================================================================
