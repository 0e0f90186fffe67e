----------------------------- MODULE KbcCommand -----------------------------
(***************************************************************************)
(* Commands to the mouse: write_argument_to_mouse (proj/src/mouse.c and    *)
(* lab4/mouse.c) against the i8042 controller, which takes the bytes of    *)
(* its input buffer and hands on the answers of mouse and keyboard in its  *)
(* own time.  The driver polls the input buffer only: it reads the output  *)
(* buffer at once, whether a new byte has come or not, and it repeats an   *)
(* argument without repeating the prefix 0xD4, so that the controller      *)
(* passes the repetition to the keyboard.  No interrupt is served during   *)
(* a command.  Bytes are written as the code's hexadecimal numbers; "data" *)
(* is any byte that is neither an answer nor a command.                    *)
(***************************************************************************)
EXTENDS Integers, Sequences

CONSTANTS
    MaxData, \* bytes of movement the mouse still sends by itself
    MaxQueue \* answers the keyboard can hold back

ASSUME CommandAssumption == MaxData \in Nat /\ MaxQueue \in Nat \ {0}

(***************************************************************************)
(* The sequences of arguments that the program sends.  enable_mouse_data   *)
(* and disable_mouse_data return at the first call that fails;             *)
(* mouse_test_remote drops the results of its calls and goes on.           *)
(***************************************************************************)
enable_mouse_data == <<"EA", "F4">>

disable_mouse_data == <<"F5", "EA">>

RemoteMode == <<"F5", "F0">>

Scripts == {enable_mouse_data, disable_mouse_data, RemoteMode}

Arguments == {"EA", "F0", "F4", "F5"}
Answers == {"FA", "FE", "data"}
Empty == <<"none", "none">>

VARIABLES
    script, cmd, pc,      \* the driver: arguments, the current one, where it is
    ibf, armed,           \* input buffer; the next argument goes to the mouse
    ob, obf,              \* output buffer: the last byte, and whether it is new
    mouseOut, kbdOut,     \* answers not yet in the output buffer
    reporting, moves,     \* the mouse reports its movements; those still to come
    failed,               \* history: the calls that a port has made fail
    taken,                \* history: arguments the mouse has taken
    strayed               \* history: arguments the keyboard has taken

driver == <<script, cmd, pc, failed>>
devices == <<mouseOut, kbdOut, reporting, moves, taken, strayed>>
commandVars == <<driver, ibf, armed, ob, obf, devices>>

(* The output buffer holds whatever came last, read or not. *)
CommandInit ==
    /\ script \in Scripts /\ cmd = 0 /\ pc = "prefix" /\ failed = {}
    /\ ibf = Empty /\ armed = FALSE
    /\ ob \in Answers /\ obf \in BOOLEAN
    /\ mouseOut = <<>> /\ kbdOut = <<>>
    /\ reporting \in BOOLEAN /\ moves = MaxData
    /\ taken = <<>> /\ strayed = {}

-----------------------------------------------------------------------------
(* Mutant: the prefix is counted as sent and not written. *)
WritePrefixForgotten ==
    /\ pc = "prefix" /\ cmd < Len(script)
    /\ cmd' = cmd + 1 /\ pc' = "argument"
    /\ UNCHANGED <<script, failed, ibf, armed, ob, obf, devices>>

(* First loop: 0xD4 to the command port once the input buffer is empty. *)
WritePrefix ==
    /\ pc = "prefix" /\ cmd < Len(script)
    /\ ibf = Empty
    /\ ibf' = <<"command", "D4">>
    /\ cmd' = cmd + 1 /\ pc' = "argument"
    /\ UNCHANGED <<script, failed, armed, ob, obf, devices>>

(* Second loop: the argument to the data port. *)
WriteArgument ==
    /\ pc = "argument"
    /\ ibf = Empty
    /\ ibf' = <<"argument", script[cmd]>>
    /\ pc' = "ack"
    /\ UNCHANGED <<script, cmd, failed, armed, ob, obf, devices>>

(* Mutants: the whole command is repeated; another answer is waited for. *)
ReadAckOrRepeat ==
    /\ pc = "ack"
    /\ obf' = FALSE
    /\ \/ pc' = "prefix" /\ ob = "FA" /\ UNCHANGED cmd
       \/ pc' = "prefix" /\ ob # "FA" /\ cmd' = cmd - 1
    /\ UNCHANGED <<script, failed, ibf, armed, ob, devices>>

ReadAckOfError ==
    /\ pc = "ack"
    /\ obf' = FALSE
    /\ pc' = IF ob = "FE" THEN "prefix" ELSE "argument"
    /\ UNCHANGED <<script, cmd, failed, ibf, armed, ob, devices>>

(* The output buffer is read as it is; without an 0xFA the argument alone  *)
(* is written again.                                                       *)
ReadAck ==
    /\ pc = "ack"
    /\ obf' = FALSE
    /\ pc' = IF ob = "FA" THEN "prefix" ELSE "argument"
    /\ UNCHANGED <<script, cmd, failed, ibf, armed, ob, devices>>

Returned == pc = "prefix" /\ cmd = Len(script)

(* A port access fails and the call returns 1: the program gives up, or    *)
(* drops the result and goes on with the next argument.                    *)
PortFails ==
    /\ pc # "failed" /\ ~Returned
    /\ cmd' = IF pc = "prefix" THEN cmd + 1 ELSE cmd
    /\ failed' = failed \cup {cmd'}
    /\ pc' = IF script = RemoteMode THEN "prefix" ELSE "failed"
    /\ UNCHANGED <<script, ibf, armed, ob, obf, devices>>

Driver == WritePrefix \/ WriteArgument \/ ReadAck

-----------------------------------------------------------------------------
(* The controller takes 0xD4 for itself.  *)
TakeCommand ==
    /\ ibf[1] = "command"
    /\ ibf' = Empty /\ armed' = TRUE
    /\ UNCHANGED <<driver, ob, obf, devices>>

(* An argument after 0xD4 is for the mouse, which acknowledges and obeys. *)
TakeForMouse ==
    /\ ibf[1] = "argument" /\ armed
    /\ ibf' = Empty /\ armed' = FALSE
    /\ taken' = Append(taken, ibf[2])
    /\ mouseOut' = Append(mouseOut, "FA")
    /\ reporting' = (ibf[2] = "F4" \/ (ibf[2] = "EA" /\ reporting))
    /\ UNCHANGED <<driver, ob, obf, kbdOut, moves, strayed>>

(* Any other argument is for the keyboard, which knows some of them. *)
TakeForKeyboard ==
    /\ ibf[1] = "argument" /\ ~armed
    /\ ibf' = Empty
    /\ strayed' = strayed \cup {ibf[2]}
    /\ kbdOut' = IF Len(kbdOut) = MaxQueue THEN kbdOut
                 ELSE Append(kbdOut, IF ibf[2] = "EA" THEN "FE" ELSE "FA")
    /\ UNCHANGED <<driver, armed, ob, obf, mouseOut, reporting, moves, taken>>

FillFromMouse ==
    /\ ~obf /\ mouseOut # <<>>
    /\ ob' = Head(mouseOut) /\ obf' = TRUE
    /\ mouseOut' = Tail(mouseOut)
    /\ UNCHANGED <<driver, ibf, armed, kbdOut, reporting, moves, taken, strayed>>

FillFromKeyboard ==
    /\ ~obf /\ kbdOut # <<>>
    /\ ob' = Head(kbdOut) /\ obf' = TRUE
    /\ kbdOut' = Tail(kbdOut)
    /\ UNCHANGED <<driver, ibf, armed, mouseOut, reporting, moves, taken, strayed>>

(* The mouse is moved; a byte of a packet may have any value. *)
MouseMoves(byte) ==
    /\ reporting /\ moves > 0
    /\ mouseOut' = Append(mouseOut, byte)
    /\ moves' = moves - 1
    /\ UNCHANGED <<driver, ibf, armed, ob, obf, kbdOut, reporting, taken, strayed>>

Controller == TakeCommand \/ TakeForMouse \/ TakeForKeyboard

CommandNext ==
    \/ Driver \/ PortFails \/ Controller \/ FillFromMouse \/ FillFromKeyboard
    \/ \E byte \in {"FA", "data"} : MouseMoves(byte)

CommandSpec == CommandInit /\ [][CommandNext]_commandVars

(***************************************************************************)
(* The program runs, the controller empties its input buffer, and it does  *)
(* not hold the answers of the mouse back for ever in favour of the        *)
(* keyboard's.                                                             *)
(***************************************************************************)
CommandFairness ==
    /\ WF_commandVars(Driver) /\ WF_commandVars(Controller)
    /\ SF_commandVars(FillFromMouse)

-----------------------------------------------------------------------------
CommandTypeOK ==
    /\ script \in Scripts /\ cmd \in 0 .. Len(script)
    /\ pc \in {"prefix", "argument", "ack", "failed"}
    /\ pc \in {"argument", "ack"} => cmd > 0
    /\ failed \subseteq 1 .. cmd
    /\ ibf \in {Empty, <<"command", "D4">>} \cup ({"argument"} \X Arguments)
    /\ armed \in BOOLEAN /\ ob \in Answers /\ obf \in BOOLEAN
    /\ mouseOut \in Seq(Answers) /\ kbdOut \in Seq(Answers)
    /\ reporting \in BOOLEAN /\ moves \in 0 .. MaxData
    /\ taken \in Seq(Arguments) /\ strayed \subseteq Arguments

KeepsInput == ibf # Empty => ibf' \in {ibf, Empty}

(* The driver never writes over a byte the controller has not taken yet    *)
(* (the polling of mouse.c:40-41 and 48-49).                               *)
InputNeverLost == [][KeepsInput]_commandVars

Took(k) == \E i \in 1 .. Len(taken) : taken[i] = script[k]

(***************************************************************************)
(* However late the answers come, however often an argument is repeated    *)
(* and whichever calls a port makes fail, the mouse takes the arguments in *)
(* the order of the calls, each at most once: a 0xD4 left behind by a call *)
(* that failed serves the next.  A call that did not fail has delivered    *)
(* its argument, to the mouse or to the input buffer (mouse.c:35-57,       *)
(* lab4.c:237-239).                                                        *)
(***************************************************************************)
TakenInOrder ==
    /\ \A i \in 1 .. Len(taken) : \E k \in 1 .. cmd : taken[i] = script[k]
    /\ \A i, j \in 1 .. Len(taken) :
          i < j => \E k, l \in 1 .. cmd :
                      k < l /\ taken[i] = script[k] /\ taken[j] = script[l]
    /\ \A k \in (1 .. cmd) \ failed :
          k < cmd \/ pc = "prefix" => Took(k) \/ ibf = <<"argument", script[k]>>

(***************************************************************************)
(* When the functions return 0 at most the last argument is still on its   *)
(* way; so the mouse no longer reports when disable_mouse_data returns 0,  *)
(* even if what was read as its acknowledgement was something else.        *)
(***************************************************************************)
SentOnReturn ==
    Returned /\ failed = {} =>
        /\ Len(taken) >= Len(script) - 1
        /\ script[1] = "F5" => ~reporting

(***************************************************************************)
(* A call whose ports do not fail comes to an end, because some 0xFA       *)
(* arrives (mouse.c:47-55), and takes effect: the mouse obeys its          *)
(* argument, even if 0 was returned before it did, and even if the call    *)
(* before it failed and nobody looked (lab4.c:237-239).                    *)
(***************************************************************************)
CommandTakesEffect ==
    <>(pc = "failed" \/ (Returned /\ \A k \in (1 .. Len(script)) \ failed : Took(k)))

(***************************************************************************)
(* A repetition goes to the keyboard, because no 0xD4 comes before it, but *)
(* only after the mouse has taken the argument: nothing meant for the      *)
(* mouse reaches the keyboard instead (mouse.c:42, 47-50).                 *)
(***************************************************************************)
StraysWereTaken == \A a \in strayed : \E k \in 1 .. Len(taken) : taken[k] = a

(***************************************************************************)
(* Every argument whose call does not fail reaches the mouse once, in      *)
(* order, and before it reaches anyone else, however often it is repeated  *)
(* (mouse.c:35-57).                                                        *)
(***************************************************************************)
MouseGetsEach == TakenInOrder /\ StraysWereTaken
=============================================================================
