------------------------- MODULE KbcCommand_proofs -------------------------
(***************************************************************************)
(* What the mouse takes, for any amount of movement and any number of      *)
(* repetitions of an argument.  The invariant ties the place of the driver *)
(* to what lies in the input buffer and to whether the controller expects  *)
(* an argument for the mouse, perhaps on account of a 0xD4 that an earlier *)
(* call left behind.                                                       *)
(***************************************************************************)
EXTENDS KbcCommand, SequenceTheorems, TLAPS

Prefix == <<"command", "D4">>

(* What the mouse has taken, for the two calls of a script. *)
TakenShape ==
    \/ Len(taken) = 0
    \/ Len(taken) = 1 /\ taken[1] = script[1] /\ cmd > 0
    \/ Len(taken) = 1 /\ taken[1] = script[2] /\ cmd = 2
    \/ Len(taken) = 2 /\ taken[1] = script[1] /\ taken[2] = script[2] /\ cmd = 2

(* The mouse has yet to take the argument that a 0xD4 announces: it comes  *)
(* after all that it has taken.                                            *)
NoneFrom(k) ==
    \/ Len(taken) = 0
    \/ Len(taken) = 1 /\ taken[1] = script[1] /\ k = 2

Coupling ==
    /\ TakenShape
    /\ cmd = 0 => ibf = Empty /\ ~armed /\ pc = "prefix"
    /\ ibf = Prefix \/ armed => NoneFrom(cmd)
    /\ \/ ibf = Empty \/ ibf = Prefix
       \/ \E k \in 1 .. cmd : /\ ibf = <<"argument", script[k]>>
                              /\ IF armed THEN NoneFrom(k) ELSE Took(k)
    /\ pc = "argument" =>
          \/ ibf = Prefix \/ (ibf = Empty /\ (armed \/ Took(cmd)))
          \/ ibf = <<"argument", script[cmd]>>
    /\ pc = "ack" =>
          \/ ibf = Empty /\ ~armed /\ Took(cmd)
          \/ ibf = <<"argument", script[cmd]>>

Delivered ==
    /\ \A k \in (1 .. cmd) \ failed :
          k < cmd \/ pc = "prefix" => Took(k) \/ ibf = <<"argument", script[k]>>
    /\ pc = "failed" => cmd \in failed
    /\ cmd = 2 /\ failed = {} => Took(1)

Obeyed == script[1] = "F5" /\ Took(1) => ~reporting

IInv == CommandTypeOK /\ Coupling /\ Delivered /\ Obeyed

LEMMA ScriptShape ==
    ASSUME NEW t \in Scripts
    PROVE  /\ Len(t) = 2 /\ \A k \in 1 .. 2 : t[k] \in Arguments
           /\ t[1] # t[2]
           /\ t[1] = "F5" => t[2] # "F4"
BY DEF Scripts, enable_mouse_data, disable_mouse_data, RemoteMode, Arguments

(* What the invariant says beside the types. *)
LEMMA Facts ==
    ASSUME IInv
    PROVE  /\ script \in Scripts /\ Len(script) = 2 /\ script[1] # script[2]
           /\ cmd \in 0 .. 2 /\ taken \in Seq(Arguments)
           /\ script[1] \in Arguments /\ script[2] \in Arguments
           /\ Len(taken) \in Nat
<1>1. script \in Scripts /\ cmd \in 0 .. Len(script) /\ taken \in Seq(Arguments)
  BY DEF IInv, CommandTypeOK
<1>2. /\ Len(script) = 2 /\ script[1] # script[2]
      /\ script[1] \in Arguments /\ script[2] \in Arguments
  BY <1>1, ScriptShape
<1>3. Len(taken) \in Nat
  BY <1>1
<1> QED
  BY <1>1, <1>2, <1>3

LEMMA InitIInv == CommandInit => IInv
<1> SUFFICES ASSUME CommandInit PROVE IInv
  OBVIOUS
<1>1. cmd \in 0 .. Len(script) /\ moves \in 0 .. MaxData
  BY ScriptShape, CommandAssumption DEF CommandInit
<1>2. CommandTypeOK
  <2>1. /\ script \in Scripts /\ pc = "prefix" /\ ibf = Empty
        /\ armed \in BOOLEAN /\ ob \in Answers /\ obf \in BOOLEAN
        /\ reporting \in BOOLEAN /\ strayed \subseteq Arguments
        /\ failed \subseteq 1 .. cmd
    BY DEF CommandInit
  <2>2. mouseOut \in Seq(Answers) /\ kbdOut \in Seq(Answers) /\ taken \in Seq(Arguments)
    BY DEF CommandInit
  <2> QED
    BY <1>1, <2>1, <2>2 DEF CommandTypeOK
<1>3. Coupling
  BY DEF CommandInit, Coupling, TakenShape, Prefix, Empty
<1>4. Delivered
  BY DEF CommandInit, Delivered
<1>5. Obeyed
  BY DEF CommandInit, Obeyed, Took
<1> QED
  BY <1>2, <1>3, <1>4, <1>5 DEF IInv

LEMMA WritePrefixKeeps == IInv /\ WritePrefix => IInv'
<1> SUFFICES ASSUME IInv, WritePrefix PROVE IInv'
  OBVIOUS
<1>1. /\ cmd' = cmd + 1 /\ cmd' \in 1 .. 2 /\ pc' = "argument" /\ ibf = Empty /\ ibf' = Prefix
      /\ UNCHANGED <<script, failed, armed, taken, reporting>>
  <2>1. cmd \in 0 .. 2 /\ Len(script) = 2
    BY Facts
  <2> QED
    BY <2>1 DEF WritePrefix, devices, Prefix
<1>2. CommandTypeOK'
  BY <1>1, Facts DEF IInv, CommandTypeOK, WritePrefix, devices, Prefix
<1>3. TakenShape' /\ NoneFrom(cmd)'
  BY <1>1, Facts DEF IInv, Coupling, TakenShape, NoneFrom
<1>4. Coupling'
  BY <1>1, <1>3 DEF Coupling, Prefix, Empty
<1>5. \A k \in 1 .. cmd : k \notin failed => Took(k)
  BY <1>1, Facts DEF IInv, Delivered, WritePrefix, Empty
<1>6. Delivered'
  BY <1>1, <1>5, Facts DEF Delivered, Took
<1>7. Obeyed'
  BY <1>1 DEF IInv, Obeyed, Took
<1> QED
  BY <1>2, <1>4, <1>6, <1>7 DEF IInv

LEMMA WriteArgumentKeeps == IInv /\ WriteArgument => IInv'
<1> SUFFICES ASSUME IInv, WriteArgument PROVE IInv'
  OBVIOUS
<1>1. /\ pc = "argument" /\ pc' = "ack" /\ ibf = Empty /\ ibf' = <<"argument", script[cmd]>>
      /\ UNCHANGED <<script, cmd, failed, armed, taken, reporting>>
      /\ cmd \in 1 .. 2 /\ script[cmd] \in Arguments
  BY Facts DEF IInv, CommandTypeOK, WriteArgument, devices
<1>2. CommandTypeOK'
  BY <1>1 DEF IInv, CommandTypeOK, WriteArgument, devices
<1>3. IF armed THEN NoneFrom(cmd) ELSE Took(cmd)
  BY <1>1 DEF IInv, Coupling, Prefix, Empty
<1>4. Coupling'
  BY <1>1, <1>3 DEF IInv, Coupling, TakenShape, NoneFrom, Took, Prefix, Empty
<1>5. Delivered'
  BY <1>1 DEF IInv, Delivered, Took, Empty
<1>6. Obeyed'
  BY <1>1 DEF IInv, Obeyed, Took
<1> QED
  BY <1>2, <1>4, <1>5, <1>6 DEF IInv

LEMMA ReadAckKeeps == IInv /\ ReadAck => IInv'
<1> SUFFICES ASSUME IInv, ReadAck PROVE IInv'
  OBVIOUS
<1>1. /\ pc = "ack" /\ pc' \in {"prefix", "argument"}
      /\ UNCHANGED <<script, cmd, failed, ibf, armed, taken, reporting>>
      /\ cmd \in 1 .. 2
  BY Facts DEF IInv, CommandTypeOK, ReadAck, devices
<1>2. CommandTypeOK'
  BY DEF IInv, CommandTypeOK, ReadAck, devices
<1>3. Took(cmd) \/ ibf = <<"argument", script[cmd]>>
  BY <1>1 DEF IInv, Coupling
<1>4. Coupling'
  BY <1>1 DEF IInv, Coupling, TakenShape, NoneFrom, Took
<1>5. Delivered'
  BY <1>1, <1>3 DEF IInv, Delivered, Took
<1>6. Obeyed'
  BY <1>1 DEF IInv, Obeyed, Took
<1> QED
  BY <1>2, <1>4, <1>5, <1>6 DEF IInv

(* The call that fails leaves its 0xD4 or its argument where it is. *)
LEMMA PortFailsKeeps == IInv /\ PortFails => IInv'
<1> SUFFICES ASSUME IInv, PortFails PROVE IInv'
  OBVIOUS
<1>1. /\ cmd' \in 1 .. 2 /\ cmd' \in {cmd, cmd + 1} /\ failed' = failed \cup {cmd'}
      /\ cmd' = cmd + 1 => pc = "prefix"
      /\ pc' \in {"prefix", "failed"}
      /\ UNCHANGED <<script, ibf, armed, taken, reporting>>
  <2>1. cmd \in 0 .. 2 /\ Len(script) = 2
    BY Facts
  <2>2. pc = "prefix" \/ cmd > 0
    BY DEF IInv, CommandTypeOK, PortFails
  <2> QED
    BY <2>1, <2>2 DEF PortFails, Returned, devices
<1>2. CommandTypeOK'
  <2>1. failed' \subseteq 1 .. cmd'
    BY <1>1, Facts DEF IInv, CommandTypeOK
  <2> QED
    BY <1>1, <2>1, Facts DEF IInv, CommandTypeOK, PortFails, devices
<1>3. Coupling'
  <2>1. TakenShape'
    BY <1>1, Facts DEF IInv, Coupling, TakenShape
  <2>2. ibf' = Prefix \/ armed' => NoneFrom(cmd)'
    BY <1>1, Facts DEF IInv, Coupling, NoneFrom
  <2>3. \/ ibf' = Empty \/ ibf' = Prefix
        \/ \E k \in 1 .. cmd' : /\ ibf' = <<"argument", script'[k]>>
                                /\ IF armed' THEN NoneFrom(k)' ELSE Took(k)'
    BY <1>1, Facts DEF IInv, Coupling, NoneFrom, Took
  <2> QED
    BY <1>1, <2>1, <2>2, <2>3 DEF Coupling
<1>4. Delivered'
  BY <1>1, Facts DEF IInv, Delivered, Took
<1>5. Obeyed'
  BY <1>1 DEF IInv, Obeyed, Took
<1> QED
  BY <1>2, <1>3, <1>4, <1>5 DEF IInv

-----------------------------------------------------------------------------
LEMMA TakeCommandKeeps == IInv /\ TakeCommand => IInv'
<1> SUFFICES ASSUME IInv, TakeCommand PROVE IInv'
  OBVIOUS
<1>1. /\ ibf = Prefix /\ ibf' = Empty /\ armed'
      /\ UNCHANGED <<script, cmd, pc, failed, taken, reporting>>
  BY DEF IInv, CommandTypeOK, TakeCommand, Prefix, Empty, driver, devices
<1>2. CommandTypeOK'
  BY DEF IInv, CommandTypeOK, TakeCommand, driver, devices
<1>3. Coupling'
  BY <1>1 DEF IInv, Coupling, TakenShape, NoneFrom, Took, Prefix, Empty
<1>4. Delivered'
  BY <1>1 DEF IInv, Delivered, Took, Prefix
<1>5. Obeyed'
  BY <1>1 DEF IInv, Obeyed, Took
<1> QED
  BY <1>2, <1>3, <1>4, <1>5 DEF IInv

LEMMA TakeForMouseKeeps == IInv /\ TakeForMouse => IInv'
<1> SUFFICES ASSUME IInv, TakeForMouse PROVE IInv'
  OBVIOUS
<1>1. PICK k \in 1 .. cmd : ibf = <<"argument", script[k]>> /\ NoneFrom(k)
  BY DEF IInv, Coupling, TakeForMouse, Prefix, Empty
<1>2. /\ k \in 1 .. 2 /\ cmd \in 1 .. 2 /\ script[k] \in Arguments
      /\ taken \in Seq(Arguments) /\ mouseOut \in Seq(Answers)
      /\ taken' = Append(taken, script[k])
      /\ ibf' = Empty /\ armed' = FALSE /\ UNCHANGED <<script, cmd, pc, failed>>
  BY <1>1, Facts DEF IInv, CommandTypeOK, TakeForMouse, driver
<1>3. /\ taken' \in Seq(Arguments) /\ Len(taken') = Len(taken) + 1
      /\ \A i \in 1 .. Len(taken) : taken'[i] = taken[i]
      /\ taken'[Len(taken) + 1] = script[k]
  BY <1>2
<1>4. mouseOut' \in Seq(Answers)
  BY <1>2 DEF TakeForMouse, Answers
<1>5. reporting' \in BOOLEAN /\ (reporting' => ibf[2] = "F4" \/ (ibf[2] = "EA" /\ reporting))
  BY Zenon DEF TakeForMouse
<1>6. CommandTypeOK'
  BY <1>3, <1>4, <1>5 DEF IInv, CommandTypeOK, TakeForMouse, driver
<1>7. Len(taken) \in Nat
  BY <1>2
<1>8. Took(k)' /\ \A j : Took(j) => Took(j)'
  <2>1. Took(k)'
    <3>1. Len(taken) + 1 \in 1 .. Len(taken')
      BY <1>3, <1>7
    <3> QED
      BY <1>2, <1>3, <3>1 DEF Took
  <2>2. ASSUME NEW j, NEW i \in 1 .. Len(taken), taken[i] = script[j] PROVE Took(j)'
    <3>1. i \in 1 .. Len(taken') /\ taken'[i] = taken[i]
      BY <1>3, <1>7
    <3> QED
      BY <1>2, <2>2, <3>1 DEF Took
  <2> QED
    BY <2>1, <2>2 DEF Took
<1>9. Coupling'
  <2>1. TakenShape'
    BY <1>1, <1>2, <1>3 DEF TakenShape, NoneFrom
  <2>2. pc \in {"argument", "ack"} => k = cmd
    BY <1>1, <1>2, Facts DEF IInv, Coupling, TakeForMouse, Prefix, Empty
  <2>3. pc \in {"argument", "ack"} => Took(cmd)'
    BY <1>2, <1>8, <2>2 DEF Took
  <2> QED
    BY <1>2, <2>1, <2>3 DEF Coupling, Prefix, Empty
<1>10. Delivered'
  <2>1. \A j \in 1 .. cmd : ibf = <<"argument", script[j]>> => j = k
    BY <1>1, <1>2, Facts
  <2> QED
    BY <1>2, <1>8, <2>1 DEF IInv, Delivered
<1>11. Obeyed'
  <2>1. ASSUME script[1] = "F5", Took(1)' PROVE ~reporting'
    <3>1. script[k] # "F4" /\ (k = 1 => script[k] # "EA")
      BY <1>2, <2>1, Facts, ScriptShape
    <3>2. k = 2 => Took(1)
      BY <1>1, <1>2, <1>3, <2>1, Facts DEF NoneFrom, Took
    <3>3. ibf[2] = script[k]
      BY <1>1
    <3>4. k = 2 => ~reporting
      BY <2>1, <3>2 DEF IInv, Obeyed
    <3> QED
      BY <1>2, <1>5, <3>1, <3>3, <3>4
  <2> QED
    BY <1>2, <2>1 DEF Obeyed
<1> QED
  BY <1>6, <1>9, <1>10, <1>11 DEF IInv

LEMMA TakeForKeyboardKeeps == IInv /\ TakeForKeyboard => IInv'
<1> SUFFICES ASSUME IInv, TakeForKeyboard PROVE IInv'
  OBVIOUS
<1>1. PICK k \in 1 .. cmd : ibf = <<"argument", script[k]>> /\ Took(k)
  BY DEF IInv, Coupling, TakeForKeyboard, Prefix, Empty
<1>2. /\ ibf' = Empty /\ ~armed
      /\ UNCHANGED <<script, cmd, pc, failed, armed, taken, reporting>>
  BY DEF TakeForKeyboard, driver
<1>3. k \in 1 .. 2 /\ cmd \in 1 .. 2 /\ ibf[2] \in Arguments
  BY <1>1, Facts
<1>4. kbdOut' \in Seq(Answers)
  BY DEF IInv, CommandTypeOK, TakeForKeyboard, Answers
<1>5. strayed' \subseteq Arguments
  BY <1>3 DEF IInv, CommandTypeOK, TakeForKeyboard
<1>6. CommandTypeOK'
  BY <1>4, <1>5 DEF IInv, CommandTypeOK, TakeForKeyboard, driver
<1>7. \A j \in 1 .. cmd : ibf = <<"argument", script[j]>> => Took(j)
  BY <1>1 DEF Took
<1>8. Coupling'
  <2>1. pc \in {"argument", "ack"} => Took(cmd)
    BY <1>1, <1>2, <1>3, <1>7 DEF IInv, Coupling, Prefix, Empty
  <2> QED
    BY <1>2, <1>3, <2>1 DEF IInv, Coupling, TakenShape, Took, Prefix, Empty
<1>9. Delivered'
  BY <1>2, <1>7 DEF IInv, Delivered, Took
<1>10. Obeyed'
  BY <1>2 DEF IInv, Obeyed, Took
<1> QED
  BY <1>6, <1>8, <1>9, <1>10 DEF IInv

(* Steps of the answers: nothing that the commands depend on changes. *)
LEMMA AnswersKeep ==
    ASSUME IInv,
           FillFromMouse \/ FillFromKeyboard
               \/ \E byte \in {"FA", "data"} : MouseMoves(byte)
    PROVE  IInv'
<1>1. UNCHANGED <<driver, ibf, armed, reporting, taken, strayed>>
  BY DEF FillFromMouse, FillFromKeyboard, MouseMoves
<1>2. mouseOut' \in Seq(Answers)
  <2>1. mouseOut \in Seq(Answers)
    BY DEF IInv, CommandTypeOK
  <2>2. CASE FillFromMouse
    <3>1. mouseOut # <<>> /\ mouseOut' = Tail(mouseOut)
      BY <2>2 DEF FillFromMouse
    <3> QED
      BY <2>1, <3>1
  <2>3. CASE FillFromKeyboard
    BY <2>1, <2>3 DEF FillFromKeyboard
  <2>4. ASSUME NEW byte \in {"FA", "data"}, MouseMoves(byte)
        PROVE  mouseOut' \in Seq(Answers)
    <3>1. mouseOut' = Append(mouseOut, byte) /\ byte \in Answers
      BY <2>4 DEF MouseMoves, Answers
    <3> QED
      BY <2>1, <3>1
  <2> QED
    BY <2>2, <2>3, <2>4
<1>3. kbdOut' \in Seq(Answers)
  <2>1. kbdOut \in Seq(Answers)
    BY DEF IInv, CommandTypeOK
  <2>2. kbdOut' = kbdOut \/ (kbdOut # <<>> /\ kbdOut' = Tail(kbdOut))
    BY DEF FillFromMouse, FillFromKeyboard, MouseMoves
  <2> QED
    BY <2>1, <2>2
<1>4. ob' \in Answers /\ obf' \in BOOLEAN
  <2>1. mouseOut # <<>> => Head(mouseOut) \in Answers
    BY DEF IInv, CommandTypeOK
  <2>2. kbdOut # <<>> => Head(kbdOut) \in Answers
    BY DEF IInv, CommandTypeOK
  <2> QED
    BY <2>1, <2>2 DEF IInv, CommandTypeOK, FillFromMouse, FillFromKeyboard, MouseMoves
<1>5. moves' \in 0 .. MaxData
  BY CommandAssumption DEF IInv, CommandTypeOK, FillFromMouse, FillFromKeyboard, MouseMoves
<1>6. CommandTypeOK'
  BY <1>1, <1>2, <1>3, <1>4, <1>5 DEF IInv, CommandTypeOK, driver
<1>7. Coupling'
  BY <1>1 DEF IInv, Coupling, TakenShape, NoneFrom, Took, driver
<1>8. Delivered' /\ Obeyed'
  BY <1>1 DEF IInv, Delivered, Obeyed, Took, driver
<1> QED
  BY <1>6, <1>7, <1>8 DEF IInv

LEMMA NextKeeps == IInv /\ [CommandNext]_commandVars => IInv'
<1> SUFFICES ASSUME IInv, [CommandNext]_commandVars PROVE IInv'
  OBVIOUS
<1>1. CASE Driver
  BY <1>1, WritePrefixKeeps, WriteArgumentKeeps, ReadAckKeeps DEF Driver
<1>2. CASE PortFails
  BY <1>2, PortFailsKeeps
<1>3. CASE Controller
  BY <1>3, TakeCommandKeeps, TakeForMouseKeeps, TakeForKeyboardKeeps DEF Controller
<1>4. CASE FillFromMouse \/ FillFromKeyboard
               \/ \E byte \in {"FA", "data"} : MouseMoves(byte)
  BY <1>4, AnswersKeep
<1>5. CASE UNCHANGED commandVars
  <2>1. CommandTypeOK'
    BY <1>5 DEF commandVars, driver, devices, IInv, CommandTypeOK
  <2>2. Coupling'
    BY <1>5 DEF commandVars, driver, devices, IInv, Coupling, TakenShape, NoneFrom, Took
  <2>3. Delivered' /\ Obeyed'
    BY <1>5 DEF commandVars, driver, devices, IInv, Delivered, Obeyed, Took
  <2> QED
    BY <2>1, <2>2, <2>3 DEF IInv
<1> QED
  BY <1>1, <1>2, <1>3, <1>4, <1>5 DEF CommandNext

-----------------------------------------------------------------------------
LEMMA IInvImpliesOrder == IInv => TakenInOrder
<1> SUFFICES ASSUME IInv PROVE TakenInOrder
  OBVIOUS
<1>1. TakenShape
  BY DEF IInv, Coupling
<1>2. \A i \in 1 .. Len(taken) : \E k \in 1 .. cmd : taken[i] = script[k]
  BY <1>1, Facts DEF TakenShape
<1>3. ASSUME NEW i \in 1 .. Len(taken), NEW j \in 1 .. Len(taken), i < j
      PROVE  \E k, l \in 1 .. cmd : k < l /\ taken[i] = script[k] /\ taken[j] = script[l]
  <2>1. Len(taken) >= 2 /\ Len(taken) \in Nat
    <3>1. Len(taken) \in Nat
      BY Facts
    <3> QED
      BY <1>3, <3>1
  <2>2. Len(taken) = 2 /\ cmd = 2 /\ taken[1] = script[1] /\ taken[2] = script[2]
    BY <1>1, <2>1 DEF TakenShape
  <2>3. i = 1 /\ j = 2
    BY <1>3, <2>2
  <2> QED
    BY <2>2, <2>3
<1> QED
  BY <1>2, <1>3 DEF IInv, Delivered, TakenInOrder

LEMMA IInvImpliesSent == IInv => SentOnReturn
<1> SUFFICES ASSUME IInv, Returned, failed = {} PROVE SentOnReturn
  BY DEF SentOnReturn
<1>1. Took(1)
  BY Facts DEF IInv, Delivered, Returned
<1>2. Len(taken) >= Len(script) - 1
  <2>1. Len(script) = 2 /\ Len(taken) \in Nat
    BY Facts
  <2> QED
    BY <1>1, <2>1 DEF Took
<1>3. script[1] = "F5" => ~reporting
  BY <1>1 DEF IInv, Obeyed
<1> QED
  BY <1>2, <1>3 DEF SentOnReturn

(***************************************************************************)
(* Whatever the mouse and the keyboard answer and however late, for any    *)
(* number of repetitions, and whichever calls fail: the mouse takes the    *)
(* arguments of write_argument_to_mouse in the order of the calls, each at *)
(* most once, and those of calls that did not fail (mouse.c:35-57,         *)
(* lab4.c:237-239).                                                        *)
(***************************************************************************)
THEOREM ArgumentsInOrder == CommandSpec => []TakenInOrder
<1> QED
  BY InitIInv, NextKeeps, IInvImpliesOrder, PTL DEF CommandSpec

(***************************************************************************)
(* When disable_mouse_data or enable_mouse_data returns 0 at most its last *)
(* argument is on its way, and a mouse told to stop has stopped            *)
(* (mouse.c:59-72).                                                        *)
(***************************************************************************)
THEOREM StoppedOnReturn == CommandSpec => []SentOnReturn
<1> QED
  BY InitIInv, NextKeeps, IInvImpliesSent, PTL DEF CommandSpec

(* What the keyboard takes the mouse has taken: without 0xD4 on its way or  *)
(* taken, the mouse has the argument already (Coupling).                    *)
LEMMA StraysKept ==
    IInv /\ StraysWereTaken /\ [CommandNext]_commandVars => StraysWereTaken'
<1> SUFFICES ASSUME IInv, StraysWereTaken, [CommandNext]_commandVars
             PROVE  StraysWereTaken'
  OBVIOUS
<1>1. CASE TakeForMouse
  <2>1. taken \in Seq(Arguments) /\ ibf[2] \in Arguments
    BY <1>1 DEF IInv, CommandTypeOK, TakeForMouse, Empty
  <2>2. /\ strayed' = strayed /\ Len(taken') = Len(taken) + 1
        /\ \A k \in 1 .. Len(taken) : taken'[k] = taken[k]
    BY <1>1, <2>1 DEF TakeForMouse
  <2>3. Len(taken) \in Nat
    BY <2>1
  <2> QED
    BY <2>2, <2>3 DEF StraysWereTaken
<1>2. CASE TakeForKeyboard
  <2>1. PICK k \in 1 .. cmd : ibf = <<"argument", script[k]>> /\ Took(k)
    BY <1>2 DEF IInv, Coupling, TakeForKeyboard, Prefix, Empty
  <2>2. \E i \in 1 .. Len(taken) : taken[i] = ibf[2]
    BY <2>1 DEF Took
  <2>3. strayed' = strayed \cup {ibf[2]} /\ taken' = taken
    BY <1>2 DEF TakeForKeyboard
  <2> QED
    BY <2>2, <2>3 DEF StraysWereTaken
<1>3. CASE ~TakeForMouse /\ ~TakeForKeyboard
  <2>1. strayed' = strayed /\ taken' = taken
    BY <1>3 DEF CommandNext, Driver, Controller, WritePrefix, WriteArgument, ReadAck,
       PortFails, TakeCommand, FillFromMouse, FillFromKeyboard, MouseMoves,
       commandVars, driver, devices
  <2> QED
    BY <2>1 DEF StraysWereTaken
<1> QED
  BY <1>1, <1>2, <1>3

(***************************************************************************)
(* However often write_argument_to_mouse repeats an argument without 0xD4, *)
(* the keyboard gets none that the mouse has not got (mouse.c:42, 47-50).  *)
(***************************************************************************)
THEOREM KeyboardGetsRepetitions == CommandSpec => []StraysWereTaken
<1>1. CommandInit => StraysWereTaken
  BY DEF CommandInit, StraysWereTaken
<1> QED
  BY <1>1, InitIInv, NextKeeps, StraysKept, PTL DEF CommandSpec

(***************************************************************************)
(* No byte in the controller's input buffer is ever written over           *)
(* (the polling of mouse.c:40-41, 48-49).                                  *)
(***************************************************************************)
THEOREM NothingWrittenOver == CommandSpec => InputNeverLost
<1>1. [CommandNext]_commandVars => [KeepsInput]_commandVars
  BY DEF CommandNext, Driver, Controller, KeepsInput, WritePrefix, WriteArgument, ReadAck,
     PortFails, TakeCommand, TakeForMouse, TakeForKeyboard, FillFromMouse,
     FillFromKeyboard, MouseMoves, commandVars, driver, devices
<1> QED
  BY <1>1, PTL DEF CommandSpec, InputNeverLost

(***************************************************************************)
(* The arguments of a sequence of commands reach the mouse in order, each  *)
(* at most once and before any repetition reaches the keyboard; no call    *)
(* that went through loses its argument, and one that failed, even         *)
(* unnoticed, spoils nothing for the next (mouse.c:35-57, lab4.c:237-239). *)
(***************************************************************************)
THEOREM EachReachesMouse == CommandSpec => []MouseGetsEach
<1>1. TakenInOrder /\ StraysWereTaken => MouseGetsEach
  BY DEF MouseGetsEach
<1> QED
  BY <1>1, ArgumentsInOrder, KeyboardGetsRepetitions, PTL
=============================================================================
