-------------------------------- MODULE Rtc --------------------------------
(***************************************************************************)
(* The real-time clock: get_date (proj/src/rtc.c) reads the six registers  *)
(* one after the other, from the year down to the second, once, while the  *)
(* clock goes on.  It does not ask whether an update is in progress, and   *)
(* it drops the result of every port access.  proj_main_loop calls it once *)
(* and chooses sun or moon by the hour (proj.c:120, 200).                  *)
(***************************************************************************)
EXTENDS Integers, Sequences

CONSTANTS
    Clocks, \* runs of the clock: sequences of consecutive times
    Junk    \* bytes read during an update, or from another register

Fields == 1 .. 6 \* year, month, day, hour, minute, second
Times == [Fields -> 0 .. 99]

(* s is before t in its first k fields. *)
Before(s, t, k) ==
    \E f \in 1 .. k : s[f] < t[f] /\ \A g \in 1 .. f - 1 : s[g] = t[g]

ASSUME ClocksAssumption ==
    /\ Junk \subseteq 0 .. 255
    /\ \A c \in Clocks :
           /\ c \in Seq(Times) /\ c # <<>>
           /\ \A n \in 1 .. Len(c) - 1 : Before(c[n], c[n + 1], 6)

VARIABLES
    run, now, updating, \* the clock: its run, the time it shows, an update
    reg,                \* the register selected (0: none of the six)
    next, selected,     \* get_date: the field to read, and if it is selected
    bytes, date,        \* what was read, and the struct Date
    began, spoilt       \* history: now at the call; the fields whose reading
                        \*   failed or met an update

clock == <<run, now, updating>>
rtcVars == <<clock, reg, next, selected, bytes, date, began, spoilt>>

NoDate == [f \in Fields |-> 0]

RtcInit ==
    /\ run \in Clocks /\ now = 1 /\ updating = FALSE
    /\ reg = 0 /\ next = 1 /\ selected = FALSE
    /\ bytes = NoDate /\ date = NoDate
    /\ began = 0 /\ spoilt = {}

(* The registers hold two decimal digits each. *)
Bcd(v) == 16 * (v \div 10) + (v % 10)

convert_bcd_to_dec(bcd) == (bcd \div 16) * 10 + (bcd % 16)

-----------------------------------------------------------------------------
(* Once a second the clock brings its registers up to date, and nothing    *)
(* can be relied on while it does.                                         *)
UpdateBegins ==
    /\ ~updating /\ now < Len(run)
    /\ updating' = TRUE
    /\ UNCHANGED <<run, now, reg, next, selected, bytes, date, began, spoilt>>

UpdateEnds ==
    /\ updating
    /\ updating' = FALSE /\ now' = now + 1
    /\ UNCHANGED <<run, reg, next, selected, bytes, date, began, spoilt>>

Reading == next \in Fields

(* Mutant: from the second up to the year. *)
NthFieldUp(n) == 7 - n

(* The field read n-th: from the year down to the second. *)
NthField(n) == n

Select ==
    /\ Reading /\ ~selected
    /\ reg' = NthField(next)
    /\ selected' = TRUE
    /\ began' = IF next = 1 THEN now ELSE began
    /\ UNCHANGED <<clock, next, bytes, date, spoilt>>

SelectFails ==
    /\ Reading /\ ~selected
    /\ selected' = TRUE
    /\ spoilt' = spoilt \cup {NthField(next)}
    /\ began' = IF next = 1 THEN now ELSE began
    /\ UNCHANGED <<clock, reg, next, bytes, date>>

Registers == IF updating \/ reg = 0 THEN Junk ELSE {Bcd(run[now][reg])}

Read(byte) ==
    /\ Reading /\ selected /\ byte \in Registers
    /\ bytes' = [bytes EXCEPT ![NthField(next)] = byte]
    /\ spoilt' = IF updating \/ reg = 0 THEN spoilt \cup {NthField(next)} ELSE spoilt
    /\ next' = next + 1 /\ selected' = FALSE
    /\ UNCHANGED <<clock, reg, date, began>>

ReadFails ==
    /\ Reading /\ selected
    /\ spoilt' = spoilt \cup {NthField(next)}
    /\ next' = next + 1 /\ selected' = FALSE
    /\ UNCHANGED <<clock, reg, bytes, date, began>>

Convert ==
    /\ next = 7
    /\ date' = [f \in Fields |-> convert_bcd_to_dec(bytes[f])]
    /\ next' = 8
    /\ UNCHANGED <<clock, reg, selected, bytes, began, spoilt>>

RtcNext ==
    \/ UpdateBegins \/ UpdateEnds
    \/ Select \/ SelectFails
    \/ \E byte \in Registers : Read(byte)
    \/ ReadFails \/ Convert

RtcSpec == RtcInit /\ [][RtcNext]_rtcVars

-----------------------------------------------------------------------------
RtcTypeOK ==
    /\ run \in Clocks /\ now \in 1 .. Len(run) /\ updating \in BOOLEAN
    /\ reg \in 0 .. 6 /\ next \in 1 .. 8 /\ selected \in BOOLEAN
    /\ bytes \in [Fields -> 0 .. 255] /\ date \in [Fields -> 0 .. 165]
    /\ began \in 0 .. now /\ spoilt \subseteq Fields

Filled == next = 8

(***************************************************************************)
(* However many seconds pass between the reads (rtc.c:35-51), the date put *)
(* together is never ahead of the clock, as far as no field of it was read *)
(* during an update: the larger units are read first.                      *)
(***************************************************************************)
NeverAhead ==
    Filled => \A k \in Fields : (1 .. k) \cap spoilt = {} => ~Before(run[now], date, k)

(***************************************************************************)
(* Each field that was not read during an update is one the clock showed   *)
(* during the call: so is the hour that chooses between sun and moon       *)
(* (proj.c:200), even if the date as a whole is not.                       *)
(***************************************************************************)
FieldsWereShown ==
    Filled => \A f \in Fields \ spoilt : \E n \in began .. now : date[f] = run[n][f]

(* Nothing but the seconds has changed since the call began. *)
NoCarry == \A n \in began .. now : \A f \in 1 .. 5 : run[n][f] = run[began][f]

(* "the actual date" (rtc.h:47): one that the clock showed, if no read met *)
(* an update and no minute ended during the call.                          *)
ActualDate ==
    Filled /\ spoilt = {} /\ NoCarry => \E n \in began .. now : date = run[n]

(***************************************************************************)
(* No read waits for the end of an update and the six are not repeated     *)
(* (rtc.c:35-51), so a field can be anything and the date one that never   *)
(* was.  Still each field not read in an update was shown, the date is not *)
(* in the future as far as such fields go, and without a carry it is the   *)
(* actual date.                                                            *)
(***************************************************************************)
DateIsRecent == NeverAhead /\ FieldsWereShown /\ ActualDate
=============================================================================
