# LCOMEMORY in TLA+

A verification project for the memory-card game under `src/proj/src` and the
labs 2 to 5 it grew out of.  TLA+ modules model the programs, TLC checks them on
small instances, and TLAPS proves the main results for every value of the
constants: table size, arrangement, lives, frequencies, tick rates, runs of the
clock.

The Minix and LCF (the course's library) headers under `src/.minix-src` are the
interface of external code.  They are used for what they promise, not modelled.

## The system

The program is one Minix process.  After start-up `proj_main_loop`
(`proj.c:165`) receives notifications; each may carry a keyboard, a mouse and a
timer interrupt, served in that order.

| part | code | what it does |
|---|---|---|
| main loop and screens | `proj.c:165-386` | a switch over Menu, Game, Pause, Instructions and Exit, run on every tick |
| table and animation | `game.c:12-92, 245-463, 621-756` | deals, clicks, turning cards with one shared width divisor |
| judging | `proj.c:252-307` | compares the cards that are face up, takes lives, finds the end of the game |
| mouse driver | `mouse.c`, `game.c:141-162` | assembles three-byte packets, moves the pointer, sends commands |
| keyboard driver | `keyboard.c` | keeps the last scancode |
| timer driver | `timer.c` | counts ticks, programs the 8254 |
| real-time clock | `rtc.c` | reads the date once, at start-up |
| video | `video.c`, `pixmap.h` | double-buffered pixels |
| start-up, shut-down | `proj.c:94-163, 388-414` | subscriptions, graphics mode |
| labs 2 to 5 | `lab2` .. `lab5` | earlier exercises with their own copies of the drivers |

Three parts carry the difficulty.  The *animation* turns any number of cards
with one divisor, `increaseWidth`, that every animated card moves in every
frame and that decides when all of them stop.  The *judging* runs in almost
every tick and must take each pair once.  The *mouse* delivers three-byte
packets one interrupt at a time, with errors.

## Modules and code

| module | models | state | actions |
|---|---|---|---|
| `Board` | `cardArray`, `flipCardOnClick`, `flipACardUp/Down`, the judging of open cards | sets of cards: `isFlipped` (face down), `isFlipping`, `flipSuccess`, `otherSide`; `face`, `increaseWidth` | operators used by `GameLoop` |
| `GameLoop` | `proj_main_loop`: three interrupt handlers, five screens | `gs`, `prevState`, `initGame`, verdict, `lives`, the last scancode, the button and what is under the pointer, the tick counter, a program point | `KeyInterrupt`, `MouseInterrupt`, and one action per outcome of a tick: `Menu...`, `Pause...`, `Instructions...`, `Exit...`, `GamePreview`, `GameTick`, `DrawGameCards`, `DivisionFault`, `GamePlay` |
| `MemoryGame` | what a game of memory promises | deal, matched cards, lives, outcome | `Choice`, `Again` |
| `GameInvariant` | the inductive invariant of `GameLoop` | | |
| `MouseDriver` | `mouse_ih`, the skipping at `proj.c:181-186`, `print_mouse_packet`; lab 4 has the same code | `counter`, `is_sync`, `reading_error`, `bytes`; the mouse's own position | `MouseByte` = `Skip`, `Resume` or `print_mouse_packet` |
| `Pointer` | `update_mouse_position`, `getCardsScreenXY`, the tests for cards and buttons | `x`, `y` | `update_mouse_position` |
| `Deal` | `initialize_game_cards` | stage, loop index, faces drawn, the table | `Draw`, `LayCards`, `Shuffle`: one step per `rand()` |
| `MouseTicks` | `MouseDriver` and the timer in one notification (`proj.c:178-194`) | a pending tick, ticks dropped | `MouseMessage`, `TimerMessage`, `TimerInterrupt` |
| `KbcCommand` | `write_argument_to_mouse` and its callers, against the i8042 | where the driver is; input and output buffer; what mouse and keyboard still have to say | `WritePrefix`, `WriteArgument`, `ReadAck`, `PortFails`; the controller's own steps |
| `Timer8254` | `timer_set_frequency`, `timer_get_conf`, `timer_display_conf` of `proj`, labs 2 and 4, and of lab 5 | the call under way; per counter the control word, a first byte, what it counts from (`CountsFrom`: binary or BCD), a latched status | one action per port access and one per failure |
| `Rtc` | `get_date`, `convert_bcd_to_dec` | the clock, the register selected, bytes read | `Select`, `Read`, their failures, `Convert`; the clock's updates |
| `Lifecycle` | what `proj_main_loop` and twelve lab functions take and let go | the function, the call it has come to, what it holds | `Taken`, `LetGo`, `Called`, `LoopEnds`, `Failed`, `FailedReturn`, `CallFailed`, `Panic`, `Return` |
| `ScanReader` | `kbc_ih`, `printSC`, `kbc_print_scancode`, the loop of `kbd_test_scan` | `scancode`, `bytes`, `scancodes` | `Interrupt` |
| `KbdPoll` | `kbd_test_poll`, `kbc_read` | the polling program and the controller's buffers | one action per port access |
| `IdleLoop` | `timer_test_int`, `kbd_test_timed_scan`, `mouse_test_async` | the counter, pending notifications | `Tick`, `Input`, `Served` |
| `RemotePoll` | `mouse_test_remote` on top of `MouseDriver` | `count`, `total_packets`, bytes still to come | `Ask`, `AskFails`, `ReadByte`, `Wait`, `Finish` |
| `Gesture` | the state machine of `mouse_test_gesture` | `counter_exit`, `x_displacement` | `Packet`, one disjunct per state |
| `FrameBuffer` | `vg_draw_pixel`, `vg_draw_hline`, `my_draw_pixel`: which pixels are accepted and where they are in the buffer | | operators used by `Canvas` and `MoveSprite` |
| `Canvas` | rectangles, sprites, `greenPartOfScreen`, the pattern of lab 5 | the call, the buffer as `malloc` left it, `spilled` | one action per row or rectangle; `PatternOfNone` |
| `MoveSprite` | the movement of `video_test_move` | position, `counter`, `done_moving`, the places that show the image | `Frame` |
| `MCGameLoop`, `MCFullTable`, `MCResume`, `MCPointer` | instances of the game and the pointer for TLC | `MCResume` adds the screen of the last press | |
| `MCMouse` | `MouseTicks` and `RemotePoll`: the byte handling in stream and in remote mode | the mode | the steps of the mode |
| `MCGameParts` | `KbcCommand`, `Timer8254`, `Rtc`, `Deal`: the parts of the game beside its loop | which part runs | the steps of that part |
| `MCLabs` | `IdleLoop`, `ScanReader`, `KbdPoll`, `Gesture`, `MoveSprite`, `Canvas`, `Lifecycle` | which test runs | the steps of that test |
| `GameLoop_proofs`, `Pointer_proofs`, `Deal_proofs`, `KbcCommand_proofs` | theorems about the module each is named after | | |
| `MouseDriver_proofs` | theorems about `MouseDriver`, `MouseTicks`, `RemotePoll`, `Gesture` | | |
| `Clocks_proofs` | theorems about `Timer8254`, `Rtc` | | |
| `Graphics_proofs` | theorems about `Canvas`, `MoveSprite` | | |
| `Labs_proofs` | theorems about `IdleLoop`, `ScanReader`, `KbdPoll`, `Lifecycle` | | |

A tick is not one step.  `draw_game_cards` calls a flip function for every
animated card, and each call moves the shared divisor and may end the animation
of all cards; so the drawing is one step per loop iteration (`pc = "draw"` or
`"preview"`), followed by the rest of the Game case (`pc = "play"`).  No
interrupt is received in between: the program has one thread.

How the modules meet: `MouseDriver` says which packets reach the loop and how
often one moves the pointer; `Pointer` says that a position is over at most one
card and one button; `GameLoop` takes *any* button state and any such spot from
a mouse interrupt, so its results hold whatever the two below it deliver.
`Deal` shows that the shuffle yields what `Board` assumes of a deal.
`MouseTicks` and `RemotePoll` extend `MouseDriver`: the same byte handling, once
with the timer in the same notification, once polled.

`MCGameParts` and `MCLabs` put side by side components that share no state.  LCF
starts one test function per process and the game calls its parts one after the
other, so one component runs in each behaviour and the others are at rest; every
property is about one of them.

The labs share texts.  Where two copies differ (scan codes, timer) the module
has both and a variable, `code`, chooses; where they agree there is one.

History variables are not in the code; each module marks its own.  In the game
and the mouse driver there are three.  `mixed` (`GameLoop`) becomes true
when cards are animated up and down at once.  `failed` and `derailed`
(`MouseDriver`) record that an error hit the packet being sent, and that one hit
a third byte or came before the synchronisation.  They name the exact condition
under which a guarantee ends; the runs that expect a violation show that it
really ends there.

Undefined or fatal behaviour: `posInArray`, read uninitialised after a click
beside all cards, is any position of the array.  A division by a zero
`increaseWidth` ends the program (`DivisionFault`, `pc = "killed"`), and so does a
pattern of 0 rectangles (`PatternOfNone`).  Pixels written past the frame buffer
are recorded (`spilled`); what they overwrite is not modelled.

## Runs

| run | expected | shows |
|---|---|---|
| `game_table` | pass | four cards in every arrangement and every order of clicks: matched cards stay up, the divisor is sound, at most two cards are open, a life is lost only for a wrong pair, and the loop implements `MemoryGame` |
| `game_screens` | pass | all keys and button boxes over several games: lives in play are never 0, a verdict is unique and true, every game starts fresh |
| `game_liveness` | pass | the preview ends, Exit leads on, animations end, a finished table is won |
| `mouse_bytes` | pass | *stream mode:* errors on first and second bytes never cost the driver its place; packets are real unless an error hit them; a packet moves the pointer three times at most; a spoilt packet drops one timer tick at most; the skipping ends unless the error hit a third byte.  *Remote mode:* one packet per request; only errors on first or third bytes and failed requests make the program wait for ever |
| `pointer` | pass | how far the pointer leaves the screen, one card and one button at most under it, it follows the mouse up to the borders |
| `full_matched` | violation | on the 16-card table matched cards can end face down |
| `full_lives` | violation | one judging pass can take two lives |
| `full_flips` | violation | an animation can go on for ever |
| `resume_click` | violation | the press that chose Resume also turns the card under the button |
| `mouse_resync` | violation | after "out of sync", a first byte is stored as a third one |
| `game_parts` | pass | *commands:* with stale and late answers and failing ports the mouse takes the arguments in order and each at most once, those of calls that did not fail exactly once; the keyboard gets repetitions only; every call that does not fail ends and takes effect.  *Timer:* the timer counts from the untruncated quotient exactly when its mode and base allow it, no mode changes, what is displayed belongs to the timer asked about.  *Clock:* the date is never ahead of the clock, each field was shown, and without a carry the date as a whole was.  *Deal:* faces differ, every face is on two cards throughout the shuffle, every card can be picked |
| `lab_functions` | pass | *idle loops:* they end in time, one tick early at most, and do end.  *Scan codes:* an error costs no more than the code it hits and the next.  *Polling:* interrupts are back on after the test.  *Gesture:* the lines accepted are as long as asked, but for one case.  *Sprite:* it arrives in every direction, after the number of moves the way needs, leaves no trace unless it hung over the right edge, and stays.  *Drawing:* the visible part is drawn, and exactly one column too many; what is erased is clipped; the pattern tiles the screen; which calls write past the buffer.  *What is held:* a function that returns 0 holds only what it tried to let go in a call whose result it ignored; no loop waits for something it knows it has not subscribed; the game's mouse reports only while it is heard |

### Where the code departs from what it promises

The first three violations start from one window.  `isAnyCardFlipping` is
computed before the judging, and the click is served between the two (`proj.c:252-293`).  A
third card clicked in the tick in which the second has come up turns *up* while
the wrong pair turns *down*, and all three drive one divisor.  The passing
properties exclude exactly this (`mixed`); the rules of `MemoryGame`, the lives,
the verdict and the pairing of matched cards hold even then.

`mouse_resync` needs an error on the very first byte: the skipping ends with
`counter` at 2, and finding the synchronisation does not reset it.

The drivers and the labs depart from their headers in smaller ways.  No run keeps
these as violations; the passing properties name each as the exception, or claim
no more than holds in spite of it.

| code | what happens | property |
|---|---|---|
| `lab4.c:237-243` | the results of the commands are dropped: after a failed call the next one is made, and may use up the 0xD4 left behind; after a failed request the program waits for a packet nobody asked for (`unasked`) | `MouseGetsEach`, `CommandTakesEffect`, `EndsOrStarves` |
| `mouse.c:47-52` | an argument not acknowledged at once is written again without 0xD4 and goes to the keyboard; the mouse does not get it twice | `MouseGetsEach` |
| `mouse.c:52` | an old 0xFA is taken for the answer and 0 is returned with the last argument still on its way; it does arrive | `SentOnReturn`, `CommandTakesEffect` |
| `timer.c:96`, `lab5/timer.c:98` | failed writes are ignored (`ignored`); a byte of the count may then become the mode | `CountAsAsked`, `KeepsLowBits`, `ShowsItsTimer` |
| `timer.c:19-21` | the base of the timer is kept and the quotient is written in binary: a timer in base BCD counts from another number, or from none, and 0 is returned | `CountAsAsked` |
| `lab5/timer.c:64` | "div tem de ser no minimo 2", but a frequency with a quotient of 1 is accepted in modes 2 and 3 | `CountAsAsked` |
| `timer.c:139, 143` | only the last of the masked bits is shifted, so mode 3 is displayed as 5 and mode 4 as 8, though no two modes alike; `timer.h:39` promises 0 to 5, which holds of modes 0 and 1 | `ShowsItsTimer` |
| `rtc.c:35-51` | the registers are read while the clock may turn over: the date need not be "the actual date" (`rtc.h:47`) when a minute ends during the call | `DateIsRecent` |
| `lab3.c:141`, `lab4.c:135`, `lab5.c:105` | results of unsubscriptions and of `vg_exit` are ignored and 0 is returned | `ZeroMeansLetGo`, `SomeoneListens` |
| `lab3/keyboard.c:34` | a spoilt byte is kept in `scancode`: it can be taken for a code or end the scan | `PrintsAsSent` |
| `lab3.c:93` | a key hit after ESC (`late`) is read as the command byte | `InterruptsBack` |
| `lab4.c:247` | in remote mode a skipped byte is not counted (`hitEnd`), and the program waits for a fourth one | `EndsOrStarves` |
| `lab4.c:213` | a gesture given up at its very end (`abandoned`) leaves its length to the next | `LinesAreLong` |
| `lab5.c:361` | a sprite that has to go left or up jumps to its end in the first frame in which it moves, however slow it is | `Arrives` |
| `lab5.c:337-369` | `vg_draw_rectangle` gives up where the sprite hangs over the right edge (`overhung`) and its result is dropped: traces stay | `Arrives` |
| `video_gr.c:97` | a pixel one column past the border is accepted and shows in the next row; one of the row past the last is written past the buffer | `DrawnAsAsked` |
| `video_gr.c:37` | the buffer is not cleared: the "black stripe" of `lab5.h:61-63` is black only if `malloc` handed out zeros | `DrawnAsAsked` |
| `lab5.c:167` | a pattern of 0 rectangles is a division by zero | `DrawnAsAsked` |

Several are harmless in the game: it clips what it erases (`GreenClips`, a part of
`DrawnAsAsked`), uses only the hour of the date (`FieldsWereShown`, a part of
`DateIsRecent`) and never reprograms its timer.

Two further behaviours contradict no document, so no run expects them to fail.
An error on a third byte takes `counter` past 2 and the mouse is dead from then
on (`RecoversOnBytes` names that case).  The lower clamp of the pointer
(`game.c:156`) tests the move with its sign reversed: moving down, the pointer
leaves the screen by up to 384 lines; moving up near the lower border, it is put
15 lines above the border (`PointerInReach` and `FollowsMouse` name both).

## Bounds

- `N = 4` cards, `FlipLimit` 2 or 3 in the passing runs of the game: two pairs
  are the least with a wrong pair, a right pair and a third card.  The theorems
  cover every `N`.  The violation runs use the program's 16 cards and limit 10,
  with three cards within reach and one arrangement; the proofs do not depend on
  these.
- `PreviewTicks`, `VictoryTicks` are 4 and 2 for 240 and 120.  What matters is
  that one divides the other and both are even; the proofs assume that.  The
  tick counter is kept modulo `PreviewTicks`, all that the code looks at.
- `MaxLives` 1 or 2 (5), `LifeModulus` 8 for 2^32: larger than the lives one
  pass can take.
- `Runaway` holds a falling `increaseWidth` at `-Runaway`: below zero no test of
  the code tells the values apart.
- `Packets = 3`: packets are told apart from the one before and the one after.
  `CounterBound = 4`: above 2 no test tells the values of `counter` apart;
  `counter` is an `int`, which 2^31 bytes would overflow.
- `pointer` uses the real 800 by 600 screen and four deltas, the two extreme
  ones among them; nearly every reachable position occurs.
- Deal: 3 faces out of 4, 6 cards, `RAND_MAX = 37`: a draw can repeat any earlier
  one.  `RAND_MAX` must be at least the square of the number of cards; 32767 is.
- `MaxData = 2` bytes of movement and `MaxQueue = 2` answers of the keyboard: an
  answer of either can come before, between and after the arguments.
- `Freqs` holds both ends of the range accepted, one beyond each, and two between
  (the quotients 596 and 5: several digits in BCD, and one); `MaxCalls = 2` lets a call find what an earlier one left behind.
- `Clocks`: three seconds across the turn of an hour, of a year and of neither.
- `HZ = 3` ticks in a second (60), up to 2 seconds and 3 bytes of input.
  `MaxIdle` holds a history counter above the longest time asked for.
- `Cnt = 6` packets in remote mode: twice the packets told apart.
- `MaxKeys = 4` scan codes, any of them before or after ESC.
- Gesture: `MinDisplacement` cuts off lines that go back further than 6; the
  deltas run from just beyond the tolerance, which breaks a line, over 0 to 3.
- Sprite: every straight path on a screen of 4 by 3, images of up to 3 by 3
  (`MaxSide`), so that they hang over both edges, speeds up to 3 either way.
  Drawing: the same screen, every figure on it or up to `Margin = 2` pixels beyond,
  patterns of 0 rectangles up to more than the screen has columns.  Arguments near 2^16, where `x + i` wraps round, are outside the bounds.
- `Lifecycle` and `ScanReader` have no constants: their state space is the whole
  one.
- `SYMMETRY` permutes faces, in runs without liveness only.
- `CHECK_DEADLOCK FALSE` wherever a program or a function ends.

## Fairness

`GameLoop` assumes weak fairness of the timer's step only: the 8254 goes on
interrupting and the loop serves it.  Nothing is assumed of the player.
`MCMouse` assumes that in stream mode the mouse goes on sending bytes, spoilt or
not, and only for `RecoversOnBytes`; a mouse at rest leaves the driver where it
is.  In remote mode the program runs and the mouse sends what it was asked for
(weak).

- `KbcCommand`: the program runs and the controller empties its input buffer
  (weak); the controller does not hold an answer of the mouse back for ever in
  favour of the keyboard's (strong, because the keyboard's answers to the
  repetitions may fill the output buffer in between again and again).
- `IdleLoop`: the timer ticks and the program is told (weak).
- `MoveSprite`: the timer goes on (weak).

No fairness is assumed of a user, of errors, or of failing calls.

## Proofs

Assumptions: `BoardAssumption`, `LoopAssumption` (a deal consists of pairs, the
limits are positive and ordered, a preview period is even and a multiple of the
victory period), `DriverAssumption`, and `PointerAssumption` (at least 15 by 15
pixels, deltas of nine bits).  Every run of a module evaluates them.

**The game** (`GameLoop_proofs`).  None of the properties of the table is
inductive: whether the divisor is 1 when an animation stops depends on how many
cards move it and from where.  `IInv` says which phase the table is in: `Still`,
`TurningUp` (one card), `TurningBack` (a wrong pair; the divisor is odd, because
two cards move it by two, and so cannot jump over 1) or `TurningAll` (after the
preview, when one frame ends the animation).  One lemma per action shows that it
leads from a phase to a phase.  From `IInv` follow `TypeCorrect`,
`LivesAreSound`, `VerdictIsSound`, `FreshStart`, `MatchedSafe`, `WidthSafe`,
`TwoOpen` and `OneLifePerWrongPair`; `Refinement` shows that every step is a step
of `MemoryGame` or changes nothing there.  `FlipsAdvance` is the variant behind
`FlipEnds`: without mixed animations, drawing an animated card ends the animation
or moves the divisor the way it has to go, and no other step touches either.

**The mouse** (`MouseDriver_proofs`).  `IInv` adds to the properties that only a
spoilt packet is skipped, that no byte but a first one comes before the
synchronisation, and that a packet has moved the pointer at most once per byte
counted since.  `KeepsPhase`, `KeepsPlaces`, `MovesThrice` and `RealPackets`
follow, for any number and pattern of errors.  `SkipsOneByteOrForEver` is the
argument behind `RecoversOnBytes` and its exception: a byte is skipped with
`counter` at 1, and the next ends the skipping, or with `counter` past 2, and
none does.

`MouseTicks` and `RemotePoll` reuse `IInv`; one lemma (`TrackedByte`) says what a
byte does to a driver on track, by its position.  `OneTickDropped` follows from
it by adding that a dropped tick belongs to the packet under way.  In remote mode
`RemoteInv` couples the bytes the program has counted with those the mouse has
sent: they add up to three until an error hits a first or a third byte, and to
less from then on, so that the inner loop is not left any more; after a request
that failed the mouse has nothing to send.
`OnePacketPerRequest`, and `SecondByteIsHarmless`, the safety half of
`EndsOrStarves`.

**The gesture** (`MouseDriver_proofs`).  `LinesAreLong` speaks of states 2 and 5
and later ones only; `GestureInv` carries through all the states that the sum
kept by the program is the length of the line under way, except for a first line
after an attempt abandoned at its very end.  `GestureIsLong`, for every `x_len`,
tolerance and sequence of packets.

**The pointer** (`Pointer_proofs`).  `InReach`, `OneSpot` and `Follows`, for
every resolution and every sequence of packets.

**The deal** (`Deal_proofs`).  `IInv` adds the progress of the two loops and that
the faces kept are drawn ones and differ.  Two lemmas carry the argument: swapping
two cards keeps every face on exactly two cards, and the quotient of `game.c:87`
maps `0 .. RAND_MAX` onto the cards that are left.  `FacesDiffer`,
`TableIsPaired`, `PickIsOnto`.

**Commands to the mouse** (`KbcCommand_proofs`).  The invariant couples the
driver's position with the controller: whether the 0xD4 of the current command
is in the input buffer, has been taken, or has been used up tells how many
arguments the mouse has taken, also when the 0xD4 is that of a call that failed
(`Delivered` speaks of the calls that did not).  `EachReachesMouse` (from
`ArgumentsInOrder` and `KeyboardGetsRepetitions`), `StoppedOnReturn` and
`NothingWrittenOver`, for any number of late answers and repetitions.

**The timer** (`Clocks_proofs`).  `TimerInv` says that a status read or
latched carries the low bits of its counter unless a failure was ignored, that
timer 0 stays in mode 3 (on which the copy of lab 5 depends), and how much of the
count is written.  `CountExact` says when a word means the same in binary and in
BCD: up to 9.  `CountIsQuotient`, `ModeIsKept`, `DisplayIsTrue` (the mode and
base displayed depend on the low bits alone), `Widths`, for every set of
frequencies from the assumption `TIMER_FREQ < 19 * 65536`.

**The clock** (`Clocks_proofs`).  `DateInv` compares the fields read so far with
the time shown now, as a lexicographic prefix; reading from the year down keeps
it when the clock moves on.  `RecentDate` (from `DateNotAhead`, `EachFieldShown` and
`WholeDate`: fields shown at different times agree when none but the seconds changed), for every increasing run of the clock.

**The idle loops** (`Labs_proofs`, `IdleInv`).  The counter and the ticks since the last
byte differ by one at most; in `timer_test_int` the messages printed are the whole
seconds counted (`SecondsCounted`).  `InTime` (from `NotTooEarly`, `OnTime` and
`CountedIsPrinted`), for every tick rate.

**Scan codes** (`Labs_proofs`).  `InStep` says that the reader is where the
keyboard is after every code, and every first byte, that no error has hit,
whatever the error before left in `bytes` and `scancodes`.  It is stated once for
both texts.  `PrintedAsSent`.

**Polling** (`Labs_proofs`).  `PollInv` couples each place of `kbd_test_poll` with
the controller: which byte is in the input buffer, whether the answer to 0x20 is
on its way, whether the argument of 0x60 is awaited.  `InterruptsAreBack`, for
any number of keys.

**What is held** (`Labs_proofs`).  `HeldInv` reads off the calls made so far what
a function holds while it has met no tested failure.  It uses nothing of the
functions but that each is a sequence of calls.  `LetGoOnZero` adds a fact about
the texts, looked up function by function (`AllLetGo`: whatever is taken is asked
to be let go later on, with or without a test).  `ListenedTo` adds a fact about the texts, looked
up function by function (`AllLoopsPrepared`: what a loop waits for is taken before
it and nothing is let go in between), and where the game has told its mouse to
report (`GameHolds`).

**Drawing** (`Graphics_proofs`).  The lemmas about the buffer connect it with the
screen: different pixels of the screen have different places (`PlaceUnique`), and
a place on the screen is painted by its own pixel or by the one a column past the
row above (`SeenAt`).  `RowsInv` and `GreenInv` say that the rows drawn so far are
shown, visible part and wrapped column or clipped, and whether one of them lay
past the buffer; `PatternInv` that the rectangles before the current one have
their colour and all else is as it was, for which no pixel may lie in two of them
(`CellUnique`).  `CanvasShowsFigure`, for every resolution, argument and number of
rectangles.

**The moving sprite** (`Graphics_proofs`).  `ShownInv` says that the image is shown
where the sprite is, and nowhere else unless it was erased where it overhung (the
rectangle that erases it covers the image otherwise, `ErasesImage`); `PaceInv`
couples the number of moves with the way gone.  `SpriteStopsAtEnd`: the sprite
stops at its end only, after as many moves as the way needs.  `SpriteAdvances`: it
comes forward in every frame that moves it and never past the end.  The coordinates are
`uint16_t` and the displacement is added before the test against the end, hence
the assumption that a resolution and `MaxSpeed` add up to 65536 at most: the sum of
a coordinate of the screen and a speed does not wrap around.  The mode of lab 5 has
1024 by 768 pixels and a speed is an `int16_t`, so this holds with room to spare.

The assumptions of these modules (`DealAssumption`, `CommandAssumption`,
`TimerAssumption`, `ClocksAssumption`, `IdleAssumption`, `CntAssumption`,
`GestureAssumption`, `KeysAssumption`, `ScreenAssumption`, `MarginAssumption`,
`MoveAssumption`) give the
constants their types, and besides `RAND_MAX >= N * N`, the bound on `TIMER_FREQ`
above, that consecutive times of the clock increase, a screen of at least one
pixel, and the bound on the sprite's coordinates.

Every safety property of a passing run is stated by a theorem.  Only
model-checked are the violations, which are single behaviours, and the liveness
properties, which need fairness and so are out of the prover's reach.  For some
of these the step that makes them true is a theorem: `FlipsAdvance` for `FlipEnds`,
`SkipsOneByteOrForEver` for `RecoversOnBytes`, `SecondByteIsHarmless` for
`EndsOrStarves`, `SpriteAdvances` and `SpriteStopsAtEnd` for `Arrives`.  For
`PreviewEnds`, `ExitLeads`, `AllMatchedWins`, `CommandTakesEffect` and
`EndsWhenIdle` there is none.

## Not modelled

- Images and colours: `pixmap.h`, the letters, pointer, screens, hearts and
  background drawn by `game.c:114-139, 164-243, 278-304, 543-620`,
  `vg_draw_card`, the colour formulas of `lab5.c:139-185`, the copy to video
  memory.  No other part reads them.  Where the drawing of cards changes state
  (the flip animation) it is in `Board`.
- The Minix and LCF headers (`src/.minix-src`): declarations of external code.
- Failing port reads inside interrupt handlers; the commands, the timer and the
  clock have theirs.
- Functions nothing calls: `flipAllCardsDown` of `game.c`, `writeCommand` of
  `keyboard.c`, `kbc_read` of `mouse.c`, `rtc_subscribe`, `rtc_unsubscribe`.
  `kbcEnableInterrutpt` and `readData` take the steps of `KbdPoll`.
- Lab 3 does not link as it is: `lab3/keyboard.c` lacks `kbc_read`,
  `kbc_print_scancode` and `cnt`.  `KbdPoll` takes the ones of lab 5.
- Late acknowledgements of `KbcCommand` are not composed with the byte handling
  of `MouseDriver`: `SentOnReturn` says how much can be left, `mouse_bytes` what
  a byte out of place does.  In the same way `RemotePoll` leaves out an
  acknowledgement of a request that was not read, which `mouse_ih` would take for
  a byte of the packet.
- `posInArray` outside the array (`game.c:754`).
- What holds of an animation after `mixed`: the runs show what can go wrong, and
  no invariant of it is proved.
