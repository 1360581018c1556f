# Verification of the stick-figure fighting game

The game is a circuit for an Altera DE2-115 board: two stick figures on a VGA
screen, played by two people on one USB keyboard or by one against the
computer.  The game itself is SystemVerilog.  A soft processor (Nios II) runs a
C program that sets up a USB controller, polls the keyboard and hands its keys
to the game; under that program lies a board support package with drivers,
interrupt code, start-up code and a small library.  All paths below are
relative to `src/Stick_figure_fighting_game/`; `BSP` is
`software/usb_kb_bsp/`.

This directory holds TLA+ modules for the game's logic and for the software,
the configurations with which TLC checks them, and proofs that TLAPS checks.

## The system

| component | state | operations | interacts with |
|---|---|---|---|
| score keeper `hp.sv` | a state register of thirteen values, two bars, `back1`, `back2`, `p1`, `p2` | an edge of the 50 MHz Clk, Reset | reads the bites, dodges and reach; its knockbacks and verdicts steer the fighters |
| move animations `kick.sv`, `fight.sv`, `jump.sv`, `dodge.sv`, `back.sv`, one each per player | a picture number, two free-running counters | an edge of the vertical sync; no Reset | started by a request register; what shows vetoes other requests, the last picture bites or protects |
| facing `state_machine.sv`, `state_machine1.sv` | six states, two registered outputs | an edge of Clk; Reset of the state only | follows the requests; steers reach, knockback direction and the computer opponent |
| flight `gravity.sv`, three instances | four states, a vertical motion | an edge of Clk, Reset | reads rows and the jump request, drives the bodies |
| human fighters `ball.sv`, `ball_second.sv` | column, row, motion, eight one-hot request registers, `start` | an edge of the vertical sync, Reset | keys in, knockbacks and verdicts in, requests out |
| computer opponent `AI.sv` | as a human fighter | as a human fighter, but frozen before `start` | looks at player 1's position and facing |
| choice of the opponent `mode_choose.sv`, `indicator.sv` | `dual`, `single` | an edge of the vertical sync; no Reset | decides whose signals are player 2's |
| wiring `lab8.sv`, `blitter.sv` | pixel registers | | connects all of it; computes who is in reach; draws |
| host-port bus `hpi_io_intf.sv`, `software/usb_kb/io_handler.c` | bus registers, parallel ports | an edge of Clk; `IO_init`, `IO_read`, `IO_write` | between processor and USB controller |
| USB keyboard host `software/usb_kb/main.c`, `usb.c` | the program's position, `toggle`, two key ports | set-up, enumeration in nine transfer lists, polling, hot plugging | writes the keys the game reads |
| JTAG UART driver, `BSP/drivers/` | two rings, `irq_enable`, `host_inactive` | read, write, close, ioctl, interrupt routine, alarm | under `printf`; waits for the host's terminal |
| interrupts, `alt_irq*` | `ienable`, PIE, `alt_irq_active`, `alt_priority_mask`, the table of routines | enable, disable, register, nest, dispatch | drivers' routines over the program |
| exceptions, `alt_exception*` | the stacked registers, a registered routine | entry, the chain of handlers, return | interrupts, emulation, breakpoints |
| instruction emulation `alt_exception_muldiv.S` | a copy of the registers | multiplication and division | exceptions |
| alarms `alt_tick.c`, `alt_alarm_start.c` | tick counter, a doubly linked list | start, stop, tick, callbacks | log, profiler, JTAG UART, time of day |
| time of day, busy sleep | reset time; loop counts | `settimeofday`, `gettimeofday`; `usleep` | ticks; the USB program's waits |
| log `alt_log_printf.c` | level, a transmit FIFO shared with the driver | boot, write, clock and driver messages | start-up, `write`, interrupt handlers |
| small printf `alt_printf.c`, `alt_log_printf.c` | parser state, a character buffer | formatting | log, stdout |
| files and descriptors | the device and file-system lists, the descriptor pool, its mark | the system calls, locks, redirection | drivers, start-up |
| start-up and exit `crt0.S`, `alt_load.c`, `alt_main.c`, ... | memory, caches, registers | from reset to `main` and back | everything above |
| caches; heap; profiler | cache lines; break and stack limit; arcs, slabs, histogram | flushes, uncached memory; `sbrk`; `mcount` and sampling | start-up, library |
| VGA timing, pictures, background, endings, seven-segment display | counters | | drawing only |

The game has two clock domains.  Facing, flight and score keeping step on the
50 MHz Clk; the bodies, the animations and the mode step on the rising edge of
the vertical sync, 840000 Clk edges apart.  Signals cross in both directions
without handshakes.  Reset is KEY[0], asynchronous, and reaches only part of
the registers.  KEY[1] resets the processor, and no memory.  Processor and
game meet in two ports, written one after the other, that hold the keys.

What is hard here: a signal raised on one clock and withdrawn before the other
samples it; decisions taken on what showed one frame earlier; unsigned
arithmetic without clamping; a partial Reset.  In the software: a program and
its interrupt routine, or two nested routines, between any two accesses to what
they share; a controller that is told and answers in its own time; retries
without bound; a keyboard pulled out in the middle; a tick that walks a list
while callbacks change it; a reset that finds memory and caches as the last run
left them; limits that are one off.  `PROJECT.json` lists these hazards at
their lines with the properties that watch them.

What makes each component correct:

- *score keeper*: a bite costs its victim once; bars do not wrap; one reels at
  a time; the verdict is forced by the bars, single, and final.
- *animations, facing, flight*: one move of a fighter at a time; they settle
  between frames; a flight ends on the ground.
- *fighters, opponent*: knockbacks are not lost and throw away from the
  attacker; everything stops after a knockout; the opponent reaches its enemy.
- *USB host*: it judges a list by that list's result, keeps the data toggles in
  step, polls only a keyboard that is set up, and passes on whole reports, all
  of them, through any unplugging.
- *JTAG UART*: bytes arrive once and in order, no wakeup is lost, calls return.
- *interrupts, exceptions, emulation*: what is enabled is served, by its own
  routine; the interrupted program loses no instruction and runs none twice.
- *alarms, time, log*: an alarm is called at its tick; time does not drift; a
  message of a handler is not lost, and logging holds nobody up for ever.
- *files, printf*: no descriptor leaks, a lock keeps others out; numbers are
  printed right.
- *start-up, caches, heap, profiler*: `main` finds memory as linked; flushes
  reach all of their region; heap and stack do not overlap; no arc is lost.

## Modules

| module | models | state |
|---|---|---|
| `HitPoints` | `hp.sv` | `phase` and `attack` (the state register as S_x, is_x or normal, and x), `hpbar`, `back`, `won` |
| `Bout` | nothing of the code: the abstract promise of a bout | bars, whether a blow may count, the winner |
| `Moves`, `Facing`, `Gravity` | the five animations of both players; the two facing machines; the three flights | `metro` (the counters), `moves`; `face`; `grav` |
| `Fighters` | `ball.sv`, `ball_second.sv`, `AI.sv`; extends the three above | `body`, `start` |
| `Match` | the whole game: `Fighters`, an instance `Hp` of `HitPoints`, the mode, reach, both clocks | `mode` and all of the above |
| `UsbHost` | `main.c`, the waiting functions of `usb.c`; controller and keyboard as external | the program (`main`), the controller (`chip`), the keyboard `kb` |
| `TdWalk` | the nine transfer lists of `usb.c`, word by word, under a controller that walks them | controller memory, the keyboard's endpoint |
| `HpiBus` | `io_handler.c`, `hpi_io_intf.sv` | parallel ports, registered pins, the call under way |
| `JtagUart` | the interrupt-driven driver | rings, `driver`, the device's FIFOs, program and interrupt routine |
| `ByteStream` | nothing of the code: bytes asked, accepted, handed over in order | two streams |
| `Irq` | API, entry and dispatcher of interrupts | masks, table, a stack of frames |
| `Exceptions` | exception entry, handlers, return | the program's position and PIE, `ea`, the slot at 72(sp) |
| `MulDiv` | the emulation of multiplication and division | registers before and now, the saved copy, the loops' registers |
| `Alarms` | `alt_tick.c`, `alt_alarm_start.c`, `alt_llist.h` | links, times, roll-over flags, the walk |
| `Countdown` | nothing of the code: every alarm with the ticks it has left | |
| `TimeOfDay`, `BusySleep` | `settimeofday`, `gettimeofday`; `alt_busy_sleep` | ticks and reset time; loop counts |
| `Log` | `alt_log_printf.c` without formatting, `tx_log_str` | FIFO, ring, program, handler, counters |
| `Printf` | both formatters, `alt_putcharbuf` | parser positions, output |
| `Files` | every `alt_*` file of descriptors and devices | lists, pool, mark |
| `Boot` | `crt0.S` to `_exit` | memory, caches, registers, what has been called |
| `Caches`, `Heap`, `Profile` | flushes and uncached memory; `sbrk` with the stack check; `mcount` and sampler | cache lines; `heap_end`, stack limit; chains, slab, histogram |
| `MC...` | constants for TLC, and parts that share a run | |
| `HitPointsProofs`, `MatchProofs`, `UsbProofs`, `JtagUartProofs`, `ProcessorProofs`, `TimeProofs`, `FilesProofs`, `MemoryProofs` | theorems, for a module or for the parts of a run | |

`map` in `PROJECT.json` names, for every definition, the lines it stands for.

### The game

The actions of `Match` are `Tick` (an edge of Clk), `Frame` (an edge of the
vertical sync with a set of keys down) and `Reset`.  A frame requires
`AtRest`: an edge of Clk would change nothing.  That stands for the 840000
edges between two frames, and is not merely assumed: `ClkSettles` says the Clk
side always comes to rest.  A Reset may come at any moment.  What is worth
knowing when reading the modules next to the source:

- The eight request registers of a body are one-hot (every branch sets one and
  clears seven), so they are one variable `act`.
- The branches of `Move_Ball` repeat the same two wall tests; they are
  `RightBlocked`, `LeftBlocked` and `Pushed` here.  The order of the tests
  matters and differs by body and branch; `Motion` keeps it.
- Positions are updated by the *old* motion, as the nonblocking assignments do.
- Every machine starts from its first state, the power-up value the synthesis
  report gives; outputs without a reset value start at 0.
- The copies of the counters in the animations start together and are never
  reset, so one copy of each period is kept.
- With no mode chosen player 2 is the multiplexer's default, at (0, 0) with no
  request.

### The software

The program, an interrupt routine and the hardware are actions of one module
that interleave at every access to what they share.  The processor has one
hart: in `JtagUart`, `Log` and `Profile` the program moves only while no
routine does; in `Irq` the frames of interrupted routines form a stack.  Code
that runs with interrupts off is one action, code that does not is cut at each
access.  The BSP is compiled with -O0, so accesses happen in source order.

`UsbHost`, `TdWalk` and `HpiBus` are three levels of the same conversation:
what `UsbHost` does in one action, writing a list, is the sequence of words in
`TdWalk`, and one word there is one call of `HpiBus`.  `UsbHost` keeps of a
list who it is for, its control byte and its data bit; `TdWalk` checks that the
words say so.

Some of the BSP is not used by this game, or compiled to nothing on this board:
it has no timer (alarms are never started, the UART's timeout is as long as it
can be), no caches, no shadow registers, and logging is off.  The modules model
the code for boards that have these as well; the constants choose.  Settings of
the board: 32 descriptors, standard input, output and error all on
`/dev/jtag_uart_0`, and only `.rwdata` copied at start.

## Runs

Several modules that share no variable are checked in one run: a variable says
which part a behaviour is of, it is chosen at the start and never changes, and
the variables of the other parts stay at a fixed value.  The behaviours of the
run are then exactly the behaviours of each part, so a property of one part,
guarded by the choice, is the property itself.  The modules reached by INSTANCE
state their assumptions as plain definitions; the MC module assumes them for
its instance, so that TLC evaluates them.

| run | parts | what it shows |
|---|---|---|
| `hit_points` | | with inputs free at every edge, the score keeper keeps its inductive invariant (`IInv`) and its verdict (`VerdictIsFinal`), and implements `Bout` with its fairness (`ImplementsBout`) |
| `match` | habits duel, moves, jumps | a fighter makes one move at a time, however fast the keys change (`OneMoveAtATime`); flights end on the ground (`LandsOnGround`); every knockback is taken before it is withdrawn (`KnockbackIsSeen`), and throws the victim away from the attacker (`KnockedAway`) |
| `match_live` | habits knockout with Reset, jumps, chase | after a knockout both stop (`VictoryHalts`); the Clk side comes to rest (`ClkSettles`); the computer opponent reaches a player who runs and slides (`AIClosesIn`) |
| `corner` | violation | a cornered player wraps to column 1023 (`ColumnsOnScreen`) |
| `usb` | program with a prompt controller, with a slow one; lists; bus | `InStep`: a step judges its own list, and the keyboard has its address before anything is asked of it; `PortsAgree`: the game never keeps half of one report and half of another; `NoticeEndsIt`: who waits for a retry has no list under way that could end the wait, only a notice of plugging can; `ListsAreRight`: the controller walks each list to its end with right bits and lengths while it is being rewritten; `WordsArrive`: a word crosses the bus once |
| `usb_live` | staying in; pulled out and put back for ever | `PolledInStep`, `GetsPolled`, `EveryKeyArrives`: a keyboard is polled only when set up and in step, is polled again after every unplugging, and every change of the keys of one that stays in arrives; one that was put back may lose a report, then its data bit and the program's agree again |
| `usb_retry` | violation | a list that met errors is not sent again (`FailedIsRepeated`) |
| `jtag` | send, receive, duplex without clock; send and receive with one | `NeverStuck`: no direction has work and its interrupt off; `ImplementsStream`: bytes once and in order, against `ByteStream`; `EveryCallReturns` |
| `processor` | calling, nesting, exceptions, emulation | `PieIsRight`, `DispatchesRight`: interrupts are on where nobody has turned them off, the registered routine is called with its context, only higher priorities nest; `Served`; `EachOnceInOrder`: the interrupted program runs each instruction once, and no interrupt is handled where it keeps them out; `EmulatesAll`: all operations on all pairs of four-bit operands, and all registers as operands and destination |
| `time` | alarms, wall clock, sleep, log | `WalkInList`, `ImplementsCountdown`: the list walk calls every alarm at its tick; `TimeIsKept`; `LogsRight`: only what the level turns on is logged, a handler's message is never dropped, no end-of-transmission is echoed; `NothingIsHeldUp`: a tick gets to the end of the list, and at every level of the log handlers end, and, while the host keeps up, so do the program's messages; below level 3 `write` returns and the driver's ring is sent |
| `library` | files; printf | `NothingLeaks`, `OneLock`: a descriptor is taken as long as its driver has it open, and a device locked by one at a time, through failing drivers; `FilesRight`: the pool stays consistent, a call changes its own descriptor only, and a lock keeps opens out; `PrintsRight`: both formatters print what the format means, and agree where both can |
| `memory` | heap, start-up on this board, start-up with caches, caches, profiler | `Apart`; `BootsRight`; `CachesRight`; `ProfilesRight`; `AllGoesOn`: start-up gets to `main` and from its end to rest, and no profiled function hangs |

`processor` alone does not check deadlock: an illegal instruction stops the
processor, an emulation ends, and a request that is withdrawn before the
dispatcher looks leaves it searching for ever.

### Bounds, and why they are enough

*Game.*  The passing match runs use small constants: a beat of 3 frames instead
of 11, rests of 4 (30 and 41), runs of 2 columns, an arm of 16 columns, a screen
of 37 columns in a register of 64 values, bars of 3.  What is kept is what the
properties depend on: a knockback is faster than a run, an arm is eight runs
long, the reach is longer than the arm, a bite lasts a beat, the counters have
different periods, a flight takes four frames up, some blows leave a bar alive
and some empty it, and one coordinate wraps.  `corner` uses the real constants,
because there the numbers are the point.  `match_live` has a shorter arm, and
ranges to match, so that the opponent has some way to go.  A habit bounds the
keys that may be down at a frame so that the case it is about happens often;
within the habit any of its key sets may be down at any frame.

*USB.*  The keyboard reports no keys, or one with a key in each of the two
words, so that a mixture is visible.  Lists may meet errors or be refused, the
keyboard may be pulled out whenever the program looks or sleeps.  The lists
have their real words.  The bus has two registers, two values and the least
distance between accesses the program can have.

*JTAG.*  A ring of three bytes, a FIFO of one or two, messages longer than
both: both fill, wrap and drain.  The timeout is one tick and the largest
integer four.

*Processor.*  Two lines, also where routines nest, with withdrawal; two
routines, two calls in a row, two or three requests.  Programs of three
instructions have every kind before and after every other, and interrupts in
both gaps, or kept out by the program.  The loops of the
emulation have the same body at every width; four bits cover both signs, all
carries and every pair of operands.

*Time.*  Three alarms and a counter that wraps every four ticks: while one is
called another is next and a third comes after it, and any delay may cross the
wrap.  A second of twelve
microseconds and three ticks; words of 64; twenty ticks, so that the product
`settimeofday` forms wraps; sleeps of 0 to 127 microseconds in
loops of at most 63 turns.  A log FIFO of two characters that interrupts for
one, so that a handler may find it full, full but for one, or empty; a ring of
three characters, which takes two interrupts to send; messages of three, which
no FIFO holds; an echo of two.

*Library and memory.*  Five descriptors, two beyond the standard three, for
two devices that can be locked and a file system.  The run opens without flags
for `fcntl`, which would multiply its states; the proofs have them.  Eight-bit words in printf, at the limits of signed and
unsigned numbers; formats of two parts, every conversion.  Fifteen words
between heap and stack.  Two words of each section at start-up, on two
processors.  Four lines of
memory, caches of two.  Two functions that hash alike, from two places, two
calls in each context, slabs of three records and memory for four slabs.

The constants of a part stand in the configuration of its run, next to those of
the others, so that the theorems speak of the parts as the run has them.

### Qualifications

The checks brought these to light, and the properties state them:

- `KnockbackIsSeen` is about two humans, and about player 1 against the
  computer: before Enter the computer's body is frozen and misses knockbacks.
- `KnockedAway` is about fighters who are on the screen: behind the wrap of the
  coordinate left is right.
- `OneMoveAtATime` is about the command keys, and its theorem about `TidySpec`,
  where Enter is not held while a move is requested: Enter keeps a request standing, and a
  kick, then a fight, then Enter until the next beat shows two moves at once.
- `AIClosesIn` stops when one of the two has been squeezed off the screen.
- `LandsOnGround` speaks of flights that end.  A jump right beside an opponent
  on the ground is turned down and up without end.  Its theorem is about flights
  one at a time: two in the air side by side turn each other's flight (see
  `RowsOnScreen`).
- `OneReport` needs a controller that works only while the program sleeps: a
  slow one can finish a second poll between the reads of the two words.
- `GetsPolled` needs a keyboard that is pulled out only while it is polled:
  during enumeration the program waits for a list nobody will finish.  It also
  needs a controller on which only the mailbox and the message flag show in
  HPI_STATUS (`OtherBits` FALSE): `main.c:100` takes any bit for the answer, and
  where others are set it may read the mailbox too early, and start over, again
  and again.  The safety run has them.
- `EveryKeyArrives` gives up a report of a keyboard that was put back: it starts
  with its own data bit, the program goes on with its toggle.
- `AIClosesIn` asks only that the opponent comes near.  That it then attacks is
  false (see `AIFights`).
- `PortsAgree` is about the ports once both are written.  Between the two writes
  a frame sees half of each report.
- Every property of alarms but the closed list needs callbacks that do not stop
  the alarm after their own: `alt_tick` has already saved that one as the next,
  so it is called although it is stopped, and as `alt_alarm_stop` has made its
  links point to itself the tick goes round it for ever.  The run keeps such
  callbacks out (`StopsNext` FALSE), and the next section says what it is that
  they break.  A callback stops its own alarm only by answering 0.  Exact times
  need delays below the longest word.
- `NothingIsHeldUp` supposes of the log that the host keeps up (`HostKeepsUp`:
  again and again no handler runs and the FIFO is empty).  Without that the
  clock's messages may fill the FIFO whenever the program looks.  Handlers end
  without it.  That `write` returns, and the driver sends, is said below level
  3: there the message of an interrupt is longer than the FIFO, which is full
  again by the time the driver looks at it (see `OnlySlower`).
- `KeepsTime` needs ticks of whole microseconds, and a clock that is set before
  the product of ticks and microseconds wraps.
- `BootsRight` needs `.rwdata` to be copied (part of `BootAssumption`, and so on
  this board): a reset keeps what the program has made of a section that is not.
- `Apart` needs requests in whole words, and `ProfilesRight` the assumption
  `Roomy`: a heap with room for two records for each call and a slab more, and a
  text section that ends with a bucket.
- `OneLock` says less than the comment on `alt_fd_lock`: see the next section.

## Where the sources say more than the code does

While the modules were written, statements of comments and documents were
stated as properties too.  TLC refutes these; for two of them the runs `corner`
and `usb_retry` do so, for the others the definition is kept in its module with
the quotation, and the table says with which constants a counterexample is
found (those of the part's run where nothing else is said).

| property | what the source says | what the code does | constants |
|---|---|---|---|
| `Match!ColumnsOnScreen` | `ball.sv:12` 'Leftmost point on the X axis' | the wall pushes a cornered player from column 0 to 1023 | run `corner` |
| `Match!RowsOnScreen` | `ball.sv:14` 'Topmost point on the Y axis' | two who jump side by side reverse each other's flight, and a row leaves the screen | those of `corner`, habit `together` |
| `Match!FightersAreDrawn` | `README.md:3` 'make animation smoothly' | a knockback starts while an attack shows, and no branch of `blitter.sv` draws both | those of `match`, habit `trade` |
| `Match!AIFights` | `README.md:3` 'make two figure fighting rationally' | the opponent attacks only who looks away from it; one who stands and looks is never attacked | those of `match`, habit `idle`, `MCFairSpec` |
| `UsbHost!FailedIsRepeated` | `main.c:214` 'Call the appropriate function again if it wasn't processed successfully' | `UsbGetRetryCnt` reads the control byte of the finished list again and again | run `usb_retry` |
| `UsbHost!RepeatsOnlyUnprocessed` | the same | the list is sent again without another look at the flag, though it may be done by then | `Prompt` FALSE |
| `UsbHost!WaitIsAnswered` | `usb.h:92` 'Check and wait until HUSB_TDListDone is read from HPI Data' | the message word is compared whole: done together with a notice is no answer, and is erased | `Notices` TRUE |
| `UsbHost!AckIsOfReset` | `lcp_cmd.h:66` 'I ate it just fine.' | the mailbox is read at once after the reset command: the acknowledgement may be the one before | nothing pulled |
| `JtagUart!ErrorMeansNoHost` | `..._write.c:214` 'Host not connected' | a blocked write fails after one tick without activity, the timeout notwithstanding | a clock, `TimeOut` 2 |
| `Irq!OnlyHigherNests` | `alt_legacy_irq.h:103` 'to allow higer priority interrupts' | `alt_irq_enable` after `alt_irq_interruptible` writes `ienable` without the mask | routines that nest and enable |
| `Irq!EndsOnZero` | `alt_irq_handler.c:117` 'until alt_irq_pending() return zero' | the first pass is made without the test and never ends when the request was withdrawn | withdrawal |
| `Exceptions!SkipsOnZero` | `alt_exception_entry.S:276` 'Return code was 0: Skip.' | 0 issues the instruction again | |
| `MulDiv!MatchesButForListed` | `alt_exception_muldiv.S:60` 'match the instructions, except for the following' | neither `sp` as a source nor `gp` as a destination is listed or works | run `processor` |
| `Alarms!NeverTooEarly` | `alt_alarm_start.c:86` 'prevent the subsequent tick event from causing an alarm too early' | the longest delay is called at the next tick when the counter is at its largest | delays up to `Words - 1` |
| `Alarms!StoppedIsNotCalled` | `alt_alarm.h:73` 'used to unregister a callback' | a tick goes on to the alarm its callback has just stopped | `StopsNext` TRUE |
| `Alarms!TickEnds` | the same | that alarm's next is itself by now, so the loop never comes to the end of the list: the processor hangs in the clock's interrupt | `StopsNext` TRUE, `FairSpec` |
| `TimeOfDay!SetIsRead` | `alt_settod.c:62` 'an immediate call to gettimeofday() would return the value specified' | the product of ticks and microseconds is 32 bits in one and 64 in the other | |
| `BusySleep!SameAsFor` | `alt_busy_sleep.c:36` 'equivalent to for (i=0;i<us*(ALT_CPU_FREQ/3);i++)' | a last loop of 0 turns goes round the whole word | |
| `Log!NothingDropped` | `alt_log_printf.c:97` 'Wait until the device is ready for a character' | the FIFO may be filled between the look and the write | level 2 |
| `Log!OnlySlower` | `alt_log_printf.h:130` 'will slow performance significantly' | at level 3 what `write` has put into the ring may never be sent, however well the host keeps up | level 3, `FairSpec` |
| `Log!FirstAreEchoed` | `alt_log_printf.c:437` 'The first ALT_LOG_WRITE_ECHO_LEN characters' | the last of them is overwritten by the end of the line | level 2 |
| `Log!BeatsEveryInterval` | `alt_log_printf.c:465` 'every ALT_LOG_SYS_CLK_INTERVAL (in ticks)' | one tick more | level 1 |
| `Printf!DumpsAll` | `alt_putcharbuf.c:70` 'Dumps all the chars in the buffer' | what a short write leaves is forgotten | `ShortWrites` TRUE |
| `Files!LockedIsAlone` | `alt_fd_lock.c:43` 'If there are no other open file descriptors which reference the same device' | the loop stops below the highest descriptor | `ALT_MAX_FD` 6 |
| `Files!PrintingIsSafe` | `alt_dev.c:83` 'library calls like printf() will be safe but inefectual' | the null descriptors are read-only, and `write` answers -1 | |
| `Files!CloseUnlocks` | `alt_fd_lock.c:47` 'by calling close() for this file descriptor' | the first three descriptors stay locked | |
| `Boot!FlagIsValid` | `alt_log_printf.c:55` 'alt_log examines this variable before the BSS is cleared' | it is examined before `.rwdata`, where it lies, is copied | `LogFlag` 3 |
| `Boot!EveryWordInitialised` | `crt0.S:163` 'execute initi for each word address' | the loop steps by lines | caches, `Ecc` TRUE |
| `Caches!OnlyItsLines` | `alt_dcache_flush_no_writeback.c:60` 'we've got one more line left' | that line may hold nothing of the region, and is discarded | |
| `Heap!Apart` | `alt_sbrk.c:99` 'adjust the stack limit' | after a request that is no multiple of 4 the limit is never adjusted again | requests of 1 to 3 bytes, 16 bytes of memory |
| `Heap!AlwaysAllocates` | `alt_sbrk.c:46` 'does not perform any bounds checking' | it refuses what exceeds the limit | 16 bytes of memory |
| `Profile!CountsTheCalls` | `alt_gmon.c:52` 'The number of times this arc is executed' | the count is read and written with interrupts on | |
| `Profile!TwoCopiesOfOne` | `alt_gmon.c:178` '(both with count=1)' | one may have been counted up already | |
| `Profile!StartsSamplerOnce` | `alt_gmon.c:153` 'must be able to cope with reentrancy' | a failed start writes over a handler's success | |
| `Profile!SamplesInHistogram` | `alt_gmon.c:260` 'increment the relevant bucket' | the last, incomplete bucket has no place | `s_high_pc` 5, without `Roomy` |
| `Profile!RecordsApart` | `alt_sbrk.c:80` 'Return -1 if it would be exceeded' | the answer is not looked at | `p_heap_limit` 4, without `Roomy` |

## Fairness

- *Game.*  `Match!FairSpec` assumes that the board's two clocks do not stop: as
  long as an edge of Clk changes something it comes, and once nothing changes
  the next frame comes.  The two are never possible together, so one weak
  fairness condition on their disjunction serves both.  Keys and Reset have
  none.  As one of the two can always change something (at rest the counters of
  the animations go on with the frame), the condition comes to this: one of them
  always comes again.  `RunningSpec`, and `MCFairSpec` with the keys of a
  habit, say it that way.  In `HitPoints`, Clk alone is fair.
- *USB.*  The program runs.  The controller answers a command and takes a list
  to its end: a list is started anew while the program polls, so these steps
  are possible again and again rather than all the time; they are strongly
  fair because the program sleeps for milliseconds between two starts, in which
  the controller has time for a whole list.  Nothing is assumed of who pulls the keyboard out,
  but that a run that says so never does.
- *JTAG UART.*  The processor is fair: its interrupt routine gets on, a pending
  interrupt is taken, and the program, which it holds up, gets its turn (strong
  fairness).  The alarm comes where there is a clock.  The host takes what it
  is sent only where the program merely sends and there is no clock: without
  both the driver may wait for ever, and its sources say so.
- *Interrupts and alarms.*  A routine gets on; an enabled request is taken when
  interrupts are on again and again; a tick that has begun gets on.
- *Log.*  The host takes what is in the FIFO, a handler that has begun gets on,
  and an interrupt is taken, and the program gets a turn, if they are possible
  again and again between the handlers (strong fairness, at every level, with
  the clock).  The clock itself is not fair: it may tick at any moment, as often
  as it likes, or stop.  That the host is faster than the clock is no part of
  this: where a property needs it, `HostKeepsUp` stands in it.
- *Start-up and profiler.*  The processor gets on, and somebody stops pressing
  the reset button.

## Proofs

All hold for every value of the constants, under the assumptions the modules
state; where the parts of a run have constants of their own, the theorem is
about the specification of the run and speaks of every part.  What an invariant
has to say besides the property is, each time, the interesting part:

- `HitPointsProofs`: every bar length, every damage table (`Full` positive,
  every cost positive, a dodged blow no dearer than a full one): the type
  invariant, `WinnerIsForced`, `KnockoutIsStill`, `OneReels`, `VerdictIsFinal`,
  and that every step is a step of `Bout` or a stutter.  The argument is the
  inductive invariant `IInv`.  The safety invariants alone are not inductive:
  to know that an empty bar never meets a pending knockback one has to know
  that a bar can only become empty when the counted attack has just moved to
  its is_x state, where the process then freezes, and that the two bars are
  never empty together.
- `MatchProofs`: `OneMoveAtATime` under `TidySpec`, and `KnockbackIsSeen`, for
  every arena, every length of beat, rests and bars, and either opponent.  A
  body may ask for a move while another one shows, but only in the frame after
  the beat, so that the request is withdrawn before the next beat could start
  it; a fighter behind his guard shows nothing else; and the opponent stands
  still until somebody has pressed Enter.  A knockback stands as long as the
  attack that gave it has its pulse, and by the time the pulse is over a frame
  has passed, in which the victim was sent back.

  `RestInEight`: the Clk side is never more than eight edges from rest.  The
  argument is a measure, `Within(n)`: a facing machine settles in two edges and
  its outputs in one more, a flight in three and one, and then the score keeper,
  whose inputs stand still by now, in four: a pulse that has ended makes it look
  again, what it finds counts, may empty a bar, and an empty bar makes a winner.
  From it follow two liveness properties, `ClkSettles` and `VictoryHalts`
  (`ClkComesToRest`, `VictoryComesToAHalt`), under `RunningSpec`, which says of
  the clocks what weak fairness comes to here, and without ENABLED.  Reset does
  not restart the measure, since a Reset at every edge would keep it from going
  down: what Reset leaves (`Fresh`) is one edge from rest, as the fighters start
  out of each other's reach.

  `LandsOnGround`, as long as nobody flies while his opponent does
  (`FliesAlone`, which says so of each fighter; `EachFlightLands` is about one
  fighter whatever the others do among themselves): `FlightInv` says in which
  rows a fighter is in each state of his flight.  A rise and a fall pass the
  same rows, counted from the ground; a jump close to the opponent begins with a
  step into the ground and out of it; and one who falls cannot be turned back,
  since his opponent is below him.  `ClimbAssumption` keeps the apex clear of
  row 0 and of who is not there yet, `Nobody`, at row 0.
- `UsbProofs`, in four parts.  With a prompt controller, `InStep` and
  `PortsAgree`, whatever the keyboard reports, whatever errors transfers meet,
  whichever commands are refused and whenever the keyboard is pulled out and
  put back: the invariant says where the controller can be on a list at all
  (only while main sends it or waits for it), that a done message stands for
  the list that lies in memory and raises the flag main looks at before it sends
  again, and that main starts over only on a keyboard that is not set up.  It
  follows that on such a controller the second wait of `UsbGetRetryCnt` is never
  entered.  With a controller of any speed and no errors, `InStep` and
  `NoticeEndsIt` (`LateInv`): which list the last message stands for, and that
  main has gone past the sixth list only after the keyboard took its address.
  `PolledInStep`, where the keyboard is pulled out only while it is polled: it
  has been set up before main polls, and at every place of main's its data bit
  is either that of the toggle or, while a report is still to come, the other.  `WordsArrive`, on the bus:
  the invariant follows a value from the port to the pin, to the register of the
  interface and back, clock by clock; it needs two clocks between two accesses.
- `JtagUartProofs`: `NeverStuck`, for every length of ring and FIFO, threshold
  and timeout.  A wakeup could be lost between any two of the routine's reads
  and the program's: the invariant says at every label of both what the reader
  still believes of the ring, and that whoever acts last with work left turns
  the interrupt on.  `ImplementsStream`, step by step: the content of ring, FIFO
  and the call under way is the abstract stream (`Passing`: what a call is about
  to put in lies free behind what is there, what it is about to hand over is the
  first of what is there, and the copies are exact).
- `ProcessorProofs`: `PieIsRight`, for any number of lines and depth of nesting,
  from what the saved status of every frame on the stack must be.
  `DispatchesRight`, for routines that nest and make no other call or do not
  nest: the frames are in the order of their priorities, and what is masked is
  what may not interrupt the frame below.  `EachOnceInOrder`, for programs of any
  length under any interrupts, let in or kept out.  `EmulatesAll`, for words of
  every width: at every
  turn of the loops the quotient so far, the divisor and the rest make up the
  dividend, and what has been added to the two halves of the product, with what
  the remaining bits of the multiplier stand for, makes up the product.  The
  lemmas on powers of two are proved by induction over the numbers.
- `TimeProofs`.  *Alarms*: the list stays closed under every interleaving,
  without condition; while no callback stops the next alarm, the walk stays in
  the list and calls every alarm exactly at its tick (`ImplementsCountdown`), for
  any number of alarms and any width of the counter, when no delay is the longest
  word.  Besides the links the invariant has a ranking of the list: it makes "not
  visited yet in this walk" expressible, without which the roll-over flags, which
  the walk clears one by one as the counter wraps, say nothing.  *Wall clock and
  sleep*: `TimeIsKept`; the reset time is the time set less the ticks there were
  when it was set, and the loops spent and to come make up what was asked.
  *Log*: `LogsRight`; a handler that has found space in the FIFO finds it still
  there when it writes, and what is being sent is of a kind the level turns on.
- `FilesProofs`: consistency of the pool, `NothingLeaks`, `OneLock` and
  `FilesRight`, for any devices and any number of descriptors.  Since
  the loops stop below the highest descriptor, `OneLock` needs to be
  strengthened: the locked descriptor is the lowest with its device.
- `MemoryProofs`.  *Heap*: `Apart` and no false report, for every size of memory
  and requests in whole words.  *Caches*: `CachesRight`; every block is in the
  line it belongs in, and uncached memory is whole lines, since a line drawn in
  for its neighbour would else hold some of it; a flush comes past every line of
  its region (`FlushesAll`), one as long as the cache past all of them.
  *Start-up*: `BootsRight` on any number of processors: the copies in flash are
  never stored to, what the loops have cleared or copied so far is right in
  memory or in the cache, and each phase of the start-up has done what the next
  relies on, whenever the reset comes.  *Profiler*: `ProfilesRight`; nothing is
  ever taken out of a chain, so what a call has found stays found whoever
  interrupts it; a count the program has read is at most the present one, and
  that of a handler is the present one since the program stands still; the units
  of an arc's count are at most one for each call; and all records lie below the
  slab pointer, which is at most two for each call.

Only model-checked:

- `KnockedAway`: on which side the victim of a blow stands while the pulse lasts
  is a matter of the geometry of the arena: how far the two may be carried past
  each other by the motions they had when the blow fell, against the length of
  an arm, the reach and the head room.  It does not hold for every value of the
  constants.
- `ListsAreRight`: nine given lists, word by word; `PrintsRight`: `Printf` is
  written with recursive operators, of which the prover knows nothing.
- All liveness but `ClkSettles` and `VictoryHalts`.  Weak and strong fairness
  speak of what is enabled, which is out of the prover's reach; the two are
  proved from a fairness that does not.  So the fairness part of `ImplementsBout`
  stays with TLC, too.

Theorems of the library that take an operator as a parameter cannot be
instantiated by the installed provers.  Where a proof needs induction over
numbers it goes by the least member of a set, which takes none.

## Not modelled

- Pictures, pixels and colours; the title-screen marker; the background
  address; the endings; the seven-segment display.  No state of the game
  depends on them.
- The VGA timing: two free-running counters, of which the game needs only that
  frames come again and again, far apart.
- The branches of the BSP for an operating system, the vectored interrupt
  controller, the exception stack and the UART driver's small variant: they are
  not compiled for this board, and their modules would be about other programs.
- The stubs of the library (`alt_fork.c` and its like), which answer ENOSYS;
  the handlers of fatal memory errors, which stop.
- The inside of the USB controller, of the keyboard, of the host at the other
  end of the JTAG cable and of the processor: they are modelled from how the
  code uses them, and marked external in `map`.
- `alt_remap_uncached`: on this board a call of it does not link
  (`alt_remap_uncached.c:35`).
- Timing in microseconds: a sleep is a point where the other side may go on.
