# Pong on an FPGA: a verification development

The repository is a two-player Pong for a MAX10 board. Hardware (SystemVerilog
in `src/quartus_files/`) moves the ball and the paddles and draws the picture;
a Nios II program (`src/software/finalProject/`) runs a USB host on a MAX3421E
and tells the hardware which keys of the keyboard are held. This directory holds
TLA+ models of it, the TLC configurations that check them, and proofs that the
TLA+ proof system checks.

## 1. The system

| part | source | state | operations | interacts with |
|---|---|---|---|---|
| ball | `ball.sv` | position and motion (10 bits each), four edge locks (6 bits), two hit flags, two scores (4 bits), `newGame`, `resetBall`, `endGame` | one `always_ff` block: reset, end screen, serve, play | reads keycode and paddle positions every frame; `resetBall` resets the paddles; its registers are drawn |
| paddles | `paddle.sv` | position and motion of two paddles | one `always_ff` block: reset, frame | reads four key bits; cleared by `Reset` and by `resetB` of the ball |
| top level | `topLevel.sv` | none of its own | wiring: `VGA_VS` is the frame clock of ball and paddles, `KEY[0]` resets everything | all parts |
| VGA controller | `vgaController.sv` | `hc`, `vc`, `hs`, `vs`, `clkdiv` | pixel clock, reset | `vs` clocks the game; `hc`, `vc` address the picture |
| colour mapper | `color.sv` | none (combinational) | what a pixel shows | reads the registers of the game and the position of the beam |
| ROMs, seven-segment driver | `numRom.sv`, `screens.sv`, `hexDriver.sv` | none (constant tables) | | colour mapper, board |
| USB host state machine | `usb_kb/transfer.c` (`USB_Task`), `usb_kb/MAX3421E.c` | `usb_task_state`, `devtable`, `usb_delay`, `tmp_addr`; registers of the chip | detach, attach, settle, bus reset, enumerate, probe drivers; interrupt handler | device on the bus, main loop |
| USB transfers | `usb_kb/transfer.c` | data toggles in the endpoint records | dispatch a packet with NAK and retry limits and a deadline; control and IN transfers | host state machine, HID drivers |
| register access | `usb_kb/MAX3421E.c`, `altera_avalon_spi.c`, `finalProject_soc_spi_0.v` | credits and lengths of a command; holding and shift registers of the core | read or write a register of the MAX3421E, one byte or several | every part that touches the chip |
| system clock | `alt_tick.c`, `alt_alarm_start.c`, `altera_avalon_timer_sc.c` | tick counter, alarm list | tick, start an alarm, call it back | the waits of `transfer.c`, the console |
| HID drivers | `usb_kb/HID.c` | `hid_device`, `hid_ep` | probe keyboard or mouse, poll a report | host state machine, main loop |
| main loop | `main.c` | `runningdebugflag`, `errorflag`, `device`, the four `...Set` flags | run the tasks, poll the keyboard, publish key bits and keycode, initialise again after a disconnection | writes the ports the hardware reads |
| console | `altera_avalon_jtag_uart_write.c`, `..._init.c`, `finalProject_soc_jtag_uart_0.v` | two rings, the enabled interrupts, `host_inactive`; two FIFOs of the core | write, interrupt handler, callback once a second | every `printf`; a host that may be absent |

Of the board support package (`software/finalProject_bsp`) and the generated system
(`finalProject_soc`) only the three drivers and cores above keep state that the
program depends on; the rest, and the build products, are in section 6.
The map report of the build (`output_files/finalProject.map.rpt`, inverted
registers) shows that the registers power up with their reset values, and that
`ballExtra` is stuck at zero.

What is hard in it, in short (`PROJECT.json`, "hazards", has each at its line):

* the geometry of the ball: one-column collision tests against a ball that moves
  seven columns at a time, bounces, hits and points that compete for the same
  registers in one frame, locks that keep an edge from acting for 63 frames,
  unsigned positions that nothing clips;
* the order of events around a point: the winning score is noticed a frame after
  it was counted, a serve comes before the end screen, the paddles are cleared
  asynchronously by a register of the ball;
* clocks: the game runs on the vertical sync pulse, and Reset makes one of its own;
* the USB host: devices come and go at any moment, transfers are refused, lost or
  time out, and flags are read and cleared by different functions;
* the drivers under it: rings shared by a program and an interrupt handler, a core
  that drops what it has no room for, status bits read before the step that uses
  them, a tick counter that wraps round and a product that wraps round faster.

## 2. Modules

| module | role |
|---|---|
| `Court` | parameters of `ball.sv` and `paddle.sv`, extents of the paddles, ten-bit arithmetic |
| `Ball` | `ball.sv`; one action per branch: `BallReset`, `EndScreen`, `Serve`, `Play` |
| `MatchRules` | abstract specification of a match: title, serve, rally, points, game over, rematch |
| `Paddle` | `paddle.sv`: `PaddleReset`, `PaddleFrame` for both paddles |
| `Pong` | both on one frame clock, as wired in `topLevel.sv`: `FrameClock`, `PressReset` |
| `Picture` | `color.sv`: which part of the picture a pixel shows |
| `Vga` | `vgaController.sv`: `PixelClock`, `Reset` |
| `UsbHost` | main loop, `USB_Task`, `MAX_busprobe`, `MaxIntHandler`, `MAX3421E_init` against the chip and a device that comes and goes; one action per case of the state machine |
| `HostPhases` | abstract specification of the enumeration: attached, reset, described, addressed, configured, running; addresses given and forgotten |
| `Xfer` | polls (`XferInTransfer`) and control requests (`XferCtrlReq`, `XferCtrlData`, `XferCtrlND`) by way of `XferDispatchPkt`, over a bus that loses things; one action per result of a transaction |
| `Delivery` | abstract specification of polling: every report once and in order |
| `Keys` | publishing of a keyboard report on five ports, one action per kind of write |
| `KeyPorts` | abstract specification of the ports the game reads |
| `Spi` | the four register functions of `MAX3421E.c`, `alt_avalon_spi_command` and the core that shifts the bytes |
| `SysClock` | the timer interrupt, `alt_tick` and `alt_alarm_start` with the alarm of the console |
| `Countdown` | abstract specification of an alarm: it rings when its ticks have passed |
| `Waits` | the settle time and the deadline of a transfer, on the clock of `SysClock` and made of the commands of `Spi` |
| `JtagUart` | the console driver, its interrupt handler, the core and a host that reads, types, pauses or is absent |
| `CharStream` | abstract specification of the console: characters arrive in order, none lost and none twice |
| `MCBall`, `MCPong`, `MCVga`, `MCUsbHost`, `MCXfer`, `MCKeys`, `MCWaits`, `MCJtagUart` | values of the constants for TLC |
| `...Proofs` | theorems and their proofs: `BallProofs` (with `Picture`), `PongProofs` (with `Paddle`), `VgaProofs`, `UsbHostProofs`, `XferProofs`, `KeysProofs`, `WaitsProofs` (with `SysClock` and `Spi`), `UartProofs` for `JtagUart` |

`Ball` and `Paddle` extend `Court`. `Pong` extends `Paddle` and takes the ball
with `TheBall == INSTANCE Ball WITH PaddleHeights <- PaddleReach \X PaddleReach`:
the ball alone is told only that the paddles are somewhere in their reach, and
`Pong` is shown to implement it. `Picture` extends `Ball`: the picture is a function
of its registers. `Waits` extends `SysClock` and `Spi`: timer interrupts fall between
any two steps of a command. Six modules instantiate the abstract specification
they implement: `Ball` takes `MatchRules` with a phase computed from `newGame`,
`endGame` and `resetBall`; `UsbHost` takes `HostPhases` with a phase computed from
`usb_task_state` and the addresses in use in `devtable`; `Xfer` takes `Delivery`;
`Keys` takes `KeyPorts` with the values the report asks for; `SysClock` takes
`Countdown` with the distance of the alarm across the wrap of the counter;
and `JtagUart` takes `CharStream`. The software modules meet at narrow places: what is
one step of `UsbHost` is a sequence of transfers of `Xfer`; the result "no answer" of
`Xfer`, and the passing of the settle time of `UsbHost`, are what `Waits` times; a
transaction of `Xfer` is the commands of `Spi` that `Waits` issues for it; a report
`Delivery` hands over is what `Poll` of `Keys` receives; and the ports of `Keys` are the
inputs of a frame of `Pong`, which allows any.

Definitions named `...Slip` are wrong versions of the definition that follows
them: values or statements a change of the code could plausibly produce. Putting
a slip in the place of its definition makes a property of some run fail
(`PROJECT.json`, "mutants"); no specification uses them.

### How the models read the code

* **A step is a clock edge.** Non-blocking assignments become primed variables;
  where several statements of `ball.sv` assign one register, the model states
  which assignment wins (`XMotionAfter`, `YMotionAfter`, `EdgeCount`). A reset is
  asynchronous and is a step of its own; holding it is repeating it or doing
  nothing.
* **Arithmetic.** A register keeps its low ten bits (`W10`), so motion to the left
  is 1017. The edge tests are ten bits wide and wrap as well; the paddle tests
  have an `int` on one side and are 32-bit and unsigned (`UnsignedLe`). The spin
  `(Ball_Y_Pos - Paddle1Y) >> 3` is a logical shift of a 32-bit number whose low
  ten bits are kept, which is the floor of an eighth modulo 1024 (`Spin`); the
  `int` is never negative, so the branches for negative spins are dead.
* **The initial state** of the hardware is the reset state, which is also the
  power-up state. The program starts once; `KEY[0]` does not reset it.
* **Inputs.** The keycode and the key bits are whatever the ports show in a frame.
  In `Ball` alone the heights of the paddles are inputs as well.
* **Program and chip.** The program is one thread; a step of it is the code
  between two places where what the bus does can make a difference. In `UsbHost`
  these are the read of `HIRQ`, the probe of the bus, the clearing of the flags,
  a step of `USB_Task` and the branch of `main` after it; `pc` says which is next.
  The flags of the chip (`CONDETIRQ`, `BUSEVENTIRQ`, `FRAMEIRQ`), the bus reset
  and the lines are modelled as this code reads and writes them. `MAX_busprobe` does not
  look at the lines but at the chip's last sample of them (`sampled`): its own `SAMPLEBUS`
  is commented out (`MAX3421E.c:157`), and the program writes it only at
  `MAX3421E.c:214` and in `WaitForDevice` (`transfer.c:266`). So the models assume, as the
  code must, that the chip samples the lines when it raises `CONDETIRQ`. While it resets
  the bus it holds the lines low itself; it then notices at the end of the reset
  that something else is plugged in. The reset may raise `CONDETIRQ` on its own, as the
  comment at `MAX3421E.c:164` says.
* **Devices.** `Plug(d)` puts any device on the bus at any moment, or none, or
  shorts it; going from one device to another stands for two changes of which
  the program sees only the last. A device answers at its address, at the speed
  of the host, once it has been reset; a transfer to anything else fails, and so
  may any transfer to a device in `Flaky`. A step of `USB_Task` with its control
  transfers succeeds or fails as a whole. `SetAddress` may reach the device
  although the program sees an error.
* **The driver that fits** is part of the device (`Driver`): the walk over the
  configuration descriptor is abstracted to its outcome. A driver that fails to
  configure the device keeps the entry it has changed (`Bind`).
* **Transfers.** In `Xfer` device and chip follow the rules of USB, which are not in
  the repository: the device takes every SETUP and starts afresh with it, carries
  a command out before it confirms it in the status stage, and repeats a packet
  until it sees it acknowledged; the chip acknowledges but does not store a
  repeated one. The program reads the toggle back with the last packet of a
  transfer only. Requests and polls come in any order, which includes the order
  of `USB_Task` and `main`.
* **Commands to the chip.** The bytes of a command are numbered by their place in
  it, on the way out and on the way back. The core shifts at any speed. The
  program reads the status, and acts on it later.
* **Interrupts.** In `JtagUart` the program and the handler take steps between two
  accesses to what they share; the handler runs to its end before the program
  goes on, and the callback of the alarm runs between two steps of the program.
* **The clock.** One constant, `Interval`, is both the 1000 of `nticks * 1000` and the
  ticks of a second, as the timer of this system ticks once a millisecond; the
  product is cut to a word before it is divided. The clock of the waits then
  counts from 0 to `LastMs` and starts again with each round of the product. A turn
  of a waiting loop may take up to `SettleTurn` or `XferTurn` ticks, constants of any
  size. The loop that waits for a device to settle is the whole main loop, which prints in every
  turn (`main.c:176, 279-280`): `write` may hold it up for as long as it takes to find that there is no
  host (`altera_avalon_jtag_uart_write.c:183`).
* **The picture.** `Layer` gives the last assignment of `RGB_Display` that applies to a
  pixel; the glyphs and the screen images are not looked into.
* **Left out.** `ballExtra` (always zero), the keycode input of `paddle.sv` (never
  read), constant outputs, `clkdiv` (it is the clock of the steps of `Vga`),
  synchroniser failures: a register is read as its old or new value, not as a
  level in between. In the program: LEDs and seven-segment display, `errorflag`,
  `usb_error`, `last_usb_task_state` (written, never used), the GPX interrupt (reads a
  register). Section 6 lists the code that no module is about.

## 3. Runs

| run | module, cfg | question | bounds |
|---|---|---|---|
| `ball` | `MCBall` | Does the ball fly as it should (columns, bounces, locks, hits, points), and does the picture show what the machine decides? | paddles at any of six heights in every frame, one key, game to one point |
| `match` | `MCBallMatch.cfg` | Do matches follow the rules and go on, with the speed keys 20 and 4 as well? | game to two points, paddles head on or out of the way, four keycodes |
| `machine` | `MCPong` | Does the ball in the machine behave like the ball on its own, does a paddle keep to its reach, is each serve fair? | the left player holds W or nothing, game to one point |
| `vga` | `MCVga` | When does the game tick: always again, and never in the picture? | none: all 800 by 525 positions, Reset at any of them |
| `usb_host` | `MCUsbHost` | Do table, driver, bus reset and order of enumeration stay right whatever comes, goes and fails, and is the device of a change that raised an interrupt served in the end? | low-speed keyboard, full-speed mouse to which transfers fail now and then, full-speed memory stick without a driver, two addresses |
| `usb_clear` | `MCUsbHostClear.cfg` | Does a disconnection clear the device table, as `MAX3421E.c:192` says? | the same; it does not |
| `usb_lost` | `MCUsbHostLost.cfg` | Is a connection interrupt that is cleared a "serviced" one, as `MAX3421E.c:253` says? | the same; it is not |
| `xfer` | `MCXfer` | Is every report received once and in order, does every answer come whole, is a command that succeeds done, and does every transfer end? | two reports and two requests in any order; endpoints with packets of eight and of four bytes; answers of one packet, of two with a short one, of two full ones and an empty one; limits of two NAKs and three timeouts |
| `xfer_nak` | `MCXferMouse.cfg` | Does NAK mean that there is no new data, as `main.c:241` says? | the endpoint of four bytes, three reports, one request, limits of three; it does not |
| `keys` | `MCKeys` | What does the game see of a report while it is published, and does every key reach it? | four keys, reports with room for two |
| `console` | `MCJtagUart` | Does what is printed arrive in order, and does every call return, with a host or without? | ring of three slots, FIFOs of two, threshold one, calls of up to three characters, a host absent after two seconds |
| `waits` | `MCWaits` | Does every command to the chip exchange its bytes, and does every wait last as long as it should, while the counters wrap? | word of 16, three ticks a second, up to two data bytes, delays of one and two, up to two ticks in a turn of either loop |

Why the bounds suffice. The flight of the ball depends on the height of a paddle
only when the ball meets it, so `MCBall` gives both paddles the same height, free
to change in every frame: 48 and 54 next to the top, 420 and 432 next to the bottom,
where hits in frames that follow one another push the ball as far up as any heights can,
and within two rows as far down, and 222 and 342 which aim it there. They give spins of all signs, bounces on both edges and misses;
the proofs cover every height a paddle can have.
The score only decides when the game ends, which `match` checks with two points and
the proofs with every winning score. Two addresses are enough to run out of
them, to have a device behind a failed one, and to tell first from last. The three devices differ in
speed, driver and reliability, and one can replace another of its own speed and of
the other; a second low-speed device or a third address would repeat these. The limits of a
transfer tell its two counters apart; the counts of 200 and 3 of the code
differ only in number, and the proofs are for all. Two reports and two requests
put every kind of request before, between and behind polls. Two slots in a report
give a first and a last key, a full report and one with too many keys. The ring
of the console can be full, empty, wrapped and half empty with three slots, its
FIFO full and at its threshold with two, and a call longer than the free part of
the ring takes several rounds. A word of 16 with three ticks a second has what
2^32 with a thousand has: the product wraps round three times in a round of
the counter, at a value the interval does not divide, and an alarm can lie on
either side of the wrap. Turns of two ticks let the clock pass a deadline, and fall back
behind it, between two looks. The proofs remove the bounds for the properties they cover.

Fairness. `BallFairSpec` assumes that frames keep coming; `vga` checks that the
frame clock runs (`FrameClockRuns`) if only the pixel clock does, which a
free-running oscillator drives. Holding Reset down for ever is excluded; pressing
it again and again is not. No key is assumed ever to be pressed or released.
`UsbFairSpec`: the main loop, whose waits end (`WaitsEnd`, `WritesReturn`), runs on; the
chip ends a bus reset; the settle time passes, which `Waits` shows for every deadline but one
set in the last 200 ms and one turn of the main loop of a round of the millisecond clock;
a round takes 71.6 minutes. Nothing is assumed of devices, but that a device outside `Flaky`
answers. `XferFairSpec`: the host goes on, and a packet that is sent again and again, and
its acknowledgement, get through some time (strong fairness, as losses come
between); this is a bus that is noisy, not cut. `KeysFairSpec`: the main loop runs on,
and a poll returns the report of a keyboard that has one, which is what `xfer`
shows. `UartFairSpec`: the processor goes on, in the program and in the handler, and
the alarm of the console comes every second, which `AlarmsComeInTime` shows;
strongly fair, as the timer has the highest priority. The one assumption on the
host stands in the property: `HostDrains`. `WaitsFairSpec`: the processor, the SPI
core and the timer go on, and the program takes the steps of a wait; strongly fair,
as timer interrupts and, while a device settles, other commands come between.

Properties, by concern:

* *geometry*: `OnTrack` (the ball stays on the columns on which the right paddle
  can meet it, inside the screen), `NeverWrapsRound`, `BouncesTurnInward` (a running
  lock never covers a ball that moves outward), `AlwaysReturnable` (no ball at a face
  is out of reach of the paddle), `PaddleInReach`;
* *picture*: `HitsMatchThePicture` (a ball drawn on the left paddle is hit, and so is one drawn on
  the right paddle in column 558, the only one in which `ball.sv` looks for it; no hit is more than
  two pixels off. A ball drawn on the right paddle in another column is not hit, and
  nothing is claimed of it), `BallIsSeen` (the centre of a ball in
  play stays on the screen, and neither border nor paddle ever hides all of it);
* *scoring*: `PointsAreLostOutward`, `FollowsTheRulesFairly`;
* *progress*: `HitsSendTheBallAcross` (the repeated hits of a paddle the ball is
  inside do not trap it), `FrameClockRuns`;
* *composition*: `ImplementsBall`, `ServesAreFair`, `NoTornFrames`;
* *USB host*: `TableIsFilledWhereFollowed` (no endpoint record is followed before
  it is there), `PollsTheBoundDevice`, `RequestsFollowTheReset` (no request during a bus
  reset, though the wait for the first frame waits for nothing), `ImplementsPhases`,
  `EveryChangeIsServed` (after a change whose interrupt is pending, in whatever state it comes, the
  very device that is plugged in ends up polled at its address by its driver, or given up
  because no driver or no address is left for it. Excepted, as `Missed`, is what the code
  takes for an effect of the bus reset: a device of the other speed that comes during the
  reset, and one that comes after it but before `USB_Task` has seen it end);
* *transfers*: `DeliversReportsFairly`, `AnswersAreWhole`, `CommandsTakeEffect`,
  `TransfersEnd`;
* *keys*: `ImplementsKeyPorts`, `KeysReachTheGame`;
* *register access*: `WholeExchange` (a command exchanges its bytes, all, once and in
  order, with the chip selected), `NothingOverrun`;
* *time*: `AlarmsComeInTime` (neither early nor missed across the wrap of the counter),
  `NeverCutShort`, `NeverTooLong` (by no more than a turn of the loop that waits) and `WaitsEnd`,
  both for deadlines that the clock cannot fall back from before it is looked at
  (`PassedInStride`);
* *console*: `TextArrivesInOrder`, `NoTextIsStranded` (the handler turns its interrupt
  off only when the program is on its way to turn it on again), `WritesReturn`.

The type invariants of `Ball`, `Paddle` and `Vga`, `OutwardMotionStops` and `NeverTunnels`
are proved for every value of the constants (section 4), so no run repeats them.

Disagreements between comments and code that a run shows:

* `usb_clear`: only the connection interrupt is enabled, so `usb_task_state++`
  (`MAX3421E.c:250`) always follows a probe in the same pass. When a bus event is
  pending at a disconnection, the state goes from 0x01, which would "clear device
  data structures", to 0x02, which `USB_Task` does not know. The address of the
  device that has gone stays taken unless it was running; devices that fail to
  enumerate in this way use up the seven addresses.
* `usb_lost`: the handler reads the lines (line 242 of `MAX3421E.c`), and only then clears the
  flags (line 254, "clear serviced IRQs"). A device that is plugged in or out between the two
  has its interrupt cleared unserved: `usb_task_state` and the lines disagree. One that went away is
  found out when a transfer fails, one that came is not seen until it is plugged
  again. `MAX3421E_init` has the same gap between lines 215 and 216.
* `xfer_nak`: a full packet that is shorter than the eight bytes asked for makes
  the host ask for another; when that is refused, the poll says NAK, the report is
  dropped, and its toggle is not saved. With the keyboards and mice the program
  is meant for, whose reports fill a transfer or end short, this does not happen.

Others, seen while reading, that need no run: hits in frames that follow one another
can push the ball to row 1 or 478 (`ball.sv:192-198`), so that a few rows of it leave the screen
for a frame; `vgaController.sv:98` puts the
vertical sync pulse at lines 490-491, while `vs` is low from pixel 1 of line 489
to pixel 0 of line 491, which is in the blanking like the lines of the comment (no property
depends on which lines these are); `transfer.c:298` waits for the "first SOF" with an `or` that
is never zero, so it waits for nothing; a connection in the same pass as a
bus event skips the settle time of `transfer.c:277`; and a deadline set in the last
milliseconds of a round of the clock (`transfer.c:144, 277`) lies past every value the
clock takes, so the wait goes on until an answer comes, or the settle time of a
device plugged in just then never passes. `NeverTooLong` and `WaitsEnd` say which
deadlines these are.

## 4. Proofs

All proofs are for every value of the constants that the assumption of the module
allows: `KeyCodes` (subset of 0..255), `PaddleHeights` (any pairs of ten-bit numbers),
`WinScore` (1..14), `Inputs`, every set of devices and drivers, every limit, packet size
and width of the tick counter, every length of ring, FIFO and command, every settle time,
every number of ticks in a turn of a waiting loop, and every timeout but zero (`WaitsAssumption`: with a timeout of zero a transfer would be
late as soon as it starts; the code has 5000 ms). Every invariant and every action
property that a run checks is the property of a theorem here.

* `BallProofs`: `BallTypeCorrect`; `RulesInvCorrect` and `MatchFollowsTheRules`: the
  ball implements the abstract match. The step simulation needs `RulesInv`: with
  the winning score reached and play going on, the ball is still at the centre,
  where `CentreIsQuiet` shows it can neither score nor be hit. `BallStaysOnTrack`,
  `BallNeverTunnels`, `BallScoresOutward`, for keycodes without the two debugging keys: the
  invariant `TrackInv` says that the ball runs at most seven pixels behind the
  face that returned it, and passes a scoring column only while a bounce, of each
  edge at most once, takes precedence; it holds whatever the paddles do.
  `LocksTurnTheBallInward`, `BallNeverWrapsRound` and `EveryBallIsReturnable`, for paddles
  anywhere in their reach (`PaddleStaysInReach`), rest on the rows, `RowInv`: at either edge
  (`EdgeInv`) an armed ball in the bounce zone moves outward, and a lock runs for a ball that
  moves inward and is over only when it has left the zone. A hit clears the locks and
  wins over a bounce, so each of up to three hits in frames that follow one another takes the ball up
  to five rows further out; `Hits` and `HitsBeforeBounce` read their number off the column and the
  direction of the ball. `EdgeStep` proves both edges at once, seen from each.
  `ThePictureTellsTheHits` and `TheBallIsSeen`, under the same hypotheses, need less than a
  row more: `RowInv` lets the ball reach row 480, one below the screen. `FloorInv` closes
  that gap with the paddles' step: a hit sends the ball down at full speed only from a
  row that is 4 modulo 6, and no two hits in a row find the ball in such rows. `WayToPaddle` and
  `Ways` give, for each overlap of the boxes `ball.sv` compares, the pixel of the disc and the
  way of at most two pixels from it to the paddle.
* `PongProofs`: `PaddleTypeCorrect`, `PaddleStaysInReach`, `PaddleStopsOutward`. The invariant
  `PaddleInv` strengthens the reach with what is known of the pending motion
  (`OutwardMotionStops`): the limit check precedes the move by a frame, so the
  reach alone is not inductive. `PongMovesPaddles` carries it over to the machine; `PongImplementsBall` (from the reach
  of the paddles), `PongServesAreFair` (while a serve is due the paddles are already
  centred). `PongPlaysFair` puts them together: what `BallProofs` shows of a ball against
  paddles in their reach holds of the machine, whose only hypothesis is that the two
  debugging keys are not pressed. `SameBall` shows that the instance of `Ball` the
  machine is made of and the one `BallProofs` speaks of are the same.
* `VgaProofs`: `VgaTypeCorrect`, and `FramesAreNotTorn` from `SyncInv`, where `hs` and `vs` stand for
  the position of the beam they were computed from.
* `UsbHostProofs`, for every number of addresses, set of devices and drivers:
  `UsbInvCorrect`, and from it `UsbTypeCorrect`, `TableIsSafe`, `PollsAreRight`,
  `RequestsAreLateEnough` and `UsbImplementsPhases`. The invariant `UsbInv` adds to the types that the addresses
  in use are the lowest and the device being enumerated or running has the last
  of them (`TakenInOrder`, `LastIsBound`: why the report at address 1 and the driver
  of the last entry are right), which states the interrupt handler and the chip
  reset can find (`StateAtPc`: why `usb_task_state++` stays among the codes), and
  how long `runningdebugflag` outlives a running device (`RunningFlag`). `ResetInv` carries
  `RequestsAreLateEnough`: a bus event that the handler has yet to act on is the end of
  the last bus reset.
* `XferProofs`, for all limits, packet sizes, endpoints and requests: `XferTypeCorrect`;
  `TogglesStayInStep` and `XferDelivers`; `AnswersAreComplete`; `CommandsAreDone`. The
  invariant `TogglesAgree` relates the toggles of device, chip and endpoint record and
  the packet in the receive FIFO in every place a poll can be given up, if a report
  fills a transfer (`OnePacket`); `AnswerInv` says that while an answer comes in the
  device repeats the packet read last or sends the one behind it, and `CommandInv`
  that the command whose status stage has come is that of this request.
* `KeysProofs`, for every length of a report and all keys: `KeysTypeCorrect`,
  `PublishedCorrect`, `KeysImplementPorts`. The invariant `Published` says which flags and
  ports already follow the report at each step of the scan and of the clearing.
* `WaitsProofs`, for every width of the counter and every interval that fits it:
  `ClockTypeCorrect` and `ClockRingsInTime`, the alarm implements `Countdown`, and
  `AlarmsComeInTimeWhileWaiting`, it does so while the program waits and talks to the
  chip. The invariant `AlarmAhead` says that the alarm lies ahead, in this round or, with
  its flag set, in the next, and how far.
  `CommandsAreWhole` and `BytesAreNeverOverrun`, for commands of every length: `SpiInv` says that at
  most one byte is on its way, and where it is (`NoByteOnItsWay`, `OneByteOnItsWay`);
  that the bytes heard and the answers kept are the first ones, without a gap
  (`AnswersSoFar`); and that the status the program acts on is still true where that
  matters (`StatusStands`), though the core goes on between the read and the step.
  `WaitsAreNotOverlong` and `WaitsAreNotCutShort`: `WaitsInv` says that the millisecond clock
  is never ahead of the ticks of a wait (`NotAhead`), and on the way to a deadline that it
  passes in its stride not behind them either, and past the last look that may have found the wait not over
  only by the ticks since then (`InStride`). Both rest on what one tick does to
  the clock, `((nticks * 1000) % 2^32) / 1000`: one more, or a fall to zero from its last
  value, which is not inductive in the clock alone because the product wraps round at a value the
  interval does not divide.
* `UartProofs`, for every length of the ring and the FIFO: `UartTypeCorrect`;
  `TextIsNeverStranded`; `TextIsAStream`, the console implements `CharStream`. The invariant
  `UartInv` gives the contents: FIFO, ring and what was copied but not yet published
  hold the characters the host expects next, one after another (`FifoHolds`, `RingHolds`,
  `Copied`, `WritesNext`), a round of the copy fits in the free part of the ring whatever the
  handler takes out meanwhile (`RoundFits`), and the room the handler read of the core is still
  there when it writes (`SpaceIsThere`). `WillBeSent` extends `NoTextIsStranded` to the
  middle of the handler.

Only model-checked: the liveness properties (`HitsSendTheBallAcross`, `FrameClockRuns`,
`EveryChangeIsServed`, `TransfersEnd`, `KeysReachTheGame`, `WritesReturn`, `WaitsEnd`) and the
fairness of `FollowsTheRulesFairly` and `DeliversReportsFairly`, whose safety is proved
(`MatchFollowsTheRules`, `XferDelivers`): liveness under fairness is out of the prover's reach. So
is what is computed by induction over data, of which the models have none.

## 5. What could come next

* Composition of `Keys` with the paddles: a player who changes direction while a
  report is published.
* A run of `Pong` with a player that follows the ball: such a player never loses a
  point.

## 6. Not modelled

* `numRom.sv`, `screens.sv`, `hexDriver.sv`: constant tables. `counter.sv`: instantiated by no
  other module.
* Most of the board support package and of the generated system, which is by
  far the largest part of the C and Verilog in the repository: start-up code, the file-descriptor
  layer of the HAL, `alt_log_printf`, the constants of `system.h` and `nios2.h`, PIO ports
  without state of their own, the processor and the interconnect. It is vendored or
  generated, and the program depends on no state of it beyond the three drivers
  above. Of these, the read, ioctl and close functions of the console are never
  called, `O_NONBLOCK` is never set and `alt_alarm_stop` is never called.
* `software/finalProjecttmp` and `software/finalProject_bsptmp`: they hold the same C
  sources as `finalProject` and `finalProject_bsp`; only generated files differ.
* A device whose descriptors break the rules of USB: `HID.c:140` advances by the length
  each descriptor states, and never ends when one states zero. The bytes of a
  descriptor are abstracted to whether a driver matches.
* A MAX3421E that does not answer: `MAX3421E.c:137` waits for its oscillator with a
  counter that a comment calls "timeout after 256 attempts" and that ends nothing.
* `db`, `output_files`, `simulation`: build products.
