-------------------------------- MODULE Waits --------------------------------
(***************************************************************************)
(* The program waiting: the two waits of transfer.c that look at the       *)
(* system clock, while the timer interrupt counts on, and the commands to  *)
(* the MAX3421E one of them is made of.                                    *)
(***************************************************************************)
EXTENDS SysClock, Spi

CONSTANTS
  SettleDelay,   \* the 200 ms after a device was attached
  XferTimeout,   \* USB_XFER_TIMEOUT, in ms
  SettleTurn,    \* the ticks that may fall in one turn of the main loop
  XferTurn       \* the ticks that may fall in one turn of XferDispatchPkt

ASSUME WaitsAssumption ==
  /\ SettleDelay \in Nat /\ XferTimeout \in Nat \ {0}
  /\ SettleTurn \in Nat \ {0} /\ XferTurn \in Nat \ {0}

VARIABLES
  wait,       \* what the program is waiting for
  deadline,   \* usb_delay, or timeout in XferDispatchPkt
  waited,     \* ticks since it was set, up to MaxWaited
  unseen      \* ticks since it was set or the program last looked at the clock

waitVars == <<wait, deadline, waited, unseen>>
waitsVars == <<clockVars, spiVars, waitVars>>

MaxWaited == SettleDelay + SettleTurn + XferTimeout + XferTurn

(* (alt_nticks() * 1000) / alt_ticks_per_second(): 1000 ticks are a second *)
(* and the product has the width of a word.                                *)
Milliseconds == ((nticks * Interval) % Word) \div Interval

(* In every round of the product the clock comes at least as far.          *)
LastMs == Word \div Interval - 1

WaitsInit ==
  /\ ClockInit /\ SpiInit
  /\ wait = "none" /\ deadline = 0 /\ waited = 0 /\ unseen = 0

Ready(step) == wait = step /\ spi = "idle"

(* Slip: the deadline is brought back into the range of the clock.         *)
DeadlineSlip(delay) == (Milliseconds + delay) % (LastMs + 1)

Deadline(delay) == Milliseconds + delay

WaitFor(delay) == deadline' = Deadline(delay) /\ waited' = 0 /\ unseen' = 0
KeepWaiting == unseen' = 0 /\ UNCHANGED <<deadline, waited>>
NoWait == deadline' = 0 /\ waited' = 0 /\ unseen' = 0

(* Any other command of the program; while it waits for a device to settle *)
(* the main loop goes on.                                                  *)
OtherCommand ==
  /\ Ready("none") \/ Ready("settle")
  /\ RegWr \/ RegRd \/ BytesWr \/ BytesRd
  /\ UNCHANGED <<clockVars, waitVars>>

(* USB_Task in USB_STATE_ATTACHED and in USB_ATTACHED_SUBSTATE_SETTLE.     *)
Attached ==
  /\ Ready("none")
  /\ wait' = "settle" /\ WaitFor(SettleDelay)
  /\ UNCHANGED <<clockVars, spiVars>>

(* Slip: one more millisecond.                                             *)
SettledSlip == Milliseconds > deadline + 1

Settled == Milliseconds > deadline

Settling ==
  /\ Ready("settle")
  /\ IF Settled THEN wait' = "none" /\ NoWait ELSE wait' = wait /\ KeepWaiting
  /\ UNCHANGED <<clockVars, spiVars>>

(* XferDispatchPkt: the token is launched.                                 *)
Dispatch ==
  /\ Ready("none")
  /\ wait' = "transfer" /\ WaitFor(XferTimeout) /\ RegWr
  /\ UNCHANGED clockVars

(* Look at the clock, and in time at the interrupt register.               *)
AskForAnswer ==
  /\ Ready("transfer") /\ Milliseconds < deadline
  /\ wait' = "answer" /\ RegRd /\ KeepWaiting
  /\ UNCHANGED clockVars

TimedOut ==
  /\ Ready("transfer") /\ Milliseconds >= deadline
  /\ wait' = "none" /\ NoWait
  /\ UNCHANGED <<clockVars, spiVars>>

NoAnswerYet ==
  /\ Ready("answer")
  /\ wait' = "transfer"
  /\ UNCHANGED <<clockVars, spiVars, deadline, waited, unseen>>

(* HXFRDNIRQ is set: clear it and read the result.                         *)
Answer ==
  /\ Ready("answer")
  /\ wait' = "clear" /\ RegWr
  /\ UNCHANGED <<clockVars, deadline, waited, unseen>>

AskForResult ==
  /\ Ready("clear")
  /\ wait' = "result" /\ RegRd
  /\ UNCHANGED <<clockVars, deadline, waited, unseen>>

Result ==
  /\ Ready("result")
  /\ wait' = "none" /\ NoWait
  /\ UNCHANGED <<clockVars, spiVars>>

(* Slip: a new deadline each time.                                         *)
AgainSlip ==
  /\ Ready("result")
  /\ wait' = "transfer" /\ WaitFor(XferTimeout) /\ RegWr
  /\ UNCHANGED clockVars

(* A NAK, or nothing on the bus: the token once more, until its old        *)
(* deadline.                                                               *)
Again ==
  /\ Ready("result")
  /\ wait' = "transfer" /\ RegWr
  /\ UNCHANGED <<clockVars, deadline, waited, unseen>>

WaitStep ==
  \/ Settling \/ AskForAnswer \/ TimedOut \/ NoAnswerYet
  \/ Answer \/ AskForResult \/ Result \/ Again

SpiStep == (CommandStep \/ Core) /\ UNCHANGED <<clockVars, waitVars>>

StartAlarm == AlarmStart /\ UNCHANGED <<spiVars, waitVars>>

(* The ticks that may pass until the program looks at the clock again.     *)
Turn == IF wait = "settle" THEN SettleTurn ELSE XferTurn

(* The timer ticks on, until the program has to come round.                *)
TimerInterrupt ==
  /\ wait # "none" => unseen < Turn
  /\ Tick
  /\ waited' = IF wait # "none" /\ waited < MaxWaited THEN waited + 1 ELSE waited
  /\ unseen' = IF wait # "none" THEN unseen + 1 ELSE 0
  /\ UNCHANGED <<spiVars, wait, deadline>>

WaitsNext ==
  \/ OtherCommand \/ Attached \/ Dispatch \/ WaitStep
  \/ SpiStep \/ StartAlarm \/ TimerInterrupt

WaitsSpec == WaitsInit /\ [][WaitsNext]_waitsVars

(* The processor, the core and the timer go on, and the main loop comes    *)
(* back to USB_Task.                                                       *)
WaitsFairSpec ==
  /\ WaitsSpec
  /\ WF_waitsVars(CommandStep /\ UNCHANGED <<clockVars, waitVars>>)
  /\ WF_waitsVars(Core /\ UNCHANGED <<clockVars, waitVars>>)
  /\ SF_waitsVars(WaitStep) /\ WF_waitsVars(TimerInterrupt)

(***************************************************************************)
(* Properties                                                              *)
(***************************************************************************)

(* A device has its time to settle and a transfer its time for an answer,  *)
(* also when the millisecond count falls back to zero meanwhile, as it     *)
(* does every 2^32 / 1000 ticks (transfer.c:144, 153, 277, 281).           *)
NeverCutShort ==
  [][/\ wait = "settle" /\ wait' = "none" => waited > SettleDelay
     /\ TimedOut => waited >= XferTimeout]_waitsVars

(* The last time at which a look at the clock finds the wait not over.     *)
LastLook == IF wait = "settle" THEN deadline ELSE deadline - 1

(* The clock does not fall back to zero before the look that ends the wait.*)
PassedInStride == LastLook + Turn <= LastMs

(* A wait ends, without an answer too, within one turn of the loop that    *)
(* waits, however long that is: the main loop prints and may be held up by *)
(* the console while a device settles.  Excepted is a deadline set so late *)
(* that the clock may fall back before it is looked at again: only an      *)
(* answer is sure to end that one (transfer.c:144-156, 276-284;            *)
(* main.c:176, 279-284).                                                   *)
NeverTooLong ==
  PassedInStride =>
    /\ wait = "settle" => waited <= SettleDelay + SettleTurn
    /\ wait \notin {"none", "settle"} => waited < XferTimeout + XferTurn

(* The commands the waits are made of end, and so do the waits, a token    *)
(* that is sent again and again included (altera_avalon_spi.c:74-125,      *)
(* transfer.c:150-184, 276-284).                                           *)
WaitsEnd ==
  /\ CommandsEnd
  /\ wait # "none" /\ PassedInStride ~> wait = "none"

=============================================================================
