------------------------------ MODULE JtagUart ------------------------------
(***************************************************************************)
(* The console: the driver of the JTAG UART (altera_avalon_jtag_uart_*.c)  *)
(* that every printf ends in, its ring buffers shared by the program and   *)
(* the interrupt handler, and the core with a FIFO each way.  The program  *)
(* writes and never reads.  What it writes is numbered modulo Numbers;     *)
(* what the host types is only counted.                                    *)
(***************************************************************************)
EXTENDS Integers, Sequences

CONSTANTS
  BufLen,       \* ALTERA_AVALON_JTAG_UART_BUF_LEN
  Depth,        \* JTAG_UART_0_WRITE_DEPTH and READ_DEPTH
  Threshold,    \* JTAG_UART_0_WRITE_THRESHOLD and READ_THRESHOLD
  Timeout,      \* seconds without activity that make a host absent
  Numbers,      \* characters are numbered modulo this
  MaxCount      \* bound on the characters of one call

ASSUME UartAssumption ==
  /\ BufLen \in Nat /\ BufLen > 1
  /\ Depth \in Nat \ {0} /\ Threshold \in 0..(Depth - 1)
  /\ Timeout \in Nat \ {0} /\ MaxCount \in Nat \ {0}
  /\ Numbers \in Nat /\ Numbers > BufLen + Depth

VARIABLES
  pc,           \* the step of the program in write
  count,        \* the characters the call has still to move
  ptr,          \* the number of the next character
  out,          \* tx_out as write read it
  n,            \* the characters of this round
  txIn, txBuf,  \* the ring of what is to be sent: the program fills it
  txOut,        \* and the handler empties it
  rxIn,         \* the ring of what was received: nobody empties it
  irqEnable,    \* irq_enable, and the register it is written to
  hostInactive, \* host_inactive, which stops at Timeout here
  isr,          \* the step of the interrupt handler
  control,      \* what it read from the control register
  avail,        \* RAVAIL of the data it read
  wfifo,        \* the FIFO to the host
  received,     \* the characters in the FIFO from the host
  ac,           \* the host has been active
  pauseIrq,     \* the host has paused with characters in that FIFO
  hostSaw       \* the number of the next character the host expects

callVars == <<pc, count, ptr, out, n>>
ringVars == <<txIn, txBuf, txOut, rxIn>>
driverVars == <<irqEnable, hostInactive>>
isrVars == <<isr, control, avail>>
coreVars == <<wfifo, received, ac, pauseIrq, hostSaw>>
uartVars == <<callVars, ringVars, driverVars, isrVars, coreVars>>

Slot == 0..(BufLen - 1)
Number == 0..(Numbers - 1)
Garbage == Numbers     \* what a slot holds before it is first written
NoControl == [WI |-> FALSE, WSPACE |-> 0]

NextSlot(i) == (i + 1) % BufLen
Least(a, b) == IF a < b THEN a ELSE b

UartInit ==
  /\ pc = "idle" /\ count = 0 /\ ptr = 0 /\ out = 0 /\ n = 0
  /\ txIn = 0 /\ txOut = 0 /\ txBuf = [i \in Slot |-> Garbage] /\ rxIn = 0
  /\ irqEnable = {"RE"} /\ hostInactive = 0
  /\ isr = "off" /\ control = NoControl /\ avail = FALSE
  /\ wfifo = <<>> /\ received = 0 /\ ac = FALSE /\ pauseIrq = FALSE /\ hostSaw = 0

(***************************************************************************)
(* altera_avalon_jtag_uart_write                                           *)
(***************************************************************************)

(* The program takes a step of its own: no interrupt is being served.      *)
At(step) == pc = step /\ isr = "off"
Goto(step) == pc' = step

(* The locals of the last round are not used again.                        *)
NewRound == n' = 0 /\ out' = 0

Write ==
  /\ At("idle")
  /\ count' \in 1..MaxCount /\ Goto("space")
  /\ UNCHANGED <<ptr, out, n, ringVars, driverVars, isrVars, coreVars>>

(* Slip: every slot is used, so that a full ring looks like an empty one.  *)
RoomSlip(i, o) == IF i < o THEN o - i ELSE BufLen - i

(* The free slots that follow one another; one slot stays empty.           *)
Room(i, o) ==
  IF i < o THEN o - 1 - i
  ELSE IF o > 0 THEN BufLen - i
  ELSE BufLen - 1 - i

Space ==
  /\ At("space")
  /\ out' = txOut
  /\ n' = Least(Room(txIn, txOut), count)
  /\ Goto(IF n' > 0 THEN "copy" ELSE "kick")
  /\ UNCHANGED <<count, ptr, ringVars, driverVars, isrVars, coreVars>>

Copy ==
  /\ At("copy")
  /\ txBuf' = [i \in Slot |->
       IF i \in txIn..(txIn + n - 1) THEN (ptr + i - txIn) % Numbers ELSE txBuf[i]]
  /\ ptr' = (ptr + n) % Numbers /\ count' = count - n
  /\ Goto("publish")
  /\ UNCHANGED <<out, n, txIn, txOut, rxIn, driverVars, isrVars, coreVars>>

Publish ==
  /\ At("publish")
  /\ txIn' = (txIn + n) % BufLen
  /\ Goto("space") /\ NewRound
  /\ UNCHANGED <<count, ptr, txBuf, txOut, rxIn, driverVars, isrVars, coreVars>>

(* Make the handler transmit; wait for room if something is left.          *)
Kick ==
  /\ At("kick")
  /\ irqEnable' = irqEnable \cup {"WE"}
  /\ IF count > 0 THEN Goto("wait") /\ UNCHANGED <<out, n>> ELSE Goto("idle") /\ NewRound
  /\ UNCHANGED <<count, ptr, ringVars, hostInactive, isrVars, coreVars>>

(* Slip: only progress of the handler ends the wait.                       *)
WaitSlip ==
  /\ At("wait")
  /\ out # txOut
  /\ Goto("check")
  /\ UNCHANGED <<count, ptr, out, n, ringVars, driverVars, isrVars, coreVars>>

Wait ==
  /\ At("wait")
  /\ out # txOut \/ hostInactive >= Timeout
  /\ Goto("check")
  /\ UNCHANGED <<count, ptr, out, n, ringVars, driverVars, isrVars, coreVars>>

(* Give up, with what was written so far, if the host was inactive in the  *)
(* last second.                                                            *)
Check ==
  /\ At("check")
  /\ IF hostInactive # 0
     THEN Goto("idle") /\ count' = 0
     ELSE Goto("space") /\ UNCHANGED count
  /\ NewRound
  /\ UNCHANGED <<ptr, ringVars, driverVars, isrVars, coreVars>>

Program == Space \/ Copy \/ Publish \/ Kick \/ Wait \/ Check

(***************************************************************************)
(* altera_avalon_jtag_uart_irq                                             *)
(***************************************************************************)

(* ipen_AE: the FIFO to the host is almost empty.  ipen_AF: the FIFO from  *)
(* the host is almost full, or the host has paused.                        *)
WI == "WE" \in irqEnable /\ Len(wfifo) <= Threshold
RI == "RE" \in irqEnable /\ (pauseIrq \/ Depth - received <= Threshold)

Return == isr' = "off" /\ control' = NoControl /\ avail' = FALSE

(* The handler starts, or looks again whether there is more to do.         *)
Control ==
  /\ isr = "control" \/ (isr = "off" /\ (RI \/ WI))
  /\ \/ /\ RI \/ WI
        /\ control' = [WI |-> WI, WSPACE |-> Depth - Len(wfifo)]
        /\ isr' = IF RI THEN "read" ELSE "write"
        /\ avail' = RI
     \/ ~RI /\ ~WI /\ Return
  /\ UNCHANGED <<callVars, ringVars, driverVars, coreVars>>

RxFull == NextSlot(rxIn) = 0

(* A character for the ring; reading it ends the pause.                    *)
ReadData ==
  /\ isr = "read" /\ ~RxFull /\ received > 0
  /\ rxIn' = NextSlot(rxIn)
  /\ received' = received - 1 /\ avail' = (received' > 0) /\ pauseIrq' = FALSE
  /\ UNCHANGED <<callVars, txIn, txBuf, txOut, driverVars, isr, control, wfifo, ac, hostSaw>>

(* The ring is full, or the FIFO is empty.  Without room for what is left, *)
(* no more interrupts until there is some.                                 *)
ReadDone ==
  /\ isr = "read" /\ (RxFull \/ received = 0)
  /\ avail' = (RxFull /\ avail)
  /\ irqEnable' = IF avail' THEN irqEnable \ {"RE"} ELSE irqEnable
  /\ pauseIrq' = (RxFull /\ pauseIrq)
  /\ isr' = IF control.WI THEN "write" ELSE "control"
  /\ UNCHANGED <<callVars, ringVars, hostInactive, control, wfifo, received, ac, hostSaw>>

(* Slip: the room in the FIFO is not counted.                              *)
WriteDataSlip ==
  /\ isr = "write" /\ txOut # txIn
  /\ wfifo' = IF Len(wfifo) < Depth THEN Append(wfifo, txBuf[txOut]) ELSE wfifo
  /\ txOut' = NextSlot(txOut)
  /\ control' = [control EXCEPT !.WSPACE = Least(@, 1)]
  /\ UNCHANGED <<callVars, txIn, txBuf, rxIn, driverVars, isr, avail,
                 received, ac, pauseIrq, hostSaw>>

(* A character for the core, which drops it when its FIFO is full.         *)
WriteData ==
  /\ isr = "write" /\ control.WSPACE > 0 /\ txOut # txIn
  /\ wfifo' = IF Len(wfifo) < Depth THEN Append(wfifo, txBuf[txOut]) ELSE wfifo
  /\ txOut' = NextSlot(txOut)
  /\ control' = [control EXCEPT !.WSPACE = @ - 1]
  /\ UNCHANGED <<callVars, txIn, txBuf, rxIn, driverVars, isr, avail,
                 received, ac, pauseIrq, hostSaw>>

(* Slip: the interrupt is turned off after every round.                    *)
WriteDoneSlip ==
  /\ isr = "write" /\ (control.WSPACE = 0 \/ txOut = txIn)
  /\ irqEnable' = irqEnable \ {"WE"}
  /\ isr' = "control" /\ control' = NoControl /\ avail' = FALSE
  /\ UNCHANGED <<callVars, ringVars, hostInactive, coreVars>>

(* With room left, the ring is empty: no more interrupts until the program *)
(* writes.                                                                 *)
WriteDone ==
  /\ isr = "write" /\ (control.WSPACE = 0 \/ txOut = txIn)
  /\ irqEnable' = IF control.WSPACE > 0 THEN irqEnable \ {"WE"} ELSE irqEnable
  /\ isr' = "control" /\ control' = NoControl /\ avail' = FALSE
  /\ UNCHANGED <<callVars, ringVars, hostInactive, coreVars>>

Handler == Control \/ ReadData \/ ReadDone \/ WriteData \/ WriteDone

(* altera_avalon_jtag_uart_timeout, in the timer interrupt once a second.  *)
Second ==
  /\ isr = "off"
  /\ ac' = FALSE
  /\ hostInactive' = IF ac THEN 0 ELSE Least(hostInactive + 1, Timeout)
  /\ UNCHANGED <<callVars, ringVars, irqEnable, isrVars, wfifo, received, pauseIrq, hostSaw>>

(***************************************************************************)
(* The host, if there is one                                               *)
(***************************************************************************)

HostTakes ==
  /\ wfifo # <<>>
  /\ hostSaw' = IF Head(wfifo) = hostSaw THEN (hostSaw + 1) % Numbers ELSE Garbage
  /\ wfifo' = Tail(wfifo)
  /\ UNCHANGED <<callVars, ringVars, driverVars, isrVars, received, ac, pauseIrq>>

HostTypes ==
  /\ received < Depth
  /\ received' = received + 1 /\ ac' = TRUE
  /\ UNCHANGED <<callVars, ringVars, driverVars, isrVars, wfifo, pauseIrq, hostSaw>>

HostPauses ==
  /\ ac' = TRUE /\ pauseIrq' = (pauseIrq \/ received > 0)
  /\ UNCHANGED <<callVars, ringVars, driverVars, isrVars, wfifo, received, hostSaw>>

Host == HostTakes \/ HostTypes \/ HostPauses

UartNext == Write \/ Program \/ Handler \/ Second \/ Host

UartSpec == UartInit /\ [][UartNext]_uartVars

(* The processor goes on, and the timer, which has the highest priority,   *)
(* interrupts every second.                                                *)
UartFairSpec ==
  UartSpec /\ WF_uartVars(Program) /\ WF_uartVars(Handler) /\ SF_uartVars(Second)

(***************************************************************************)
(* Properties                                                              *)
(***************************************************************************)

UartTypeOK ==
  /\ pc \in {"idle", "space", "copy", "publish", "kick", "wait", "check"}
  /\ count \in 0..MaxCount /\ ptr \in Number /\ out \in Slot /\ n \in 0..(BufLen - 1)
  /\ txIn \in Slot /\ txOut \in Slot /\ rxIn \in Slot
  /\ txBuf \in [Slot -> Number \cup {Garbage}]
  /\ irqEnable \subseteq {"RE", "WE"} /\ hostInactive \in 0..Timeout
  /\ isr \in {"off", "control", "read", "write"}
  /\ control \in [WI : BOOLEAN, WSPACE : 0..Depth] /\ avail \in BOOLEAN
  /\ wfifo \in Seq(Number \cup {Garbage}) /\ Len(wfifo) <= Depth /\ received \in 0..Depth
  /\ ac \in BOOLEAN /\ pauseIrq \in BOOLEAN /\ hostSaw \in Number \cup {Garbage}

(* What is in the ring will be sent: whenever the handler has turned its   *)
(* transmit interrupt off with characters in the ring, the program is on   *)
(* its way to turn it on again (write.c:125-168, init.c:166-192).          *)
NoTextIsStranded ==
  txIn # txOut /\ isr = "off" /\ "WE" \notin irqEnable =>
    pc \in {"space", "copy", "publish", "kick"}

Stream == INSTANCE CharStream WITH
  Capacity <- BufLen - 1 + Depth,
  accepted <- IF pc = "publish" THEN (ptr - n) % Numbers ELSE ptr,
  delivered <- hostSaw

(* Through a ring that the program fills while the handler empties it, and *)
(* a FIFO that drops what it has no room for, the host sees what the       *)
(* program wrote, in order, nothing twice and nothing left out             *)
(* (write.c:96-125, init.c:170-181, jtag_uart_0.v:492-520).                *)
TextArrivesInOrder == Stream!StreamSpec

(* A call of write returns: with a host that takes what there is whenever  *)
(* it is active, and without a host when the time is over, whatever the    *)
(* host types into a console that nobody reads and however often that      *)
(* calls the handler (write.c:147-197, init.c:116-224).                    *)
HostDrains == []<>ac => []<>(Len(wfifo) <= Threshold)
WritesReturn == HostDrains => (pc # "idle" ~> pc = "idle")

=============================================================================
