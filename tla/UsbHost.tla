------------------------------ MODULE UsbHost ------------------------------
(***************************************************************************)
(* The USB host of the Nios II program: the main loop of main.c, the state *)
(* machine USB_Task of transfer.c, and MAX3421E_init, MAX_busprobe and     *)
(* MaxIntHandler of MAX3421E.c, against a device that is plugged and       *)
(* unplugged at any moment.  The MAX3421E and the bus are modelled as this *)
(* code uses them: an interrupt flag per event, set by the chip and        *)
(* cleared by the program.                                                 *)
(***************************************************************************)
EXTENDS Integers

CONSTANTS
  NumDevices,  \* USB_NUMDEVICES: addresses are below it
  Devices,     \* the devices that can be plugged in
  Driver,      \* which driver accepts a device: HID_K, HID_M or none (0)
  LowSpeed,    \* the low-speed devices
  Nothing,     \* no device: both lines low (SE0)
  Shorted,     \* both lines high (SE1)
  Flaky        \* the devices to which a transfer may fail

HID_K == 1
HID_M == 2

ASSUME UsbAssumption ==
  /\ NumDevices \in 2..254
  /\ Driver \in [Devices -> {0, HID_K, HID_M}]
  /\ LowSpeed \subseteq Devices
  /\ Nothing \notin Devices /\ Shorted \notin Devices /\ Nothing # Shorted
  /\ Flaky \subseteq Devices

(***************************************************************************)
(* The codes of USB.h: the high digit is the state, the low one the        *)
(* substate.  UNNAMED and OFF_LIMITS have no name in the code: they are    *)
(* what an increment makes of INITIALIZE and ILLEGAL.                      *)
(***************************************************************************)
INITIALIZE == 1
UNNAMED == 2
WAIT_FOR_DEVICE == 3
ILLEGAL == 4
OFF_LIMITS == 5
ATTACHED == 16
SETTLE == 17
RESET_DEVICE == 18
WAIT_RESET_COMPLETE == 19
WAIT_SOF == 20
GET_DEVICE_DESCRIPTOR_SIZE == 21
ADDRESSING == 32
CONFIGURING == 48
RUNNING == 64
ERROR == 255

Detached == {INITIALIZE, UNNAMED, WAIT_FOR_DEVICE, ILLEGAL, OFF_LIMITS}
Codes == Detached \cup
  {ATTACHED, SETTLE, RESET_DEVICE, WAIT_RESET_COMPLETE, WAIT_SOF,
   GET_DEVICE_DESCRIPTOR_SIZE, ADDRESSING, CONFIGURING, RUNNING, ERROR}

VARIABLES
  pc,          \* the next step of the main loop
  state,       \* usb_task_state
  devtable,    \* endpoint record and class of each address from 1
  tmpAddr,     \* tmp_addr: the address assigned last
  hidAddr,     \* hid_device.addr: the address that is polled
  settling,    \* usb_delay is still ahead
  running,     \* runningdebugflag
  device,      \* the driver main polls with
  seen,        \* the flags MaxIntHandler read from HIRQ
  condet,      \* CONDETIRQ, which drives the interrupt pin
  busevent,    \* BUSEVENTIRQ
  frame,       \* FRAMEIRQ
  sampled,     \* JSTATUS and KSTATUS: the lines when they were last sampled
  busrst,      \* BUSRST: the chip is resetting the bus
  mode,        \* speed of the host; "off" before it sends frames
  plugged,     \* what is on the bus
  address      \* the address that device answers to

programVars == <<pc, state, devtable, tmpAddr, hidAddr, settling, running, device, seen>>
chipVars == <<condet, busevent, frame, sampled, busrst, mode>>
busVars == <<plugged, address>>
usbVars == <<programVars, chipVars, busVars>>

Address == 1..(NumDevices - 1)
NotReset == 255      \* a device that has not seen a bus reset answers to nobody
NoDriver == 255      \* device before GetDriverandReport has run

Entry == [ep : {"NULL", "dev0", "hid"}, class : {0, HID_K, HID_M}]
Cleared == [a \in Address |-> [ep |-> "NULL", class |-> 0]]
NoFlags == [busevent |-> FALSE, frame |-> FALSE]

UsbInit ==
  /\ pc = "init" /\ state = INITIALIZE
  /\ devtable = Cleared /\ tmpAddr = 0 /\ hidAddr = 0
  /\ settling = FALSE /\ running = FALSE /\ device = NoDriver /\ seen = NoFlags
  /\ condet = FALSE /\ busevent = FALSE /\ frame = FALSE /\ busrst = FALSE
  /\ sampled = "SE0" /\ mode = "off"
  /\ plugged \in Devices \cup {Nothing} /\ address = NotReset

(***************************************************************************)
(* The bus and the chip                                                    *)
(***************************************************************************)

LineStates == {"SE0", "SE1", "full", "low"}

(* The lines with d on the bus: both low, both high, or idle at its speed. *)
Line(d) ==
  IF d = Nothing THEN "SE0"
  ELSE IF d = Shorted THEN "SE1"
  ELSE IF d \in LowSpeed THEN "low" ELSE "full"

(* A bus that is being reset is held low.                                  *)
BusLine == IF busrst THEN "SE0" ELSE Line(plugged)

(* A device comes or goes, at any moment; the chip notices and samples the *)
(* lines, unless it is holding them low itself.                            *)
Plug(d) ==
  /\ plugged # d
  /\ plugged' = d
  /\ address' = IF d \in Devices /\ busrst THEN 0 ELSE NotReset
  /\ IF busrst THEN UNCHANGED <<condet, sampled>>
               ELSE condet' = TRUE /\ sampled' = Line(d)
  /\ UNCHANGED <<programVars, busevent, frame, busrst, mode>>

(* The bus reset ends after its 50 ms: the device answers to address 0,    *)
(* and the chip notices if the lines are not as it knows them.             *)
BusResetDone ==
  /\ busrst
  /\ busrst' = FALSE /\ busevent' = TRUE
  /\ condet' = (condet \/ sampled # Line(plugged)) /\ sampled' = Line(plugged)
  /\ address' = IF plugged \in Devices THEN 0 ELSE NotReset
  /\ UNCHANGED <<programVars, frame, mode, plugged>>

(* Once a millisecond the chip starts a frame.                             *)
FrameStart ==
  /\ mode # "off" /\ ~busrst /\ ~frame
  /\ frame' = TRUE
  /\ UNCHANGED <<programVars, condet, busevent, sampled, busrst, mode, busVars>>

(* The clock passes usb_delay.                                             *)
SettleTimePasses ==
  /\ settling
  /\ settling' = FALSE
  /\ UNCHANGED <<pc, state, devtable, tmpAddr, hidAddr, running, device, seen, chipVars, busVars>>

(* A device answers at its own address and at the speed of the host.       *)
Answers(a) ==
  /\ plugged \in Devices /\ address = a
  /\ ~busrst /\ mode # "off" /\ (plugged \in LowSpeed) = (mode = "low")

MayFail(a) == plugged \in Flaky \/ ~Answers(a)

(***************************************************************************)
(* MAX3421E.c                                                              *)
(***************************************************************************)

(* rHRSL after a sample of the lines, read by a host in mode m: J is the   *)
(* idle state of a device of the speed of the host, K that of one of the   *)
(* other speed.                                                            *)
Read(lines, m) ==
  IF lines \in {"SE0", "SE1"} THEN lines
  ELSE IF (lines = "low") = (m = "low") THEN "J" ELSE "K"

(* Slip: a new device is only expected when there was none.                *)
MAX_busprobeAttachSlip(lines, m) ==
  \/ /\ Read(lines, m) \in {"J", "K"} /\ state \in Detached
     /\ mode' = IF (Read(lines, m) = "J") = (m = "low") THEN "low" ELSE "full"
     /\ state' = ATTACHED
  \/ /\ Read(lines, m) \in {"J", "K"} /\ state \notin Detached
     /\ mode' = m /\ UNCHANGED state
  \/ /\ Read(lines, m) = "SE1"
     /\ mode' = m /\ state' = ILLEGAL
  \/ /\ Read(lines, m) = "SE0"
     /\ mode' = "full" /\ state' = WAIT_FOR_DEVICE

(* Slip: the interrupt of the bus reset is taken for a new device.         *)
MAX_busprobeResetSlip(lines, m) ==
  \/ /\ Read(lines, m) \in {"J", "K"}
     /\ mode' = IF (Read(lines, m) = "J") = (m = "low") THEN "low" ELSE "full"
     /\ state' = ATTACHED
  \/ /\ Read(lines, m) = "SE1"
     /\ mode' = m /\ state' = ILLEGAL
  \/ /\ Read(lines, m) = "SE0"
     /\ mode' = "full" /\ state' = IF state \in Detached THEN WAIT_FOR_DEVICE ELSE INITIALIZE

(* MAX_busprobe, by a host in mode m: it reads the sample there is, the    *)
(* write of SAMPLEBUS at its head is commented out.                        *)
MAX_busprobe(lines, m) ==
  \/ /\ Read(lines, m) \in {"J", "K"} /\ state # WAIT_RESET_COMPLETE
     /\ mode' = IF (Read(lines, m) = "J") = (m = "low") THEN "low" ELSE "full"
     /\ state' = ATTACHED
  \/ /\ Read(lines, m) \in {"J", "K"} /\ state = WAIT_RESET_COMPLETE
     /\ mode' = m /\ UNCHANGED state
  \/ /\ Read(lines, m) = "SE1"
     /\ mode' = m /\ state' = ILLEGAL
  \/ /\ Read(lines, m) = "SE0" /\ state \notin Detached
     /\ mode' = m /\ state' = INITIALIZE
  \/ /\ Read(lines, m) = "SE0" /\ state \in Detached
     /\ mode' = "full" /\ state' = WAIT_FOR_DEVICE

(* MAX3421E_Task and the read of HIRQ: only CONDETIRQ interrupts.          *)
MAX3421E_Task ==
  /\ pc = "irq"
  /\ IF condet
     THEN pc' = "probe" /\ seen' = [busevent |-> busevent, frame |-> frame]
     ELSE pc' = "task" /\ UNCHANGED seen
  /\ UNCHANGED <<state, devtable, tmpAddr, hidAddr, settling, running, device, chipVars, busVars>>

(* MaxIntHandler: look at the bus ...                                      *)
Probe ==
  /\ pc = "probe" /\ pc' = "ack"
  /\ MAX_busprobe(sampled, mode)
  /\ UNCHANGED <<devtable, tmpAddr, hidAddr, settling, running, device, seen,
                 condet, busevent, frame, sampled, busrst, busVars>>

(* Slip: the state advances with a frame instead of a bus event.           *)
AcknowledgeSlip ==
  /\ pc = "ack" /\ pc' = "task"
  /\ state' = IF seen.frame THEN state + 1 ELSE state
  /\ condet' = FALSE
  /\ busevent' = (busevent /\ ~seen.busevent)
  /\ frame' = (frame /\ ~seen.frame)
  /\ seen' = NoFlags
  /\ UNCHANGED <<devtable, tmpAddr, hidAddr, settling, running, device, sampled, busrst, mode,
                 busVars>>

(* ... advance the state by a bus event that was seen, and clear the flags *)
(* that were seen.                                                         *)
Acknowledge ==
  /\ pc = "ack" /\ pc' = "task"
  /\ state' = IF seen.busevent THEN state + 1 ELSE state
  /\ condet' = FALSE
  /\ busevent' = (busevent /\ ~seen.busevent)
  /\ frame' = (frame /\ ~seen.frame)
  /\ seen' = NoFlags
  /\ UNCHANGED <<devtable, tmpAddr, hidAddr, settling, running, device, sampled, busrst, mode,
                 busVars>>

(* MAX3421E_init: reset the chip, sample and look at the bus ...           *)
MAX3421E_init ==
  /\ pc = "init" /\ pc' = "usbinit"
  /\ sampled' = Line(plugged) /\ MAX_busprobe(Line(plugged), "off")
  /\ condet' = FALSE /\ busevent' = FALSE /\ frame' = FALSE /\ busrst' = FALSE
  /\ UNCHANGED <<devtable, tmpAddr, hidAddr, settling, running, device, seen, busVars>>

(* ... clear the connection flag; then USB_init, called by main.           *)
USB_init ==
  /\ pc = "usbinit" /\ pc' = "irq"
  /\ condet' = FALSE
  /\ devtable' = Cleared
  /\ UNCHANGED <<state, tmpAddr, hidAddr, settling, running, device, seen,
                 busevent, frame, sampled, busrst, mode, busVars>>

(***************************************************************************)
(* USB_Task                                                                *)
(***************************************************************************)

TaskStep(from) == pc = "task" /\ pc' = "main" /\ state = from

Cleanup ==
  /\ TaskStep(INITIALIZE)
  /\ state' = WAIT_FOR_DEVICE /\ devtable' = Cleared
  /\ UNCHANGED <<tmpAddr, hidAddr, settling, running, device, seen, chipVars, busVars>>

StartSettling ==
  /\ TaskStep(ATTACHED)
  /\ state' = SETTLE /\ settling' = TRUE
  /\ UNCHANGED <<devtable, tmpAddr, hidAddr, running, device, seen, chipVars, busVars>>

(* Slip: the bus reset is left out.                                        *)
SettledSlip ==
  /\ TaskStep(SETTLE)
  /\ state' = IF settling THEN SETTLE ELSE WAIT_SOF
  /\ UNCHANGED <<devtable, tmpAddr, hidAddr, settling, running, device, seen, chipVars, busVars>>

Settled ==
  /\ TaskStep(SETTLE)
  /\ state' = IF settling THEN SETTLE ELSE RESET_DEVICE
  /\ UNCHANGED <<devtable, tmpAddr, hidAddr, settling, running, device, seen, chipVars, busVars>>

(* The reset may look like a disconnection to the chip (MAX3421E.c:164).   *)
StartBusReset ==
  /\ TaskStep(RESET_DEVICE)
  /\ state' = WAIT_RESET_COMPLETE
  /\ busevent' = FALSE /\ busrst' = TRUE
  /\ condet' \in {condet, TRUE}
  /\ UNCHANGED <<devtable, tmpAddr, hidAddr, settling, running, device, seen, frame, sampled, mode,
                 busVars>>

WaitReset ==
  /\ TaskStep(WAIT_RESET_COMPLETE)
  /\ IF busrst
     THEN UNCHANGED <<state, mode>>
     ELSE state' = WAIT_SOF /\ mode' = IF mode = "off" THEN "full" ELSE mode
  /\ UNCHANGED <<devtable, tmpAddr, hidAddr, settling, running, device, seen,
                 condet, busevent, frame, sampled, busrst, busVars>>

(* rHIRQ | bmFRAMEIRQ is never zero: the step waits for nothing.           *)
WaitSof ==
  /\ TaskStep(WAIT_SOF)
  /\ state' = GET_DEVICE_DESCRIPTOR_SIZE
  /\ UNCHANGED <<devtable, tmpAddr, hidAddr, settling, running, device, seen, chipVars, busVars>>

(* Only the first request decides; the others fill buffers for display.    *)
GetDescriptor ==
  /\ TaskStep(GET_DEVICE_DESCRIPTOR_SIZE)
  /\ \/ Answers(0) /\ state' = ADDRESSING
     \/ MayFail(0) /\ state' = ERROR
  /\ UNCHANGED <<devtable, tmpAddr, hidAddr, settling, running, device, seen, chipVars, busVars>>

Free == {a \in Address : devtable[a].ep = "NULL"}
IsFirstFree(a) == a \in Free /\ \A b \in Free : a <= b

(* The lowest free address is taken, whether the device accepts it or not. *)
SetAddress ==
  /\ TaskStep(ADDRESSING)
  /\ \/ \E a \in Address :
          /\ IsFirstFree(a)
          /\ devtable' = [devtable EXCEPT ![a].ep = "dev0"]
          /\ \/ /\ Answers(0)
                /\ address' = a /\ tmpAddr' = a /\ state' = CONFIGURING
             \/ /\ MayFail(0)
                /\ address' \in IF Answers(0) THEN {0, a} ELSE {address}
                /\ state' = ERROR /\ UNCHANGED tmpAddr
     \/ /\ Free = {}
        /\ state' = ERROR /\ UNCHANGED <<devtable, tmpAddr, address>>
  /\ UNCHANGED <<hidAddr, settling, running, device, seen, chipVars, plugged>>

(* Slip: the entry keeps the endpoint record of address 0.                 *)
BindSlip ==
  /\ Answers(tmpAddr) /\ Driver[plugged] # 0
  /\ devtable' = [devtable EXCEPT ![tmpAddr].class = Driver[plugged]]
  /\ hidAddr' = tmpAddr
  /\ state' \in IF plugged \in Flaky THEN {RUNNING, ERROR} ELSE {RUNNING}

(* A driver whose probe matches the interface descriptor takes the device  *)
(* before it configures it, and keeps it if that fails.                    *)
Bind ==
  /\ Answers(tmpAddr) /\ Driver[plugged] # 0
  /\ devtable' = [devtable EXCEPT ![tmpAddr] = [ep |-> "hid", class |-> Driver[plugged]]]
  /\ hidAddr' = tmpAddr
  /\ state' \in IF plugged \in Flaky THEN {RUNNING, ERROR} ELSE {RUNNING}

NoDriverFound ==
  /\ MayFail(tmpAddr) \/ (plugged \in Devices /\ Driver[plugged] = 0)
  /\ state' = ERROR /\ UNCHANGED <<devtable, hidAddr>>

Configure ==
  /\ TaskStep(CONFIGURING)
  /\ Bind \/ NoDriverFound
  /\ UNCHANGED <<tmpAddr, settling, running, device, seen, chipVars, busVars>>

(* Without a device USB_Task only samples the lines, for a probe to come.  *)
WaitForDevice ==
  /\ TaskStep(WAIT_FOR_DEVICE)
  /\ sampled' = BusLine
  /\ UNCHANGED <<state, devtable, tmpAddr, hidAddr, settling, running, device, seen,
                 condet, busevent, frame, busrst, mode, busVars>>

(* ERROR & USB_STATE_MASK is not ERROR: it ends in the default branch.     *)
NothingToDo ==
  /\ \E s \in (Detached \ {INITIALIZE, WAIT_FOR_DEVICE}) \cup {RUNNING, ERROR} : TaskStep(s)
  /\ UNCHANGED <<state, devtable, tmpAddr, hidAddr, settling, running, device, seen, chipVars, busVars>>

USB_Task ==
  \/ Cleanup \/ StartSettling \/ Settled \/ StartBusReset \/ WaitReset \/ WaitSof
  \/ GetDescriptor \/ SetAddress \/ Configure \/ WaitForDevice \/ NothingToDo

(***************************************************************************)
(* main                                                                    *)
(***************************************************************************)

Used == Address \ Free

(* Slip: the search stops at the first device of the table.                *)
ReportSlip ==
  /\ pc = "main" /\ pc' = "irq"
  /\ state = RUNNING /\ ~running
  /\ running' = TRUE
  /\ \/ \E a \in Used : (\A b \in Used : a <= b) /\ device' = devtable[a].class
     \/ Used = {} /\ device' = NoDriver
  /\ UNCHANGED <<state, devtable, tmpAddr, hidAddr, settling, seen, chipVars, busVars>>

(* GetDriverandReport: the class of the last device of the table.          *)
Report ==
  /\ pc = "main" /\ pc' = "irq"
  /\ state = RUNNING /\ ~running
  /\ running' = TRUE
  /\ \/ \E a \in Used : (\A b \in Used : b <= a) /\ device' = devtable[a].class
     \/ Used = {} /\ device' = NoDriver
  /\ UNCHANGED <<state, devtable, tmpAddr, hidAddr, settling, seen, chipVars, busVars>>

(* A poll of the device, or no driver to poll with.                        *)
Poll ==
  /\ pc = "main" /\ pc' = "irq"
  /\ state = RUNNING /\ running
  /\ UNCHANGED <<state, devtable, tmpAddr, hidAddr, settling, running, device, seen, chipVars, busVars>>

InError ==
  /\ pc = "main" /\ pc' = "irq"
  /\ state = ERROR
  /\ UNCHANGED <<state, devtable, tmpAddr, hidAddr, settling, running, device, seen, chipVars, busVars>>

(* Previously running: start again from the reset of the chip.             *)
NotRunning ==
  /\ pc = "main" /\ state \notin {RUNNING, ERROR}
  /\ pc' = IF running THEN "init" ELSE "irq"
  /\ running' = FALSE
  /\ UNCHANGED <<state, devtable, tmpAddr, hidAddr, settling, device, seen, chipVars, busVars>>

Main == Report \/ Poll \/ InError \/ NotRunning

Program == MAX3421E_init \/ USB_init \/ MAX3421E_Task \/ Probe \/ Acknowledge \/ USB_Task \/ Main

Hardware == BusResetDone \/ FrameStart \/ SettleTimePasses

UsbNext ==
  \/ Program \/ Hardware
  \/ \E d \in Devices \cup {Nothing, Shorted} : Plug(d)

UsbSpec == UsbInit /\ [][UsbNext]_usbVars

(* The main loop runs on; a bus reset ends and time passes.                *)
UsbFairSpec ==
  UsbSpec /\ WF_usbVars(Program) /\ WF_usbVars(BusResetDone) /\ WF_usbVars(SettleTimePasses)

(***************************************************************************)
(* Properties                                                              *)
(***************************************************************************)

ProgramTypeOK ==
  /\ pc \in {"init", "usbinit", "irq", "probe", "ack", "task", "main"}
  /\ state \in Codes
  /\ devtable \in [Address -> Entry]
  /\ tmpAddr \in Address \cup {0} /\ hidAddr \in Address \cup {0}
  /\ settling \in BOOLEAN /\ running \in BOOLEAN
  /\ device \in {0, HID_K, HID_M, NoDriver}
  /\ seen \in [busevent : BOOLEAN, frame : BOOLEAN]

ChipTypeOK ==
  /\ condet \in BOOLEAN /\ busevent \in BOOLEAN /\ frame \in BOOLEAN /\ busrst \in BOOLEAN
  /\ sampled \in LineStates
  /\ mode \in {"off", "full", "low"}

BusTypeOK ==
  /\ plugged \in Devices \cup {Nothing, Shorted}
  /\ address \in Address \cup {0, NotReset}

(* Every variable keeps its type; usb_task_state, which the interrupt      *)
(* handler increments whatever it is (MAX3421E.c:250), only takes the      *)
(* codes of USB.h and the two that an increment makes.                     *)
UsbTypeOK == ProgramTypeOK /\ ChipTypeOK /\ BusTypeOK

(* The table is only followed where it has been filled, however devices    *)
(* come, go and fail: the probes find endpoints at tmp_addr, the poll the  *)
(* second endpoint of a HID record at hid_device.addr, and the report at   *)
(* the address 1 it assumes (transfer.c:363; main.c:22, 42; HID.c:216-221).*)
TableIsFilledWhereFollowed ==
  /\ state = CONFIGURING =>
       tmpAddr \in Address /\ devtable[tmpAddr].ep # "NULL"
  /\ state = RUNNING =>
       hidAddr \in Address /\ devtable[hidAddr].ep = "hid" /\ devtable[1].ep # "NULL"

(* The main loop polls the device that was configured last with the driver *)
(* that accepted it, although it takes the driver from the last entry of   *)
(* the table and the address from the HID driver, and each only once per   *)
(* connection (main.c:180-188, 238; HID.c:71, 162).                        *)
PollsTheBoundDevice ==
  pc = "main" /\ state = RUNNING /\ running =>
    /\ hidAddr = tmpAddr
    /\ device = devtable[hidAddr].class /\ device \in {HID_K, HID_M}

(* No request is sent while the bus is being reset, nor by a host that is  *)
(* not started, although the handler may end the wait for the reset by its *)
(* increment, the wait for the first frame that should follow waits for    *)
(* nothing, and another reset may be due at any moment (MAX3421E.c:244-250;*)
(* transfer.c:286-303).                                                    *)
Enumerating == {WAIT_SOF, GET_DEVICE_DESCRIPTOR_SIZE, ADDRESSING, CONFIGURING, RUNNING}
RequestsFollowTheReset == state \in Enumerating => ~busrst /\ mode # "off"

(* Why: a bus event that the handler has yet to act on is the end of the   *)
(* last reset, and a host that has seen a device is started.               *)
ResetInv ==
  /\ busevent \/ seen.busevent => ~busrst
  /\ seen.busevent => pc \in {"probe", "ack"}
  /\ state \notin Detached => mode # "off"
  /\ RequestsFollowTheReset

(* The addresses are taken in order, and the device that is enumerated or  *)
(* runs has the last of them.                                              *)
TakenInOrder == \A a, b \in Address : a < b /\ b \in Used => a \in Used

IsLast(a) == a \in Used /\ \A b \in Used : b <= a

LastIsBound ==
  /\ state = CONFIGURING => IsLast(tmpAddr)
  /\ state = RUNNING =>
       /\ hidAddr = tmpAddr /\ IsLast(tmpAddr)
       /\ devtable[tmpAddr].ep = "hid" /\ devtable[tmpAddr].class # 0

(* Where the interrupt handler and the chip reset can find the state.      *)
StateAtPc ==
  /\ pc = "ack" =>
       state \in {INITIALIZE, WAIT_FOR_DEVICE, ILLEGAL, ATTACHED, WAIT_RESET_COMPLETE}
  /\ pc \in {"init", "usbinit"} =>
       ~running /\ state \in Detached \cup {ATTACHED, SETTLE, RESET_DEVICE}

(* runningdebugflag outlives a running device until main has seen it gone. *)
RunningFlag ==
  running =>
    \/ state = RUNNING /\ device = devtable[tmpAddr].class
    \/ pc \in {"ack", "task"} /\ state \in Detached \cup {ATTACHED, SETTLE}
    \/ pc = "main" /\ state \in Detached \cup {SETTLE, RESET_DEVICE}

UsbInv == UsbTypeOK /\ TakenInOrder /\ LastIsBound /\ StateAtPc /\ RunningFlag

(* The phase of the enumeration that a code stands for.                    *)
Phase ==
  IF state \in {INITIALIZE, UNNAMED, WAIT_FOR_DEVICE} THEN "detached"
  ELSE IF state \in {ILLEGAL, OFF_LIMITS} THEN "illegal"
  ELSE IF state \in {ATTACHED, SETTLE, RESET_DEVICE} THEN "attached"
  ELSE IF state = WAIT_RESET_COMPLETE THEN "reset"
  ELSE IF state \in {WAIT_SOF, GET_DEVICE_DESCRIPTOR_SIZE} THEN "ready"
  ELSE IF state = ADDRESSING THEN "default"
  ELSE IF state = CONFIGURING THEN "addressed"
  ELSE IF state = RUNNING THEN "running" ELSE "failed"

Phases == INSTANCE HostPhases WITH
  Addresses <- Address, phase <- Phase, taken <- Used

(* The increments of the interrupt handler, the chip reset of the main     *)
(* loop and the cleanups, wherever they fall, keep the order of the        *)
(* enumeration and the addresses of its devices (MAX3421E.c:250;           *)
(* main.c:281-284; transfer.c:255-384).                                    *)
ImplementsPhases == Phases!PhasesSpec

(* What the host makes of the device that is plugged in: it answers at the *)
(* address that is polled with its driver, or has an address and no driver,*)
(* or found none free.  A device plugged in since answers to none yet.     *)
Runs(d) == state = RUNNING /\ Answers(hidAddr) /\ devtable[hidAddr].class = Driver[d]
HasNoDriver(d) == state = ERROR /\ Driver[d] = 0 /\ tmpAddr \in Address /\ Answers(tmpAddr)
HasNoAddress == state = ERROR /\ Free = {} /\ Answers(0)

Served(d) ==
  IF d = Nothing THEN state \in Detached
  ELSE IF d = Shorted THEN state \in {ILLEGAL, OFF_LIMITS}
  ELSE Runs(d) \/ HasNoDriver(d) \/ HasNoAddress

(* While the host waits for the end of a bus reset it takes a connection   *)
(* for an effect of the reset (MAX3421E.c:164).  So it misses a device it  *)
(* does not have the speed of, and one that came too late for the reset.   *)
Missed(d) ==
  /\ d \in Devices /\ state = WAIT_RESET_COMPLETE
  /\ \/ Line(d) # mode
     \/ ~busrst /\ address # 0

(* Whenever the interrupt of a change is pending, from whatever state the  *)
(* enumeration of the device before was interrupted in, that of a running  *)
(* device and the interrupt the bus reset itself may cause included, the   *)
(* host comes to serve the very device that is plugged in, if transfers to *)
(* it do not fail, unless that changes again (MAX3421E.c:154-198, 232-255; *)
(* main.c:281-284).                                                        *)
EveryChangeIsServed ==
  \A d \in (Devices \ Flaky) \cup {Nothing, Shorted} :
    (pc = "irq" /\ condet /\ plugged = d /\ sampled = Line(d) /\ ~Missed(d))
      ~> (Served(d) \/ plugged # d)

(* MAX3421E.c:192: a disconnection makes the state machine "clear device   *)
(* data structures": once it has run, no address is taken.                 *)
DisconnectionClearsDevices ==
  pc = "main" /\ state \in {UNNAMED, WAIT_FOR_DEVICE} => Used = {}

(* MAX3421E.c:253: "End HIRQ interrupts handling, clear serviced IRQs":    *)
(* once the handler has cleared the connection interrupt, the state machine*)
(* agrees with the lines as the chip sampled them when it last raised it.  *)
ClearsServicedIrqs ==
  [][Acknowledge => (state' \in Detached <=> sampled \in {"SE0", "SE1"})]_usbVars

=============================================================================
