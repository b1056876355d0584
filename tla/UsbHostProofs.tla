--------------------------- MODULE UsbHostProofs ---------------------------
(* The USB host follows its table only where it is filled, polls the       *)
(* device it has bound, and enumerates in order: for any number of         *)
(* addresses and any devices, on a bus that may lose transfers or not.     *)
EXTENDS UsbHost, TLAPS

USE DEF HID_K, HID_M, INITIALIZE, UNNAMED, WAIT_FOR_DEVICE, ILLEGAL, OFF_LIMITS,
        ATTACHED, SETTLE, RESET_DEVICE, WAIT_RESET_COMPLETE, WAIT_SOF,
        GET_DEVICE_DESCRIPTOR_SIZE, ADDRESSING, CONFIGURING, RUNNING, ERROR,
        Detached, Codes, NotReset, NoDriver

(***************************************************************************)
(* The table                                                               *)
(***************************************************************************)

(* Addresses are numbers.                                                  *)
LEMMA AddressIsNat == Address \subseteq Nat /\ Address \subseteq Int /\ 1 \in Address
  BY UsbAssumption DEF Address

(* The cleared table has its type and no device.                           *)
LEMMA ClearedTable ==
  ASSUME devtable' = Cleared
  PROVE  /\ devtable' \in [Address -> Entry]
         /\ Used' = {} /\ TakenInOrder'
  <1>1. Cleared \in [Address -> Entry]
    BY DEF Cleared, Entry
  <1>2. \A a \in Address : devtable'[a].ep = "NULL"
    BY DEF Cleared
  <1>3. Used' = {}
    BY <1>2 DEF Used, Free
  <1> QED
    BY <1>1, <1>3 DEF TakenInOrder

(* An entry that is overwritten with an endpoint stays, or becomes, taken. *)
LEMMA OverwrittenTable ==
  ASSUME UsbTypeOK, NEW a \in Address, NEW e \in Entry, e.ep # "NULL",
         devtable' = [devtable EXCEPT ![a] = e]
  PROVE  /\ devtable' \in [Address -> Entry] /\ devtable'[a] = e
         /\ Used' = Used \cup {a}
  <1>1. devtable \in [Address -> Entry]
    BY DEF UsbTypeOK, ProgramTypeOK
  <1>2. /\ devtable' \in [Address -> Entry] /\ devtable'[a] = e
        /\ \A b \in Address \ {a} : devtable'[b] = devtable[b]
    BY <1>1
  <1> QED
    BY <1>2 DEF Used, Free

(* Taking the first free address makes it the last of the taken ones.      *)
LEMMA FirstFreeBecomesLast ==
  ASSUME TakenInOrder, NEW a \in Address, IsFirstFree(a), Used' = Used \cup {a}
  PROVE  TakenInOrder' /\ IsLast(a)'
  <1>1. \A b \in Address : b < a => b \in Used
    BY AddressIsNat DEF IsFirstFree, Used, Free
  <1>2. \A b \in Used : b < a
    BY AddressIsNat DEF IsFirstFree, Used, Free, TakenInOrder
  <1>3. TakenInOrder'
    BY <1>1, <1>2, AddressIsNat DEF TakenInOrder
  <1> QED
    BY <1>2, <1>3, AddressIsNat DEF IsLast, Used

(* With the table, the address and the driver as they were, only the codes *)
(* and the program counter matter.                                         *)
LEMMA TableKept ==
  ASSUME UNCHANGED devtable
  PROVE  /\ Used' = Used /\ Free' = Free
         /\ TakenInOrder' = TakenInOrder
         /\ \A a : IsLast(a)' = IsLast(a)
  BY DEF Used, Free, TakenInOrder, IsLast

(***************************************************************************)
(* The invariant                                                           *)
(***************************************************************************)

(* The invariant holds initially.                                          *)
LEMMA UsbInvInit == UsbInit => UsbInv
  <1> SUFFICES ASSUME UsbInit PROVE UsbInv
    OBVIOUS
  <1>1. devtable \in [Address -> Entry] /\ Used = {}
    BY DEF UsbInit, Cleared, Entry, Used, Free
  <1>2. UsbTypeOK
    BY <1>1 DEF UsbInit, UsbTypeOK, ProgramTypeOK, ChipTypeOK, BusTypeOK, NoFlags, LineStates
  <1> QED
    BY <1>1, <1>2 DEF UsbInit, UsbInv, TakenInOrder, LastIsBound, StateAtPc, RunningFlag

LEMMA LineType == \A d : Line(d) \in LineStates
  BY DEF Line, LineStates

(* The bus and the chip change nothing the invariant speaks of.            *)
LEMMA HardwareKeepsInv ==
  ASSUME UsbInv, NEW d \in Devices \cup {Nothing, Shorted}, Plug(d) \/ Hardware
  PROVE  UsbInv'
  <1>0. UNCHANGED <<pc, state, devtable, tmpAddr, hidAddr, running, device, seen>>
    BY DEF Plug, Hardware, BusResetDone, FrameStart, SettleTimePasses, programVars
  <1>1. ProgramTypeOK'
    <2>1. settling' \in BOOLEAN
      BY ZenonT(60) DEF UsbInv, UsbTypeOK, ProgramTypeOK, Plug, Hardware, BusResetDone, FrameStart,
             SettleTimePasses, programVars
    <2> QED
      BY <1>0, <2>1 DEF UsbInv, UsbTypeOK, ProgramTypeOK
  <1>2. ChipTypeOK'
    <2>1. CASE BusResetDone
      <3>1. condet' \in BOOLEAN
        BY <2>1, Zenon DEF BusResetDone
      <3> QED
        BY <2>1, <3>1, LineType DEF BusResetDone, UsbInv, UsbTypeOK, ChipTypeOK
    <2>2. CASE Plug(d)
      BY <2>2, LineType DEF Plug, UsbInv, UsbTypeOK, ChipTypeOK
    <2>3. CASE FrameStart \/ SettleTimePasses
      BY <2>3 DEF FrameStart, SettleTimePasses, chipVars, UsbInv, UsbTypeOK, ChipTypeOK
    <2> QED
      BY <2>1, <2>2, <2>3 DEF Hardware
  <1>3. BusTypeOK'
    BY DEF UsbInv, UsbTypeOK, BusTypeOK, Plug, Hardware, BusResetDone, FrameStart,
           SettleTimePasses, busVars
  <1> QED
    BY <1>0, <1>1, <1>2, <1>3, TableKept DEF UsbInv, UsbTypeOK, LastIsBound, StateAtPc, RunningFlag

(* What MAX_busprobe can leave.                                            *)
LEMMA ProbeResult ==
  ASSUME NEW lines \in LineStates, NEW m \in {"off", "full", "low"}, MAX_busprobe(lines, m)
  PROVE  /\ mode' \in {"off", "full", "low"}
         /\ \/ state' \in {ATTACHED, ILLEGAL}
            \/ state' = INITIALIZE /\ state \notin Detached
            \/ state' = WAIT_FOR_DEVICE /\ state \in Detached
            \/ state' = WAIT_RESET_COMPLETE /\ state = WAIT_RESET_COMPLETE
  BY DEF MAX_busprobe

(* The interrupt handler.                                                  *)
LEMMA HandlerKeepsInv ==
  ASSUME UsbInv, MAX3421E_Task \/ Probe \/ Acknowledge
  PROVE  UsbInv'
  <1>0. UNCHANGED <<devtable, tmpAddr, hidAddr, running, device>>
    BY DEF MAX3421E_Task, Probe, Acknowledge
  <1>1. CASE MAX3421E_Task
    <2>1. UsbTypeOK'
      BY <1>1 DEF UsbInv, UsbTypeOK, ProgramTypeOK, ChipTypeOK, BusTypeOK, MAX3421E_Task,
                  chipVars, busVars
    <2> QED
      BY <1>0, <1>1, <2>1, TableKept
      DEF UsbInv, LastIsBound, StateAtPc, RunningFlag, MAX3421E_Task
  <1>2. CASE Probe
    <2>1. PICK lines \in LineStates, m \in {"off", "full", "low"} : MAX_busprobe(lines, m)
      BY <1>2 DEF Probe, UsbInv, UsbTypeOK, ChipTypeOK
    <2>2. UsbTypeOK'
      <3>1. ProgramTypeOK'
        BY <1>2, <2>1, ProbeResult DEF UsbInv, UsbTypeOK, ProgramTypeOK, Probe
      <3>2. ChipTypeOK'
        BY <1>2, <2>1, ProbeResult DEF UsbInv, UsbTypeOK, ChipTypeOK, Probe
      <3>3. BusTypeOK'
        BY <1>2 DEF UsbInv, UsbTypeOK, BusTypeOK, Probe, busVars
      <3> QED
        BY <3>1, <3>2, <3>3 DEF UsbTypeOK
    <2>3. StateAtPc' /\ RunningFlag' /\ LastIsBound'
      BY <1>0, <1>2, <2>1, ProbeResult DEF UsbInv, StateAtPc, RunningFlag, LastIsBound, Probe
    <2> QED
      BY <1>0, <2>2, <2>3, TableKept DEF UsbInv
  <1>3. CASE Acknowledge
    <2>1. state' \in {INITIALIZE, UNNAMED, WAIT_FOR_DEVICE, ILLEGAL, OFF_LIMITS, ATTACHED,
                      SETTLE, WAIT_RESET_COMPLETE, WAIT_SOF}
      BY <1>3 DEF UsbInv, StateAtPc, Acknowledge
    <2>2. UsbTypeOK'
      <3>1. ProgramTypeOK'
        BY <1>3, <2>1 DEF UsbInv, UsbTypeOK, ProgramTypeOK, Acknowledge, NoFlags
      <3>2. ChipTypeOK'
        BY <1>3, <2>1 DEF UsbInv, UsbTypeOK, ChipTypeOK, Acknowledge, NoFlags
      <3>3. BusTypeOK'
        BY <1>3 DEF UsbInv, UsbTypeOK, BusTypeOK, Acknowledge, NoFlags, busVars
      <3> QED
        BY <3>1, <3>2, <3>3 DEF UsbTypeOK
    <2>3. StateAtPc' /\ RunningFlag' /\ LastIsBound'
      BY <1>0, <1>3, <2>1 DEF UsbInv, StateAtPc, RunningFlag, LastIsBound, Acknowledge
    <2> QED
      BY <1>0, <2>2, <2>3, TableKept DEF UsbInv
  <1> QED
    BY <1>1, <1>2, <1>3

(* The reset of the chip and USB_init.                                     *)
LEMMA InitKeepsInv ==
  ASSUME UsbInv, MAX3421E_init \/ USB_init
  PROVE  UsbInv'
  <1>1. CASE MAX3421E_init
    <2>1. PICK lines \in LineStates, m \in {"off", "full", "low"} : MAX_busprobe(lines, m)
      BY <1>1, LineType DEF MAX3421E_init
    <2>2. state' \in {ATTACHED, ILLEGAL, INITIALIZE, WAIT_FOR_DEVICE}
      BY <1>1, <2>1, ProbeResult DEF UsbInv, StateAtPc, MAX3421E_init
    <2>3. UsbTypeOK'
      <3>1. ProgramTypeOK'
        BY <1>1, <2>1, <2>2, ProbeResult DEF UsbInv, UsbTypeOK, ProgramTypeOK, MAX3421E_init
      <3>2. ChipTypeOK'
        BY <1>1, <2>1, <2>2, ProbeResult, LineType DEF UsbInv, UsbTypeOK, ChipTypeOK, MAX3421E_init
      <3>3. BusTypeOK'
        BY <1>1 DEF UsbInv, UsbTypeOK, BusTypeOK, MAX3421E_init, busVars
      <3> QED
        BY <3>1, <3>2, <3>3 DEF UsbTypeOK
    <2>4. UNCHANGED devtable /\ StateAtPc' /\ RunningFlag' /\ LastIsBound'
      BY <1>1, <2>2 DEF UsbInv, StateAtPc, RunningFlag, LastIsBound, MAX3421E_init
    <2> QED
      BY <2>3, <2>4, TableKept DEF UsbInv
  <1>2. CASE USB_init
    <2>1. devtable' \in [Address -> Entry] /\ TakenInOrder'
      BY <1>2, ClearedTable DEF USB_init
    <2>2. UsbTypeOK'
      <3>1. ProgramTypeOK'
        BY <1>2, <2>1 DEF UsbInv, UsbTypeOK, ProgramTypeOK, USB_init
      <3>2. ChipTypeOK'
        BY <1>2, <2>1 DEF UsbInv, UsbTypeOK, ChipTypeOK, USB_init
      <3>3. BusTypeOK'
        BY <1>2 DEF UsbInv, UsbTypeOK, BusTypeOK, USB_init, busVars
      <3> QED
        BY <3>1, <3>2, <3>3 DEF UsbTypeOK
    <2>3. StateAtPc' /\ RunningFlag' /\ LastIsBound'
      BY <1>2 DEF UsbInv, StateAtPc, RunningFlag, LastIsBound, USB_init
    <2> QED
      BY <2>1, <2>2, <2>3 DEF UsbInv
  <1> QED
    BY <1>1, <1>2

(* The steps of USB_Task that leave the table alone.                       *)
QuietTask ==
  \/ StartSettling \/ Settled \/ StartBusReset \/ WaitReset \/ WaitSof
  \/ GetDescriptor \/ WaitForDevice \/ NothingToDo

LEMMA QuietTaskKeepsInv ==
  ASSUME UsbInv, QuietTask
  PROVE  UsbInv'
  <1>0. /\ pc = "task" /\ pc' = "main"
        /\ UNCHANGED <<devtable, tmpAddr, hidAddr, running, device, seen, plugged, address>>
    BY DEF QuietTask, TaskStep, StartSettling, Settled, StartBusReset, WaitReset, WaitSof,
           GetDescriptor, WaitForDevice, NothingToDo, busVars
  <1>1. \/ state' = SETTLE /\ state = ATTACHED
        \/ state' \in {SETTLE, RESET_DEVICE} /\ state = SETTLE
        \/ state' = WAIT_RESET_COMPLETE /\ state = RESET_DEVICE
        \/ state' \in {WAIT_RESET_COMPLETE, WAIT_SOF} /\ state = WAIT_RESET_COMPLETE
        \/ state' = GET_DEVICE_DESCRIPTOR_SIZE /\ state = WAIT_SOF
        \/ state' \in {ADDRESSING, ERROR} /\ state = GET_DEVICE_DESCRIPTOR_SIZE
        \/ state' = state /\ state \in (Detached \ {INITIALIZE}) \cup {RUNNING, ERROR}
    <2>1. CASE WaitForDevice \/ NothingToDo
      BY <2>1 DEF WaitForDevice, NothingToDo, TaskStep, Detached
    <2>2. CASE Settled \/ WaitReset
      BY <2>2 DEF Settled, WaitReset, TaskStep
    <2>3. CASE StartSettling \/ WaitSof
      BY <2>3 DEF StartSettling, WaitSof, TaskStep
    <2>4. CASE StartBusReset
      <3>1. state = RESET_DEVICE /\ state' = WAIT_RESET_COMPLETE
        BY <2>4, Zenon DEF StartBusReset, TaskStep
      <3> QED
        BY <3>1
    <2>5. CASE GetDescriptor
      <3>1. state = GET_DEVICE_DESCRIPTOR_SIZE /\ (state' = ADDRESSING \/ state' = ERROR)
        BY <2>5, Zenon DEF GetDescriptor, TaskStep
      <3> QED
        BY <3>1
    <2> QED
      BY <2>1, <2>2, <2>3, <2>4, <2>5 DEF QuietTask
  <1>2. ProgramTypeOK'
    <2>1. settling' \in BOOLEAN
      BY ZenonT(60)
         DEF QuietTask, StartSettling, Settled, StartBusReset, WaitReset, WaitSof,
             GetDescriptor, WaitForDevice, NothingToDo, UsbInv, UsbTypeOK, ProgramTypeOK
    <2> QED
      BY <1>0, <1>1, <2>1 DEF UsbInv, UsbTypeOK, ProgramTypeOK
  <1>3. ChipTypeOK'
    <2>1. CASE StartBusReset
      BY <2>1 DEF StartBusReset, UsbInv, UsbTypeOK, ChipTypeOK
    <2>2. CASE WaitReset
      BY <2>2 DEF WaitReset, UsbInv, UsbTypeOK, ChipTypeOK
    <2>3. CASE UNCHANGED chipVars
      BY <2>3 DEF chipVars, UsbInv, UsbTypeOK, ChipTypeOK
    <2>4. CASE WaitForDevice
      BY <2>4, LineType DEF WaitForDevice, BusLine, LineStates, UsbInv, UsbTypeOK, ChipTypeOK
    <2> QED
      BY <2>1, <2>2, <2>3, <2>4 DEF QuietTask, StartSettling, Settled, WaitSof, GetDescriptor, NothingToDo
  <1>4. BusTypeOK'
    BY <1>0 DEF UsbInv, UsbTypeOK, BusTypeOK
  <1>5. LastIsBound' /\ StateAtPc' /\ RunningFlag'
    BY <1>0, <1>1, TableKept DEF UsbInv, LastIsBound, StateAtPc, RunningFlag
  <1> QED
    BY <1>0, <1>2, <1>3, <1>4, <1>5, TableKept DEF UsbInv, UsbTypeOK

(* Cleaning up after a disconnection.                                      *)
LEMMA CleanupKeepsInv ==
  ASSUME UsbInv, Cleanup
  PROVE  UsbInv'
  <1>1. devtable' \in [Address -> Entry] /\ TakenInOrder'
    BY ClearedTable DEF Cleanup
  <1>2. ProgramTypeOK'
    BY <1>1 DEF UsbInv, UsbTypeOK, ProgramTypeOK, Cleanup, TaskStep
  <1>3. ChipTypeOK' /\ BusTypeOK'
    BY DEF UsbInv, UsbTypeOK, ChipTypeOK, BusTypeOK, Cleanup, chipVars, busVars
  <1>4. LastIsBound' /\ StateAtPc' /\ RunningFlag'
    BY DEF UsbInv, LastIsBound, StateAtPc, RunningFlag, Cleanup, TaskStep
  <1> QED
    BY <1>1, <1>2, <1>3, <1>4 DEF UsbInv, UsbTypeOK

(* What giving an address does to the table.                               *)
LEMMA AddressGiven ==
  ASSUME UsbInv, NEW a \in Address, IsFirstFree(a),
         devtable' = [devtable EXCEPT ![a].ep = "dev0"]
  PROVE  /\ devtable' \in [Address -> Entry]
         /\ a \notin Used /\ Used' = Used \cup {a}
         /\ TakenInOrder' /\ IsLast(a)'
  <1> DEFINE e == [devtable[a] EXCEPT !.ep = "dev0"]
  <1>1. devtable \in [Address -> Entry]
    BY DEF UsbInv, UsbTypeOK, ProgramTypeOK
  <1>2. e \in Entry /\ e.ep # "NULL" /\ devtable' = [devtable EXCEPT ![a] = e]
    BY <1>1 DEF Entry
  <1>3. devtable' \in [Address -> Entry] /\ Used' = Used \cup {a}
    <2> HIDE DEF e
    <2> QED
      BY <1>2, OverwrittenTable DEF UsbInv
  <1>4. a \notin Used
    BY DEF IsFirstFree, Used, Free
  <1> QED
    BY <1>3, <1>4, FirstFreeBecomesLast DEF UsbInv

(* Giving an address.                                                      *)
LEMMA SetAddressKeepsInv ==
  ASSUME UsbInv, SetAddress
  PROVE  UsbInv'
  <1>0. /\ pc' = "main" /\ ~running' /\ state' \in {CONFIGURING, ERROR}
        /\ UNCHANGED <<hidAddr, settling, running, device, seen, chipVars, plugged>>
    BY DEF UsbInv, UsbTypeOK, ProgramTypeOK, RunningFlag, SetAddress, TaskStep
  <1>1. ChipTypeOK'
    BY <1>0 DEF UsbInv, UsbTypeOK, ChipTypeOK, chipVars
  <1>2. /\ devtable' \in [Address -> Entry] /\ TakenInOrder'
        /\ tmpAddr' \in Address \cup {0} /\ address' \in Address \cup {0, NotReset}
        /\ state' = CONFIGURING => IsLast(tmpAddr)'
    <2>1. CASE Free = {} /\ state' = ERROR /\ UNCHANGED <<devtable, tmpAddr, address>>
      BY <2>1, TableKept DEF UsbInv, UsbTypeOK, ProgramTypeOK, BusTypeOK
    <2>2. ASSUME NEW a \in Address, IsFirstFree(a),
                 devtable' = [devtable EXCEPT ![a].ep = "dev0"],
                 \/ Answers(0) /\ address' = a /\ tmpAddr' = a /\ state' = CONFIGURING
                 \/ /\ address' \in IF Answers(0) THEN {0, a} ELSE {address}
                    /\ state' = ERROR /\ UNCHANGED tmpAddr
          PROVE  <1>2!1 /\ <1>2!2 /\ <1>2!3
      <3>1. devtable' \in [Address -> Entry] /\ TakenInOrder' /\ IsLast(a)'
        BY <2>2, AddressGiven
      <3>2. tmpAddr' \in Address \cup {0} /\ address' \in Address \cup {0, NotReset}
        BY <2>2 DEF UsbInv, UsbTypeOK, ProgramTypeOK, BusTypeOK
      <3>3. state' = CONFIGURING => IsLast(tmpAddr)'
        BY <2>2, <3>1 DEF IsLast
      <3> QED
        BY <3>1, <3>2, <3>3
    <2> QED
      BY <2>1, <2>2 DEF SetAddress
  <1>3. ProgramTypeOK'
    BY <1>0, <1>2 DEF UsbInv, UsbTypeOK, ProgramTypeOK
  <1>4. BusTypeOK'
    BY <1>0, <1>2 DEF UsbInv, UsbTypeOK, BusTypeOK
  <1>5. LastIsBound' /\ StateAtPc' /\ RunningFlag'
    BY <1>0, <1>2 DEF LastIsBound, StateAtPc, RunningFlag
  <1> QED
    BY <1>1, <1>2, <1>3, <1>4, <1>5 DEF UsbInv, UsbTypeOK

(* What binding a driver does to the table.                                *)
LEMMA DriverBound ==
  ASSUME UsbInv, state = CONFIGURING, Bind
  PROVE  /\ devtable' \in [Address -> Entry]
         /\ devtable'[tmpAddr].ep = "hid" /\ devtable'[tmpAddr].class # 0
         /\ tmpAddr \in Address /\ Used' = Used
  <1> DEFINE e == [ep |-> "hid", class |-> Driver[plugged]]
  <1>1. tmpAddr \in Used /\ tmpAddr \in Address
    BY DEF UsbInv, LastIsBound, IsLast, Used
  <1>2. Driver[plugged] \in {HID_K, HID_M}
    BY UsbAssumption DEF Bind, Answers
  <1>3. e \in Entry /\ e.ep = "hid" /\ e.class # 0
    BY <1>2 DEF Entry
  <1>4. devtable' = [devtable EXCEPT ![tmpAddr] = e]
    BY DEF Bind
  <1> HIDE DEF e
  <1>5. /\ devtable' \in [Address -> Entry] /\ devtable'[tmpAddr] = e
        /\ Used' = Used \cup {tmpAddr}
    BY <1>1, <1>3, <1>4, OverwrittenTable DEF UsbInv
  <1> QED
    BY <1>1, <1>3, <1>5

(* Looking for a driver.                                                   *)
LEMMA ConfigureKeepsInv ==
  ASSUME UsbInv, Configure
  PROVE  UsbInv'
  <1>0. /\ pc' = "main" /\ ~running' /\ state = CONFIGURING /\ state' \in {RUNNING, ERROR}
        /\ UNCHANGED <<tmpAddr, settling, running, device, seen, chipVars, busVars>>
    BY DEF UsbInv, UsbTypeOK, ProgramTypeOK, RunningFlag, Configure, TaskStep, Bind,
           NoDriverFound
  <1>1. ChipTypeOK' /\ BusTypeOK'
    BY <1>0 DEF UsbInv, UsbTypeOK, ChipTypeOK, BusTypeOK, chipVars, busVars
  <1>2. CASE Bind
    <2>1. /\ devtable' \in [Address -> Entry] /\ Used' = Used /\ tmpAddr \in Address
          /\ devtable'[tmpAddr].ep = "hid" /\ devtable'[tmpAddr].class # 0
      BY <1>0, <1>2, DriverBound
    <2>2. hidAddr' = tmpAddr
      BY <1>2 DEF Bind
    <2>3. ProgramTypeOK'
      BY <1>0, <2>1, <2>2 DEF UsbInv, UsbTypeOK, ProgramTypeOK
    <2>4. TakenInOrder' /\ IsLast(tmpAddr)'
      BY <1>0, <2>1 DEF UsbInv, TakenInOrder, LastIsBound, IsLast
    <2>5. LastIsBound' /\ StateAtPc' /\ RunningFlag'
      BY <1>0, <2>1, <2>2, <2>4 DEF LastIsBound, StateAtPc, RunningFlag, IsLast
    <2> QED
      BY <1>1, <2>3, <2>4, <2>5 DEF UsbInv, UsbTypeOK
  <1>3. CASE NoDriverFound
    <2>1. state' = ERROR /\ UNCHANGED <<devtable, hidAddr>>
      BY <1>3 DEF NoDriverFound
    <2>2. ProgramTypeOK'
      BY <1>0, <2>1 DEF UsbInv, UsbTypeOK, ProgramTypeOK
    <2>3. LastIsBound' /\ StateAtPc' /\ RunningFlag'
      BY <1>0, <2>1 DEF LastIsBound, StateAtPc, RunningFlag
    <2> QED
      BY <1>1, <2>1, <2>2, <2>3, TableKept DEF UsbInv, UsbTypeOK
  <1> QED
    BY <1>2, <1>3 DEF Configure

(* The main loop.                                                          *)
LEMMA MainKeepsInv ==
  ASSUME UsbInv, Main
  PROVE  UsbInv'
  <1>0. /\ pc = "main" /\ pc' \in {"irq", "init"}
        /\ UNCHANGED <<state, devtable, tmpAddr, hidAddr, settling, seen, chipVars, busVars>>
    BY DEF Main, Report, Poll, InError, NotRunning
  <1>1. ChipTypeOK' /\ BusTypeOK'
    BY <1>0 DEF UsbInv, UsbTypeOK, ChipTypeOK, BusTypeOK, chipVars, busVars
  <1>2. running' \in BOOLEAN
    BY ZenonT(60) DEF Main, Report, Poll, InError, NotRunning, UsbInv, UsbTypeOK, ProgramTypeOK
  <1>3. CASE Report
    <2>1. IsLast(tmpAddr)
      BY <1>3 DEF Report, UsbInv, LastIsBound
    <2>2. \A a \in Used : (\A b \in Used : b <= a) => a = tmpAddr
      BY <2>1, AddressIsNat DEF IsLast, Used
    <2>3. device' = devtable[tmpAddr].class
      BY <1>3, <2>1, <2>2 DEF Report, IsLast
    <2>4. devtable[tmpAddr].class \in {0, HID_K, HID_M}
      BY <2>1 DEF UsbInv, UsbTypeOK, ProgramTypeOK, Entry, IsLast, Used
    <2>5. ProgramTypeOK'
      BY <1>0, <1>2, <2>3, <2>4 DEF UsbInv, UsbTypeOK, ProgramTypeOK
    <2>6. StateAtPc' /\ RunningFlag'
      BY <1>0, <1>3, <2>3 DEF Report, StateAtPc, RunningFlag
    <2> QED
      BY <1>0, <1>1, <2>5, <2>6, TableKept DEF UsbInv, UsbTypeOK, LastIsBound
  <1>4. CASE Poll \/ InError \/ NotRunning
    <2>1. device' = device /\ (running' => running /\ pc' = "irq")
      BY <1>4 DEF Poll, InError, NotRunning
    <2>2. ProgramTypeOK'
      BY <1>0, <1>2, <2>1 DEF UsbInv, UsbTypeOK, ProgramTypeOK
    <2>3. RunningFlag'
      BY <1>0, <1>4, <2>1 DEF UsbInv, RunningFlag, Poll, InError, NotRunning
    <2>4. StateAtPc'
      BY <1>0, <1>4 DEF UsbInv, StateAtPc, RunningFlag, Poll, InError, NotRunning
    <2> QED
      BY <1>0, <1>1, <2>2, <2>3, <2>4, TableKept DEF UsbInv, UsbTypeOK, LastIsBound
  <1> QED
    BY <1>3, <1>4 DEF Main

(* Every step keeps the invariant.                                         *)
LEMMA UsbInvStep == UsbInv /\ [UsbNext]_usbVars => UsbInv'
  <1> SUFFICES ASSUME UsbInv, [UsbNext]_usbVars PROVE UsbInv'
    OBVIOUS
  <1>1. CASE MAX3421E_Task \/ Probe \/ Acknowledge
    BY <1>1, HandlerKeepsInv
  <1>2. CASE MAX3421E_init \/ USB_init
    BY <1>2, InitKeepsInv
  <1>3. CASE USB_Task
    BY <1>3, QuietTaskKeepsInv, CleanupKeepsInv, SetAddressKeepsInv, ConfigureKeepsInv
    DEF USB_Task, QuietTask
  <1>4. CASE Main
    BY <1>4, MainKeepsInv
  <1>5. CASE Hardware
    BY <1>5, HardwareKeepsInv
  <1>6. CASE \E d \in Devices \cup {Nothing, Shorted} : Plug(d)
    BY <1>6, HardwareKeepsInv
  <1>7. CASE UNCHANGED usbVars
    <2>1. UNCHANGED <<programVars, chipVars, busVars>>
      BY <1>7 DEF usbVars
    <2>2. UNCHANGED <<pc, state, devtable, tmpAddr, hidAddr, settling, running, device, seen>>
      BY <2>1 DEF programVars
    <2>3. UsbTypeOK'
      BY <2>1, <2>2 DEF UsbInv, UsbTypeOK, ProgramTypeOK, ChipTypeOK, BusTypeOK, chipVars, busVars
    <2> QED
      BY <2>2, <2>3, TableKept DEF UsbInv, LastIsBound, StateAtPc, RunningFlag
  <1> QED
    BY <1>1, <1>2, <1>3, <1>4, <1>5, <1>6, <1>7 DEF UsbNext, Program

(* The invariant, which the properties below follow from.                  *)
THEOREM UsbInvCorrect == UsbSpec => []UsbInv
  BY UsbInvInit, UsbInvStep, PTL DEF UsbSpec

(* Every variable keeps its type, and usb_task_state is only ever a code   *)
(* the model names, although the interrupt handler increments it blindly   *)
(* (MAX3421E.c:250).                                                       *)
THEOREM UsbTypeCorrect == UsbSpec => []UsbTypeOK
  <1>1. UsbInv => UsbTypeOK
    BY DEF UsbInv
  <1> QED
    BY <1>1, UsbInvCorrect, PTL

(* No null or too short endpoint record is ever followed (transfer.c:363;  *)
(* main.c:42; HID.c:219).                                                  *)
THEOREM TableIsSafe == UsbSpec => []TableIsFilledWhereFollowed
  <1>1. UsbInv => TableIsFilledWhereFollowed
    <2> SUFFICES ASSUME UsbInv PROVE TableIsFilledWhereFollowed
      OBVIOUS
    <2>1. ASSUME IsLast(tmpAddr)
          PROVE  /\ tmpAddr \in Address /\ devtable[tmpAddr].ep # "NULL"
                 /\ devtable[1].ep # "NULL"
      <3>1. tmpAddr \in Address /\ tmpAddr \in Used /\ 1 <= tmpAddr
        BY <2>1, UsbAssumption DEF IsLast, Used, Address
      <3>2. 1 \in Used
        BY <3>1, AddressIsNat DEF UsbInv, TakenInOrder
      <3> QED
        BY <3>1, <3>2 DEF Used, Free
    <2> QED
      BY <2>1 DEF UsbInv, LastIsBound, TableIsFilledWhereFollowed
  <1> QED
    BY <1>1, UsbInvCorrect, PTL

(* The main loop polls the device bound last, with its driver              *)
(* (main.c:182-188, 238).                                                  *)
THEOREM PollsAreRight == UsbSpec => []PollsTheBoundDevice
  <1>1. UsbInv => PollsTheBoundDevice
    <2> SUFFICES ASSUME UsbInv, pc = "main", state = RUNNING, running
                 PROVE  /\ hidAddr = tmpAddr
                        /\ device = devtable[hidAddr].class /\ device \in {HID_K, HID_M}
      BY DEF PollsTheBoundDevice
    <2>1. device = devtable[tmpAddr].class
      BY DEF UsbInv, RunningFlag
    <2>2. devtable[tmpAddr].class \in {0, HID_K, HID_M}
      BY DEF UsbInv, LastIsBound, IsLast, Used, UsbTypeOK, ProgramTypeOK, Entry
    <2> QED
      BY <2>1, <2>2 DEF UsbInv, LastIsBound, UsbTypeOK, ProgramTypeOK
  <1> QED
    BY <1>1, UsbInvCorrect, PTL

(***************************************************************************)
(* The bus reset                                                           *)
(***************************************************************************)

LEMMA ProbeStartsHost ==
  ASSUME UsbTypeOK, NEW lines, NEW m, MAX_busprobe(lines, m), state \notin Detached => m # "off"
  PROVE  /\ state' \notin Detached => mode' # "off"
         /\ state' \in Enumerating => state \in Enumerating
  BY DEF MAX_busprobe, Enumerating

LEMMA ResetInvStep ==
  ASSUME UsbTypeOK, StateAtPc, ResetInv, [UsbNext]_usbVars
  PROVE  ResetInv'
  <1> USE DEF ResetInv, RequestsFollowTheReset
  <1>1. CASE Hardware \/ \E d \in Devices \cup {Nothing, Shorted} : Plug(d)
    BY <1>1 DEF Hardware, BusResetDone, FrameStart, SettleTimePasses, Plug, programVars,
                chipVars, busVars
  <1>2. CASE MAX3421E_init
    <2>1. /\ state' \notin Detached => mode' # "off"
          /\ state' \in {ATTACHED, ILLEGAL, INITIALIZE, WAIT_FOR_DEVICE}
      BY <1>2 DEF MAX3421E_init, MAX_busprobe, StateAtPc
    <2> QED
      BY <1>2, <2>1 DEF MAX3421E_init, StateAtPc, Enumerating
  <1>3. CASE USB_init \/ MAX3421E_Task
    <2>1. /\ UNCHANGED <<state, busevent, busrst, mode>> /\ (seen.busevent => pc \in {"probe", "ack"})
          /\ pc \in {"usbinit", "irq"}
      BY <1>3 DEF USB_init, MAX3421E_Task, chipVars
    <2>2. seen'.busevent => busevent /\ pc' = "probe"
      BY <1>3, <2>1 DEF USB_init, MAX3421E_Task
    <2> QED
      BY <2>1, <2>2, Zenon
  <1>4. CASE Probe
    <2>1. /\ state' \notin Detached => mode' # "off"
          /\ state' \in Enumerating => state \in Enumerating
      BY <1>4, ProbeStartsHost DEF Probe
    <2>2. /\ UNCHANGED <<busevent, busrst, seen>> /\ pc' = "ack"
          /\ state' \in Enumerating => mode' # "off" /\ ~busrst
      BY <1>4, <2>1 DEF Probe, Enumerating
    <2> QED
      BY <2>1, <2>2, Zenon
  <1>5. CASE Acknowledge
    <2>1. state' \in Enumerating => seen.busevent /\ state = WAIT_RESET_COMPLETE
      BY <1>5 DEF Acknowledge, StateAtPc, Enumerating
    <2>2. state' \notin Detached => state \notin Detached
      BY <1>5 DEF Acknowledge, StateAtPc
    <2>3. mode' = mode /\ busrst' = busrst /\ seen' = NoFlags /\ (busevent' => busevent)
      BY <1>5 DEF Acknowledge
    <2> QED
      BY <2>1, <2>2, <2>3 DEF NoFlags
  <1>6. CASE USB_Task
    <2>0. pc = "task"
      BY <1>6, Zenon DEF USB_Task, Cleanup, StartSettling, Settled, StartBusReset, WaitReset,
         WaitSof, GetDescriptor, SetAddress, Configure, WaitForDevice, NothingToDo, TaskStep
    <2>1. ~seen.busevent
      BY <2>0, Zenon
    <2>2. CASE Cleanup \/ StartSettling \/ Settled
      <3>1. /\ state' \notin Enumerating
            /\ state' \notin Detached => state \notin Detached
        BY <2>2 DEF Cleanup, StartSettling, Settled, TaskStep, Enumerating
      <3>2. UNCHANGED <<busevent, busrst, mode, seen>>
        BY <2>2, Zenon DEF Cleanup, StartSettling, Settled, chipVars
      <3> QED
        BY <2>1, <3>1, <3>2, Zenon
    <2>5. CASE StartBusReset
      <3>1. state' \notin Enumerating /\ state \notin Detached
        BY <2>5 DEF StartBusReset, TaskStep, Enumerating
      <3>2. ~busevent' /\ UNCHANGED <<mode, seen>>
        BY <2>5, Zenon DEF StartBusReset
      <3> QED
        BY <2>1, <3>1, <3>2, Zenon
    <2>3. CASE WaitReset
      BY <2>1, <2>3 DEF WaitReset, TaskStep, Enumerating
    <2>4. CASE WaitSof \/ GetDescriptor \/ SetAddress \/ Configure \/ WaitForDevice \/ NothingToDo
      <3>1. /\ state' \in Enumerating => state \in Enumerating
            /\ state \in Enumerating \/ state' = state
            /\ UNCHANGED <<busevent, busrst, mode, seen>>
        BY <2>4 DEF WaitSof, GetDescriptor, SetAddress, Configure, Bind, NoDriverFound,
                    WaitForDevice, NothingToDo, TaskStep, chipVars, Enumerating
      <3> QED
        BY <2>1, <3>1
    <2> QED
      BY <1>6, <2>2, <2>3, <2>4, <2>5 DEF USB_Task
  <1>7. CASE Main
    BY <1>7 DEF Main, Report, Poll, InError, NotRunning, chipVars, busVars
  <1>8. CASE UNCHANGED usbVars
    BY <1>8 DEF usbVars, programVars, chipVars
  <1> QED
    BY <1>1, <1>2, <1>3, <1>4, <1>5, <1>6, <1>7, <1>8 DEF UsbNext, Program

(* No request goes out during a bus reset or from a host that is not       *)
(* started (MAX3421E.c:244-250; transfer.c:286-303).                       *)
THEOREM RequestsAreLateEnough == UsbSpec => []RequestsFollowTheReset
  <1>1. UsbInit => ResetInv
    BY DEF UsbInit, ResetInv, RequestsFollowTheReset, Enumerating, NoFlags
  <1>2. UsbInv => UsbTypeOK /\ StateAtPc
    BY DEF UsbInv
  <1>3. ResetInv => RequestsFollowTheReset
    BY DEF ResetInv
  <1> QED
    BY <1>1, <1>2, <1>3, ResetInvStep, UsbInvCorrect, PTL DEF UsbSpec

(***************************************************************************)
(* The order of the enumeration                                            *)
(***************************************************************************)

(* A step that changes neither the code nor the table is no abstract step. *)
LEMMA QuietStep ==
  ASSUME UNCHANGED <<state, devtable>>
  PROVE  UNCHANGED Phases!phaseVars
  BY TableKept DEF Phases!phaseVars, Phase

(* The interrupt handler and the reset of the chip are changes of the bus, *)
(* or the end of a bus reset.                                              *)
LEMMA HandlerSimulates ==
  ASSUME UsbInv, Probe \/ Acknowledge \/ MAX3421E_init
  PROVE  [Phases!PhasesNext]_(Phases!phaseVars)
  <1>0. Used' = Used
    BY TableKept DEF Probe, Acknowledge, MAX3421E_init
  <1>1. CASE Probe \/ MAX3421E_init
    <2>1. PICK lines \in LineStates, m \in {"off", "full", "low"} : MAX_busprobe(lines, m)
      BY <1>1, LineType DEF Probe, MAX3421E_init, UsbInv, UsbTypeOK, ChipTypeOK
    <2>2. state' \in {ATTACHED, ILLEGAL, INITIALIZE, WAIT_FOR_DEVICE} \/ state' = state
      BY <2>1, ProbeResult
    <2>3. CASE state' = state
      BY <1>0, <2>3 DEF Phases!phaseVars, Phase
    <2>4. CASE state' \in {ATTACHED, ILLEGAL, INITIALIZE, WAIT_FOR_DEVICE}
      BY <1>0, <2>4 DEF Phases!PhasesNext, Phases!BusChange, Phase
    <2> QED
      BY <2>2, <2>3, <2>4
  <1>2. CASE Acknowledge
    <2>1. state \in {INITIALIZE, WAIT_FOR_DEVICE, ILLEGAL, ATTACHED, WAIT_RESET_COMPLETE}
      BY <1>2 DEF UsbInv, StateAtPc, Acknowledge
    <2>2. state' \in {state, state + 1}
      BY <1>2 DEF Acknowledge
    <2>3. CASE state' = state \/ state # WAIT_RESET_COMPLETE
      BY <1>0, <2>1, <2>2, <2>3
      DEF Phases!PhasesNext, Phases!BusChange, Phases!phaseVars, Phase
    <2>4. CASE state = WAIT_RESET_COMPLETE /\ state' = WAIT_SOF
      BY <1>0, <2>4 DEF Phases!PhasesNext, Phases!Advance, Phase
    <2> QED
      BY <2>1, <2>2, <2>3, <2>4
  <1> QED
    BY <1>1, <1>2

(* The cleanups forget addresses while no device is enumerated.            *)
LEMMA CleanupSimulates ==
  ASSUME UsbInv, USB_init \/ Cleanup
  PROVE  [Phases!PhasesNext]_(Phases!phaseVars)
  <1>1. Used' = {}
    BY ClearedTable DEF USB_init, Cleanup
  <1>2. Phase \in {"detached", "illegal", "attached"} /\ Phase' = Phase
    <2>1. CASE USB_init
      BY <2>1 DEF USB_init, UsbInv, StateAtPc, Phase
    <2>2. CASE Cleanup
      BY <2>2 DEF Cleanup, TaskStep, Phase
    <2> QED
      BY <2>1, <2>2
  <1> QED
    BY <1>1, <1>2 DEF Phases!PhasesNext, Phases!Forget

(* The steps of USB_Task advance by one phase at a time.                   *)
LEMMA QuietTaskSimulates ==
  ASSUME UsbInv, QuietTask
  PROVE  [Phases!PhasesNext]_(Phases!phaseVars)
  <1>0. Used' = Used
    BY TableKept DEF QuietTask, StartSettling, Settled, StartBusReset, WaitReset, WaitSof,
                     GetDescriptor, WaitForDevice, NothingToDo
  <1>1. CASE StartBusReset
    <2>1. state = RESET_DEVICE /\ state' = WAIT_RESET_COMPLETE
      BY <1>1, Zenon DEF StartBusReset, TaskStep
    <2> QED
      BY <1>0, <2>1 DEF Phases!PhasesNext, Phases!Advance, Phase
  <1>2. CASE WaitReset
    <2>1. state = WAIT_RESET_COMPLETE /\ (state' = state \/ state' = WAIT_SOF)
      BY <1>2 DEF WaitReset, TaskStep
    <2> QED
      BY <1>0, <2>1 DEF Phases!PhasesNext, Phases!Advance, Phases!phaseVars, Phase
  <1>3. CASE GetDescriptor
    <2>1. state = GET_DEVICE_DESCRIPTOR_SIZE /\ (state' = ADDRESSING \/ state' = ERROR)
      BY <1>3, Zenon DEF GetDescriptor, TaskStep
    <2> QED
      BY <1>0, <2>1 DEF Phases!PhasesNext, Phases!Advance, Phase
  <1>4. CASE StartSettling \/ Settled \/ WaitSof \/ WaitForDevice \/ NothingToDo
    <2>1. Phase' = Phase
      <3>1. CASE StartSettling \/ WaitSof
        BY <3>1 DEF StartSettling, WaitSof, TaskStep, Phase
      <3>2. CASE Settled
        BY <3>2 DEF Settled, TaskStep, Phase
      <3>3. CASE WaitForDevice \/ NothingToDo
        BY <3>3 DEF WaitForDevice, NothingToDo, Phase
      <3> QED
        BY <1>4, <3>1, <3>2, <3>3
    <2> QED
      BY <1>0, <2>1 DEF Phases!phaseVars
  <1> QED
    BY <1>1, <1>2, <1>3, <1>4 DEF QuietTask

(* An address given is a new one, or there was none left.                  *)
LEMMA SetAddressSimulates ==
  ASSUME UsbInv, SetAddress
  PROVE  [Phases!PhasesNext]_(Phases!phaseVars)
  <1>1. state = ADDRESSING /\ Phase = "default"
    BY DEF SetAddress, TaskStep, Phase
  <1>2. CASE Free = {} /\ state' = ERROR /\ UNCHANGED <<devtable, tmpAddr, address>>
    <2>1. Address \subseteq Used /\ Used' = Used /\ Phase' = "failed"
      BY <1>2, TableKept DEF Used, Phase
    <2> QED
      BY <1>1, <2>1 DEF Phases!PhasesNext, Phases!OutOfAddresses, Phases!Advance
  <1>3. ASSUME NEW a \in Address, IsFirstFree(a),
               devtable' = [devtable EXCEPT ![a].ep = "dev0"],
               state' = CONFIGURING \/ state' = ERROR
        PROVE  Phases!PhasesNext
    <2>1. a \in Address \ Used /\ Used' = Used \cup {a}
      BY <1>3, AddressGiven
    <2>2. Phase' \in {"addressed", "failed"}
      BY <1>3 DEF Phase
    <2> QED
      BY <1>1, <2>1, <2>2 DEF Phases!PhasesNext, Phases!GiveAddress
  <1> QED
    BY <1>2, <1>3 DEF SetAddress

(* A configured device keeps its address.                                  *)
LEMMA ConfigureSimulates ==
  ASSUME UsbInv, Configure
  PROVE  [Phases!PhasesNext]_(Phases!phaseVars)
  <1>1. state = CONFIGURING /\ state' \in {RUNNING, ERROR}
    BY DEF Configure, TaskStep, Bind, NoDriverFound
  <1>2. Used' = Used
    <2>1. CASE Bind
      BY <1>1, <2>1, DriverBound
    <2>2. CASE NoDriverFound
      BY <2>2, TableKept DEF NoDriverFound
    <2> QED
      BY <2>1, <2>2 DEF Configure
  <1>3. Phase = "addressed" /\ (Phase' = "running" \/ Phase' = "failed")
    BY <1>1 DEF Phase
  <1> QED
    BY <1>2, <1>3 DEF Phases!PhasesNext, Phases!Advance

(* The host implements the abstract enumeration (transfer.c:255-384,       *)
(* MAX3421E.c:154-255, main.c:281-284).                                    *)
THEOREM UsbImplementsPhases == UsbSpec => ImplementsPhases
  <1>1. UsbInit => Phases!PhasesInit
    BY DEF UsbInit, Phases!PhasesInit, Phase, Used, Free, Cleared
  <1>2. UsbInv /\ [UsbNext]_usbVars => [Phases!PhasesNext]_(Phases!phaseVars)
    <2> SUFFICES ASSUME UsbInv, [UsbNext]_usbVars
                 PROVE  [Phases!PhasesNext]_(Phases!phaseVars)
      OBVIOUS
    <2>1. CASE UNCHANGED <<state, devtable>>
      BY <2>1, QuietStep
    <2>2. CASE Probe \/ Acknowledge \/ MAX3421E_init
      BY <2>2, HandlerSimulates
    <2>3. CASE USB_init \/ Cleanup
      BY <2>3, CleanupSimulates
    <2>4. CASE QuietTask
      BY <2>4, QuietTaskSimulates
    <2>5. CASE SetAddress
      BY <2>5, SetAddressSimulates
    <2>6. CASE Configure
      BY <2>6, ConfigureSimulates
    <2>7. ASSUME Hardware \/ (\E d \in Devices \cup {Nothing, Shorted} : Plug(d))
                 \/ MAX3421E_Task \/ Main \/ UNCHANGED usbVars
          PROVE  UNCHANGED <<state, devtable>>
      BY <2>7 DEF Hardware, BusResetDone, FrameStart, SettleTimePasses, Plug, MAX3421E_Task,
                  Main, Report, Poll, InError, NotRunning, usbVars, programVars
    <2> QED
      BY <2>1, <2>2, <2>3, <2>4, <2>5, <2>6, <2>7 DEF UsbNext, Program, USB_Task, QuietTask
  <1> QED
    BY <1>1, <1>2, UsbInvCorrect, PTL DEF UsbSpec, ImplementsPhases, Phases!PhasesSpec

=============================================================================
