----------------------------- MODULE UartProofs -----------------------------
(***************************************************************************)
(* What the program prints reaches the host as it was written, and the     *)
(* driver never forgets to send it, for every length of its ring and of    *)
(* the FIFO of the core.                                                   *)
(***************************************************************************)
EXTENDS JtagUart, SequenceTheorems, TLAPS

(***************************************************************************)
(* Characters are numbered round a circle                                  *)
(***************************************************************************)

LEMMA DivMod ==
  ASSUME NEW a \in Int, NEW d \in Nat \ {0}
  PROVE  /\ a \div d \in Int /\ a % d \in 0..(d - 1)
         /\ a = d * (a \div d) + (a % d)
  <1>1. a \div d \in Int
    OBVIOUS
  <1>2. a % d \in 0..(d - 1)
    OBVIOUS
  <1>3. a = d * (a \div d) + (a % d)
    OBVIOUS
  <1> QED
    BY <1>1, <1>2, <1>3

LEMMA ModUnique ==
  ASSUME NEW d \in Nat \ {0}, NEW q \in Int, NEW r \in 0..(d - 1)
  PROVE  (d * q + r) % d = r
  OBVIOUS

LEMMA ModPlus ==
  ASSUME NEW a \in Int, NEW b \in Int, NEW d \in Nat \ {0}
  PROVE  ((a % d) + b) % d = (a + b) % d
  <1> DEFINE q == a \div d
             r == a % d
             p == (r + b) \div d
             s == (r + b) % d
  <1>1. q \in Int /\ r \in 0..(d - 1) /\ a = d * q + r
    BY DivMod
  <1>2. r + b \in Int
    BY <1>1
  <1> HIDE DEF q, r
  <1>3. p \in Int /\ s \in 0..(d - 1) /\ r + b = d * p + s
    BY <1>2, DivMod
  <1> HIDE DEF p, s
  <1>4. a + b = d * (q + p) + s /\ q + p \in Int
    BY <1>1, <1>3
  <1>5. (a + b) % d = s
    BY <1>3, <1>4, ModUnique
  <1> QED
    BY <1>5 DEF r, s

LEMMA ModSmall ==
  ASSUME NEW d \in Nat \ {0}, NEW r \in 0..(d - 1)
  PROVE  r % d = r
  OBVIOUS

(* The character k places after the one the host expects next.             *)
Char(k) == (hostSaw + k) % Numbers

(***************************************************************************)
(* The ring and the FIFO                                                   *)
(***************************************************************************)

InRing == IF txIn < txOut THEN txIn + BufLen - txOut ELSE txIn - txOut
Offset(i) == IF i < txOut THEN i + BufLen - txOut ELSE i - txOut
OnItsWay == Len(wfifo) + InRing

(* The characters of a round fit in the ring, without going round it.      *)
RoundFits ==
  /\ pc \in {"copy", "publish"} => n >= 1 /\ InRing + n <= BufLen - 1 /\ txIn + n <= BufLen
  /\ pc = "copy" => n <= count

(* The FIFO and the ring after it hold what the host expects.              *)
FifoHolds == \A i \in 1..Len(wfifo) : wfifo[i] = Char(i - 1)
RingHolds == \A i \in Slot : Offset(i) < InRing => txBuf[i] = Char(Len(wfifo) + Offset(i))

(* What was copied and is not published yet comes after it,                *)
Copied ==
  pc = "publish" => \A i \in txIn..(txIn + n - 1) : txBuf[i] = Char(OnItsWay + (i - txIn))

(* and then what the program writes next.                                  *)
WritesNext == ptr = Char(OnItsWay + (IF pc = "publish" THEN n ELSE 0))

(* The handler never counts on more room than there is.                    *)
SpaceIsThere == isr \in {"read", "write"} => control.WSPACE <= Depth - Len(wfifo)

(* NoTextIsStranded, while the handler runs too.                           *)
WillBeSent ==
  txIn # txOut /\ "WE" \notin irqEnable => pc \in {"space", "copy", "publish", "kick"}

UartInv ==
  /\ UartTypeOK /\ hostSaw \in Number /\ wfifo \in Seq(Number)
  /\ RoundFits /\ FifoHolds /\ RingHolds /\ Copied /\ WritesNext
  /\ SpaceIsThere /\ WillBeSent

LEMMA CharType == ASSUME hostSaw \in Number, NEW k \in Int PROVE Char(k) \in Number
  <1> USE UartAssumption
  <1>1. Numbers \in Nat \ {0} /\ hostSaw + k \in Int
    BY DEF Number
  <1> QED
    BY <1>1, DivMod DEF Char, Number

LEMMA CharPlus ==
  ASSUME hostSaw \in Number, NEW k \in Int, NEW m \in Int
  PROVE  (Char(k) + m) % Numbers = Char(k + m)
  <1> USE UartAssumption
  <1>1. Numbers \in Nat \ {0} /\ hostSaw + k \in Int /\ hostSaw + (k + m) = (hostSaw + k) + m
    BY DEF Number
  <1>2. (((hostSaw + k) % Numbers) + m) % Numbers = ((hostSaw + k) + m) % Numbers
    BY <1>1, ModPlus
  <1> QED
    BY <1>1, <1>2 DEF Char

LEMMA CharNow == ASSUME hostSaw \in Number PROVE Char(0) = hostSaw
  <1> USE UartAssumption
  <1>1. Numbers \in Nat \ {0} /\ hostSaw + 0 = hostSaw /\ hostSaw \in 0..(Numbers - 1)
    BY DEF Number
  <1> QED
    BY <1>1, ModSmall DEF Char

LEMMA RingType ==
  ASSUME UartTypeOK
  PROVE  /\ InRing \in 0..(BufLen - 1) /\ Len(wfifo) \in 0..Depth /\ OnItsWay \in Nat
         /\ OnItsWay <= BufLen - 1 + Depth
         /\ \A i \in Slot : Offset(i) \in 0..(BufLen - 1)
  <1> USE UartAssumption
  <1>1. InRing \in 0..(BufLen - 1)
    BY DEF UartTypeOK, InRing, Slot
  <1>2. Len(wfifo) \in 0..Depth
    BY DEF UartTypeOK
  <1>3. \A i \in Slot : Offset(i) \in 0..(BufLen - 1)
    BY DEF UartTypeOK, Offset, Slot
  <1> QED
    BY <1>1, <1>2, <1>3 DEF OnItsWay

LEMMA SlotSteps ==
  ASSUME NEW i \in Slot
  PROVE  /\ NextSlot(i) = IF i + 1 < BufLen THEN i + 1 ELSE 0
         /\ \A k \in 0..(BufLen - i) : (i + k) % BufLen = IF i + k < BufLen THEN i + k ELSE 0
  <1> USE UartAssumption
  <1>1. \A k \in 0..(BufLen - i) : (i + k) % BufLen = IF i + k < BufLen THEN i + k ELSE 0
    <2> SUFFICES ASSUME NEW k \in 0..(BufLen - i)
                 PROVE  (i + k) % BufLen = IF i + k < BufLen THEN i + k ELSE 0
      OBVIOUS
    <2>1. CASE i + k < BufLen
      BY <2>1, ModSmall DEF Slot
    <2>2. CASE i + k = BufLen
      <3>1. BufLen % BufLen = 0
        BY ModUnique
      <3> QED
        BY <2>2, <3>1
    <2> QED
      BY <2>1, <2>2 DEF Slot
  <1>2. 1 \in 0..(BufLen - i)
    BY DEF Slot
  <1> QED
    BY <1>1, <1>2 DEF NextSlot, Slot

LEMMA UartInvInit == UartInit => UartInv
  <1> USE UartAssumption
  <1> SUFFICES ASSUME UartInit PROVE UartInv
    OBVIOUS
  <1>1. hostSaw \in Number /\ ptr \in Number /\ hostSaw = 0 /\ ptr = 0
    BY DEF UartInit, Number
  <1>2. UartTypeOK
    <2>1. /\ count \in 0..MaxCount /\ out \in Slot /\ n \in 0..(BufLen - 1)
          /\ txIn \in Slot /\ txOut \in Slot /\ rxIn \in Slot
          /\ hostInactive \in 0..Timeout /\ received \in 0..Depth
      BY DEF UartInit, Slot
    <2>2. /\ txBuf \in [Slot -> Number \cup {Garbage}]
          /\ control \in [WI : BOOLEAN, WSPACE : 0..Depth]
      BY DEF UartInit, NoControl
    <2>3. wfifo \in Seq(Number \cup {Garbage}) /\ Len(wfifo) <= Depth
      BY DEF UartInit
    <2>4. /\ irqEnable \subseteq {"RE", "WE"} /\ isr = "off" /\ avail \in BOOLEAN
          /\ ac \in BOOLEAN /\ pauseIrq \in BOOLEAN /\ pc = "idle"
      BY DEF UartInit
    <2> QED
      BY <1>1, <2>1, <2>2, <2>3, <2>4 DEF UartTypeOK
  <1>3. InRing = 0 /\ OnItsWay = 0
    BY DEF UartInit, InRing, OnItsWay
  <1>4. RingHolds
    BY <1>2, <1>3, RingType DEF RingHolds
  <1>5. WritesNext
    BY <1>1, <1>3, CharNow DEF UartInit, WritesNext
  <1> QED
    BY <1>1, <1>2, <1>4, <1>5
    DEF UartInit, UartInv, RoundFits, FifoHolds, Copied, SpaceIsThere, WillBeSent

(* A step that moves no character keeps what is known of them.             *)
LEMMA TextStands ==
  ASSUME UartInv, UartTypeOK', UNCHANGED <<ptr, txIn, txBuf, txOut, wfifo, hostSaw>>,
         (pc = "publish") <=> (pc' = "publish"), pc = "publish" => n' = n,
         RoundFits', SpaceIsThere', WillBeSent'
  PROVE  UartInv'
  <1>1. /\ InRing' = InRing /\ OnItsWay' = OnItsWay
        /\ \A i : Offset(i)' = Offset(i) /\ Char(i)' = Char(i)
    BY DEF InRing, OnItsWay, Offset, Char
  <1>2. FifoHolds' /\ RingHolds'
    BY <1>1 DEF UartInv, FifoHolds, RingHolds
  <1>3. Copied' /\ WritesNext'
    BY <1>1 DEF UartInv, Copied, WritesNext
  <1> QED
    BY <1>2, <1>3 DEF UartInv

LEMMA WriteKeeps == UartInv /\ Write => UartInv'
  <1> USE UartAssumption
  <1> SUFFICES ASSUME UartInv, Write PROVE UartInv'
    OBVIOUS
  <1>1. /\ pc = "idle" /\ pc' = "space" /\ count' \in 1..MaxCount
        /\ UNCHANGED <<ptr, out, n, ringVars, driverVars, isrVars, coreVars>>
    BY DEF Write, At, Goto
  <1>2. UartTypeOK'
    BY <1>1 DEF UartInv, UartTypeOK, ringVars, driverVars, isrVars, coreVars
  <1>3. RoundFits' /\ SpaceIsThere' /\ WillBeSent'
    BY <1>1 DEF UartInv, RoundFits, SpaceIsThere, WillBeSent, isrVars, coreVars
  <1> QED
    BY <1>1, <1>2, <1>3, TextStands DEF ringVars, coreVars

LEMMA SpaceKeeps == UartInv /\ Space => UartInv'
  <1> USE UartAssumption
  <1> SUFFICES ASSUME UartInv, Space PROVE UartInv'
    OBVIOUS
  <1>1. /\ pc = "space" /\ out' = txOut
        /\ n' = Least(Room(txIn, txOut), count) /\ pc' = IF n' > 0 THEN "copy" ELSE "kick"
        /\ UNCHANGED <<count, ptr, ringVars, driverVars, isrVars, coreVars>>
    BY DEF Space, At, Goto
  <1>2. /\ n' \in Nat /\ n' <= count /\ n' <= BufLen - 1
        /\ InRing + n' <= BufLen - 1 /\ txIn + n' <= BufLen
    BY <1>1 DEF UartInv, UartTypeOK, Least, Room, InRing, Slot
  <1>3. UartTypeOK'
    BY <1>1, <1>2 DEF UartInv, UartTypeOK, ringVars, driverVars, isrVars, coreVars
  <1>4. RoundFits'
    BY <1>1, <1>2 DEF RoundFits, InRing, ringVars
  <1>5. SpaceIsThere' /\ WillBeSent'
    BY <1>1 DEF UartInv, SpaceIsThere, WillBeSent, isrVars, coreVars
  <1> QED
    BY <1>1, <1>3, <1>4, <1>5, TextStands DEF ringVars, coreVars

LEMMA KickKeeps == UartInv /\ Kick => UartInv'
  <1> USE UartAssumption
  <1> SUFFICES ASSUME UartInv, Kick PROVE UartInv'
    OBVIOUS
  <1>1. /\ pc = "kick" /\ irqEnable' = irqEnable \cup {"WE"}
        /\ \/ pc' = "wait" /\ UNCHANGED <<out, n>>
           \/ pc' = "idle" /\ n' = 0 /\ out' = 0
        /\ UNCHANGED <<count, ptr, ringVars, hostInactive, isrVars, coreVars>>
    BY DEF Kick, At, Goto, NewRound
  <1>2. UartTypeOK'
    BY <1>1 DEF UartInv, UartTypeOK, ringVars, isrVars, coreVars, Slot
  <1>3. RoundFits' /\ SpaceIsThere' /\ WillBeSent'
    BY <1>1 DEF UartInv, RoundFits, SpaceIsThere, WillBeSent, isrVars, coreVars
  <1> QED
    BY <1>1, <1>2, <1>3, TextStands DEF ringVars, coreVars

LEMMA WaitKeeps == UartInv /\ (Wait \/ Check) => UartInv'
  <1> USE UartAssumption
  <1> SUFFICES ASSUME UartInv, Wait \/ Check PROVE UartInv'
    OBVIOUS
  <1>1. /\ pc \in {"wait", "check"} /\ pc' \in {"check", "idle", "space"}
        /\ n' \in {0, n} /\ out' \in {0, out} /\ count' \in {0, count}
        /\ UNCHANGED <<ptr, ringVars, driverVars, isrVars, coreVars>>
    BY DEF Wait, Check, At, Goto, NewRound
  <1>2. UartTypeOK'
    BY <1>1 DEF UartInv, UartTypeOK, ringVars, driverVars, isrVars, coreVars, Slot
  <1>3. RoundFits' /\ SpaceIsThere' /\ WillBeSent'
    BY <1>1 DEF UartInv, RoundFits, SpaceIsThere, WillBeSent, ringVars, driverVars, isrVars, coreVars
  <1> QED
    BY <1>1, <1>2, <1>3, TextStands DEF ringVars, coreVars

LEMMA ControlKeeps == UartInv /\ Control => UartInv'
  <1> USE UartAssumption
  <1> SUFFICES ASSUME UartInv, Control PROVE UartInv'
    OBVIOUS
  <1>1. UNCHANGED <<callVars, ringVars, driverVars, coreVars>>
    BY DEF Control
  <1>2. /\ isr' \in {"off", "read", "write"} /\ control' \in [WI : BOOLEAN, WSPACE : 0..Depth]
        /\ avail' \in BOOLEAN
        /\ isr' \in {"read", "write"} => control'.WSPACE = Depth - Len(wfifo)
    <2>1. RI \in BOOLEAN /\ WI \in BOOLEAN
      BY DEF RI, WI, UartInv, UartTypeOK
    <2>2. Len(wfifo) \in 0..Depth
      BY RingType DEF UartInv
    <2>3. CASE RI \/ WI
      <3>1. /\ control' = [WI |-> WI, WSPACE |-> Depth - Len(wfifo)]
            /\ isr' = IF RI THEN "read" ELSE "write"
            /\ avail' = RI
        BY <2>3, Zenon DEF Control
      <3>2. Depth - Len(wfifo) \in 0..Depth
        BY <2>2
      <3> QED
        BY <2>1, <3>1, <3>2
    <2>4. CASE ~RI /\ ~WI
      <3>1. isr' = "off" /\ control' = [WI |-> FALSE, WSPACE |-> 0] /\ avail' = FALSE
        BY <2>4, Zenon DEF Control, Return, NoControl
      <3>2. 0 \in 0..Depth
        OBVIOUS
      <3>3. control' \in [WI : BOOLEAN, WSPACE : 0..Depth]
        BY <3>1, <3>2
      <3> QED
        BY <3>1, <3>3
    <2> QED
      BY <2>3, <2>4
  <1>3. UartTypeOK'
    BY <1>1, <1>2 DEF UartInv, UartTypeOK, callVars, ringVars, driverVars, coreVars
  <1>4. RoundFits' /\ WillBeSent'
    BY <1>1 DEF UartInv, RoundFits, WillBeSent, InRing, callVars, ringVars, driverVars
  <1>5. SpaceIsThere'
    BY <1>1, <1>2 DEF UartInv, SpaceIsThere, UartTypeOK, coreVars
  <1> QED
    BY <1>1, <1>3, <1>4, <1>5, TextStands DEF callVars, ringVars, coreVars

LEMMA ReadDataKeeps == UartInv /\ ReadData => UartInv'
  <1> USE UartAssumption
  <1> SUFFICES ASSUME UartInv, ReadData PROVE UartInv'
    OBVIOUS
  <1>1. /\ rxIn' = NextSlot(rxIn) /\ received > 0 /\ received' = received - 1
        /\ avail' \in BOOLEAN /\ pauseIrq' = FALSE
        /\ UNCHANGED <<callVars, txIn, txBuf, txOut, driverVars, isr, control, wfifo, ac, hostSaw>>
    <2>1. (received' > 0) \in BOOLEAN
      OBVIOUS
    <2> QED
      BY <2>1 DEF ReadData
  <1>2. rxIn' \in Slot
    BY <1>1, SlotSteps DEF UartInv, UartTypeOK, Slot
  <1>3. UartTypeOK'
    <2>1. received' \in 0..Depth
      BY <1>1 DEF UartInv, UartTypeOK
    <2> QED
      BY <1>1, <1>2, <2>1 DEF UartInv, UartTypeOK, callVars, driverVars
  <1>4. RoundFits' /\ WillBeSent' /\ SpaceIsThere'
    BY <1>1 DEF UartInv, RoundFits, WillBeSent, SpaceIsThere, InRing, callVars, driverVars
  <1> QED
    BY <1>1, <1>3, <1>4, TextStands DEF callVars

LEMMA ReadDoneKeeps == UartInv /\ ReadDone => UartInv'
  <1> USE UartAssumption
  <1> SUFFICES ASSUME UartInv, ReadDone PROVE UartInv'
    OBVIOUS
  <1>1. /\ isr = "read" /\ isr' \in {"write", "control"}
        /\ irqEnable' \in {irqEnable, irqEnable \ {"RE"}}
        /\ UNCHANGED <<callVars, ringVars, hostInactive, control, wfifo, received, ac, hostSaw>>
    BY DEF ReadDone
  <1>2. avail' \in BOOLEAN /\ pauseIrq' \in BOOLEAN
    BY DEF ReadDone, RxFull
  <1>3. UartTypeOK'
    BY <1>1, <1>2 DEF UartInv, UartTypeOK, callVars, ringVars
  <1>4. RoundFits' /\ WillBeSent' /\ SpaceIsThere'
    BY <1>1 DEF UartInv, RoundFits, WillBeSent, SpaceIsThere, InRing, callVars, ringVars
  <1> QED
    BY <1>1, <1>3, <1>4, TextStands DEF callVars, ringVars

LEMMA WriteDoneKeeps == UartInv /\ WriteDone => UartInv'
  <1> USE UartAssumption
  <1> SUFFICES ASSUME UartInv, WriteDone PROVE UartInv'
    OBVIOUS
  <1>1. /\ control.WSPACE = 0 \/ txOut = txIn
        /\ irqEnable' = IF control.WSPACE > 0 THEN irqEnable \ {"WE"} ELSE irqEnable
        /\ isr' = "control" /\ control' = [WI |-> FALSE, WSPACE |-> 0] /\ avail' = FALSE
        /\ UNCHANGED <<callVars, ringVars, hostInactive, coreVars>>
    BY DEF WriteDone, NoControl
  <1>2. control' \in [WI : BOOLEAN, WSPACE : 0..Depth]
    BY <1>1
  <1>3. UartTypeOK'
    BY <1>1, <1>2 DEF UartInv, UartTypeOK, callVars, ringVars, coreVars
  <1>4. RoundFits' /\ SpaceIsThere'
    BY <1>1 DEF UartInv, RoundFits, SpaceIsThere, InRing, callVars, ringVars
  <1>5. WillBeSent'
    BY <1>1 DEF UartInv, WillBeSent, callVars, ringVars
  <1> QED
    BY <1>1, <1>3, <1>4, <1>5, TextStands DEF callVars, ringVars, coreVars

LEMMA SecondKeeps == UartInv /\ Second => UartInv'
  <1> USE UartAssumption
  <1> SUFFICES ASSUME UartInv, Second PROVE UartInv'
    OBVIOUS
  <1>1. /\ ac' = FALSE
        /\ UNCHANGED <<callVars, ringVars, irqEnable, isrVars, wfifo, received, pauseIrq, hostSaw>>
    BY DEF Second
  <1>2. hostInactive' \in 0..Timeout
    BY DEF Second, Least, UartInv, UartTypeOK
  <1>3. UartTypeOK'
    BY <1>1, <1>2 DEF UartInv, UartTypeOK, callVars, ringVars, isrVars
  <1>4. RoundFits' /\ WillBeSent' /\ SpaceIsThere'
    BY <1>1 DEF UartInv, RoundFits, WillBeSent, SpaceIsThere, InRing, callVars, ringVars, isrVars
  <1> QED
    BY <1>1, <1>3, <1>4, TextStands DEF callVars, ringVars

LEMMA HostTypesKeeps == UartInv /\ (HostTypes \/ HostPauses) => UartInv'
  <1> USE UartAssumption
  <1> SUFFICES ASSUME UartInv, HostTypes \/ HostPauses PROVE UartInv'
    OBVIOUS
  <1>1. /\ ac' = TRUE
        /\ UNCHANGED <<callVars, ringVars, driverVars, isrVars, wfifo, hostSaw>>
    BY DEF HostTypes, HostPauses
  <1>2. received' \in 0..Depth /\ pauseIrq' \in BOOLEAN
    <2>1. received \in 0..Depth /\ pauseIrq \in BOOLEAN
      BY DEF UartInv, UartTypeOK
    <2>2. CASE HostTypes
      BY <2>1, <2>2 DEF HostTypes
    <2>3. CASE HostPauses
      BY <2>1, <2>3 DEF HostPauses
    <2> QED
      BY <2>2, <2>3
  <1>3. UartTypeOK'
    BY <1>1, <1>2 DEF UartInv, UartTypeOK, callVars, ringVars, driverVars, isrVars
  <1>4. RoundFits' /\ WillBeSent' /\ SpaceIsThere'
    BY <1>1 DEF UartInv, RoundFits, WillBeSent, SpaceIsThere, InRing, callVars, ringVars,
       driverVars, isrVars
  <1> QED
    BY <1>1, <1>3, <1>4, TextStands DEF callVars, ringVars

(* The slots of a round are free, and follow the ring.                     *)
LEMMA RoundIsFree ==
  ASSUME UartInv, pc \in {"copy", "publish"}
  PROVE  /\ n \in 1..(BufLen - 1) /\ InRing + n <= BufLen - 1 /\ txIn + n <= BufLen
         /\ txIn..(txIn + n - 1) \subseteq Slot
         /\ \A i \in Slot : i \in txIn..(txIn + n - 1) <=> InRing <= Offset(i) /\ Offset(i) < InRing + n
         /\ \A i \in txIn..(txIn + n - 1) : Offset(i) = InRing + (i - txIn)
  <1> USE UartAssumption
  <1>1. n \in 1..(BufLen - 1) /\ InRing + n <= BufLen - 1 /\ txIn + n <= BufLen
    BY DEF UartInv, UartTypeOK, RoundFits
  <1>2. txIn \in 0..(BufLen - 1) /\ txOut \in 0..(BufLen - 1)
    BY DEF UartInv, UartTypeOK, Slot
  <1>3. txIn..(txIn + n - 1) \subseteq Slot
    BY <1>1, <1>2 DEF Slot
  <1>4. \A i \in Slot : i \in txIn..(txIn + n - 1) <=> InRing <= Offset(i) /\ Offset(i) < InRing + n
    BY <1>1, <1>2 DEF InRing, Offset, Slot
  <1>5. \A i \in txIn..(txIn + n - 1) : Offset(i) = InRing + (i - txIn)
    BY <1>1, <1>2 DEF InRing, Offset
  <1> QED
    BY <1>1, <1>3, <1>4, <1>5

LEMMA CopyKeeps == UartInv /\ Copy => UartInv'
  <1> USE UartAssumption
  <1> SUFFICES ASSUME UartInv, Copy PROVE UartInv'
    OBVIOUS
  <1>1. /\ pc = "copy" /\ pc' = "publish"
        /\ txBuf' = [i \in Slot |->
             IF i \in txIn..(txIn + n - 1) THEN (ptr + i - txIn) % Numbers ELSE txBuf[i]]
        /\ ptr' = (ptr + n) % Numbers /\ count' = count - n
        /\ UNCHANGED <<out, n, txIn, txOut, rxIn, driverVars, isrVars, coreVars>>
    BY DEF Copy, At, Goto
  <1>2. /\ n \in 1..(BufLen - 1) /\ n <= count /\ InRing + n <= BufLen - 1 /\ txIn + n <= BufLen
        /\ txIn..(txIn + n - 1) \subseteq Slot
        /\ \A i \in Slot : i \in txIn..(txIn + n - 1) <=> InRing <= Offset(i) /\ Offset(i) < InRing + n
    BY <1>1, RoundIsFree DEF UartInv, RoundFits
  <1>3. /\ InRing \in 0..(BufLen - 1) /\ Len(wfifo) \in Nat /\ OnItsWay \in Nat
        /\ hostSaw \in Number /\ txIn \in Int
        /\ ptr = Char(OnItsWay) /\ ptr \in Int
    <2>1. ptr = Char(OnItsWay + 0) /\ OnItsWay \in Nat
      BY <1>1, RingType DEF UartInv, WritesNext
    <2> QED
      BY <2>1, RingType DEF UartInv, UartTypeOK, Slot, Number
  <1>4. /\ InRing' = InRing /\ OnItsWay' = OnItsWay
        /\ \A i : Offset(i)' = Offset(i) /\ Char(i)' = Char(i)
    BY <1>1 DEF InRing, OnItsWay, Offset, Char, coreVars
  <1>5. \A i \in txIn..(txIn + n - 1) : txBuf'[i] = Char(OnItsWay + (i - txIn))
    <2> SUFFICES ASSUME NEW i \in txIn..(txIn + n - 1)
                 PROVE  txBuf'[i] = Char(OnItsWay + (i - txIn))
      OBVIOUS
    <2>1. i \in Slot /\ i - txIn \in Int /\ ptr + i - txIn = ptr + (i - txIn)
      BY <1>2, <1>3
    <2>2. txBuf'[i] = (Char(OnItsWay) + (i - txIn)) % Numbers
      BY <1>1, <1>3, <2>1
    <2> QED
      BY <1>3, <2>1, <2>2, CharPlus
  <1>6. \A i \in Slot : Offset(i) < InRing => txBuf'[i] = txBuf[i]
    <2> SUFFICES ASSUME NEW i \in Slot, Offset(i) < InRing PROVE txBuf'[i] = txBuf[i]
      OBVIOUS
    <2>1. Offset(i) \in Int
      BY RingType DEF UartInv
    <2>2. i \notin txIn..(txIn + n - 1)
      BY <1>2, <1>3, <2>1
    <2> QED
      BY <1>1, <2>2
  <1>7. ptr' = Char(OnItsWay + n)
    BY <1>1, <1>2, <1>3, CharPlus
  <1>8. UartTypeOK'
    <2>1. txBuf' \in [Slot -> Number \cup {Garbage}]
      <3>1. \A i \in Slot : txBuf'[i] \in Number \cup {Garbage}
        <4> SUFFICES ASSUME NEW i \in Slot PROVE txBuf'[i] \in Number \cup {Garbage}
          OBVIOUS
        <4>1. CASE i \in txIn..(txIn + n - 1)
          <5>1. txBuf'[i] = Char(OnItsWay + (i - txIn)) /\ OnItsWay + (i - txIn) \in Int
            BY <1>3, <1>5, <4>1
          <5> QED
            BY <1>3, <5>1, CharType
        <4>2. CASE i \notin txIn..(txIn + n - 1)
          BY <1>1, <4>2 DEF UartInv, UartTypeOK
        <4> QED
          BY <4>1, <4>2
      <3>2. txBuf' = [i \in Slot |-> txBuf'[i]]
        BY <1>1
      <3> QED
        BY <3>1, <3>2
    <2>2. ptr' \in Number
      BY <1>2, <1>3, <1>7, CharType
    <2>3. count' \in 0..MaxCount
      BY <1>1, <1>2 DEF UartInv, UartTypeOK
    <2> QED
      BY <1>1, <2>1, <2>2, <2>3 DEF UartInv, UartTypeOK, driverVars, isrVars, coreVars
  <1>9. FifoHolds' /\ SpaceIsThere' /\ WillBeSent'
    BY <1>1, <1>4 DEF UartInv, FifoHolds, SpaceIsThere, WillBeSent, coreVars, isrVars, driverVars
  <1>10. RingHolds'
    BY <1>1, <1>4, <1>6 DEF UartInv, RingHolds, coreVars
  <1>11. Copied' /\ WritesNext' /\ RoundFits'
    BY <1>1, <1>2, <1>4, <1>5, <1>7 DEF Copied, WritesNext, RoundFits
  <1> QED
    BY <1>1, <1>8, <1>9, <1>10, <1>11 DEF UartInv, coreVars

LEMMA PublishKeeps == UartInv /\ Publish => UartInv'
  <1> USE UartAssumption
  <1> SUFFICES ASSUME UartInv, Publish PROVE UartInv'
    OBVIOUS
  <1>1. /\ pc = "publish" /\ pc' = "space" /\ txIn' = (txIn + n) % BufLen /\ n' = 0 /\ out' = 0
        /\ UNCHANGED <<count, ptr, txBuf, txOut, rxIn, driverVars, isrVars, coreVars>>
    BY DEF Publish, At, Goto, NewRound
  <1>2. /\ n \in 1..(BufLen - 1) /\ InRing + n <= BufLen - 1 /\ txIn + n <= BufLen
        /\ \A i \in Slot : i \in txIn..(txIn + n - 1) <=> InRing <= Offset(i) /\ Offset(i) < InRing + n
        /\ \A i \in txIn..(txIn + n - 1) : Offset(i) = InRing + (i - txIn)
    BY <1>1, RoundIsFree
  <1>3. /\ InRing \in 0..(BufLen - 1) /\ Len(wfifo) \in Nat /\ OnItsWay = Len(wfifo) + InRing
        /\ txIn \in 0..(BufLen - 1) /\ txOut \in 0..(BufLen - 1)
        /\ \A i \in Slot : Offset(i) \in 0..(BufLen - 1)
    <2>1. txIn \in 0..(BufLen - 1) /\ txOut \in 0..(BufLen - 1)
      BY DEF UartInv, UartTypeOK, Slot
    <2>2. UartTypeOK
      BY DEF UartInv
    <2>3. Len(wfifo) \in Nat
      BY <2>2, RingType
    <2> QED
      BY <2>1, <2>2, <2>3, RingType DEF OnItsWay
  <1>4. txIn' = IF txIn + n < BufLen THEN txIn + n ELSE 0
    <2>1. n \in 0..(BufLen - txIn) /\ txIn \in Slot
      BY <1>2, <1>3 DEF Slot
    <2> QED
      BY <1>1, <2>1, SlotSteps
  <1>5. /\ InRing' = InRing + n /\ OnItsWay' = OnItsWay + n
        /\ \A i : Offset(i)' = Offset(i) /\ Char(i)' = Char(i)
    <2>1. InRing' = InRing + n
      <3>1. txOut' = txOut
        BY <1>1
      <3>2. CASE txIn + n < BufLen
        BY <1>2, <1>3, <1>4, <3>1, <3>2 DEF InRing
      <3>3. CASE txIn + n = BufLen
        BY <1>2, <1>3, <1>4, <3>1, <3>3 DEF InRing
      <3> QED
        BY <1>2, <1>3, <3>2, <3>3
    <2> QED
      BY <1>1, <1>2, <1>3, <2>1 DEF OnItsWay, Offset, Char, coreVars
  <1>6. UartTypeOK'
    <2>1. txIn' \in Slot /\ n' \in 0..(BufLen - 1) /\ out' \in Slot
      BY <1>1, <1>2, <1>3, <1>4 DEF Slot
    <2> QED
      BY <1>1, <2>1 DEF UartInv, UartTypeOK, driverVars, isrVars, coreVars
  <1>7. RingHolds'
    <2> SUFFICES ASSUME NEW i \in Slot, Offset(i) < InRing + n
                 PROVE  txBuf[i] = Char(Len(wfifo) + Offset(i))
      BY <1>1, <1>5 DEF RingHolds, coreVars
    <2>1. CASE Offset(i) < InRing
      BY <2>1 DEF UartInv, RingHolds
    <2>2. CASE InRing <= Offset(i)
      <3>1. i \in txIn..(txIn + n - 1) /\ Offset(i) = InRing + (i - txIn)
        BY <1>2, <2>2
      <3>2. txBuf[i] = Char(OnItsWay + (i - txIn))
        BY <1>1, <3>1 DEF UartInv, Copied
      <3>3. OnItsWay + (i - txIn) = Len(wfifo) + Offset(i)
        BY <1>2, <1>3, <3>1
      <3> QED
        BY <3>2, <3>3
    <2> QED
      BY <1>3, <2>1, <2>2
  <1>8. FifoHolds' /\ SpaceIsThere'
    BY <1>1, <1>5 DEF UartInv, FifoHolds, SpaceIsThere, coreVars, isrVars
  <1>9. WritesNext'
    <2>1. ptr = Char(OnItsWay + n)
      BY <1>1 DEF UartInv, WritesNext
    <2>2. OnItsWay + n + 0 = OnItsWay + n
      BY <1>2, <1>3
    <2> QED
      BY <1>1, <1>5, <2>1, <2>2 DEF WritesNext
  <1>10. Copied' /\ RoundFits' /\ WillBeSent'
    BY <1>1 DEF Copied, RoundFits, WillBeSent
  <1> QED
    BY <1>1, <1>6, <1>7, <1>8, <1>9, <1>10 DEF UartInv, coreVars

LEMMA WriteDataKeeps == UartInv /\ WriteData => UartInv'
  <1> USE UartAssumption
  <1> SUFFICES ASSUME UartInv, WriteData PROVE UartInv'
    OBVIOUS
  <1>1. /\ InRing \in 0..(BufLen - 1) /\ Len(wfifo) \in 0..Depth /\ OnItsWay = Len(wfifo) + InRing
        /\ txIn \in 0..(BufLen - 1) /\ txOut \in 0..(BufLen - 1) /\ wfifo \in Seq(Number)
        /\ \A i \in Slot : Offset(i) \in 0..(BufLen - 1)
    <2>1. txIn \in 0..(BufLen - 1) /\ txOut \in 0..(BufLen - 1) /\ wfifo \in Seq(Number)
      BY DEF UartInv, UartTypeOK, Slot
    <2>2. UartTypeOK
      BY DEF UartInv
    <2> QED
      BY <2>1, <2>2, RingType DEF OnItsWay
  <1>2. /\ isr = "write" /\ control.WSPACE > 0 /\ control.WSPACE \in 0..Depth
        /\ control.WSPACE <= Depth - Len(wfifo)
    BY DEF WriteData, UartInv, SpaceIsThere, UartTypeOK
  <1>3. /\ txOut # txIn /\ Len(wfifo) < Depth
        /\ wfifo' = Append(wfifo, txBuf[txOut]) /\ txOut' = NextSlot(txOut)
        /\ control' = [control EXCEPT !.WSPACE = @ - 1]
        /\ UNCHANGED <<callVars, txIn, txBuf, rxIn, driverVars, isr, avail,
                       received, ac, pauseIrq, hostSaw>>
    <2>1. Len(wfifo) < Depth
      BY <1>1, <1>2
    <2> QED
      BY <2>1 DEF WriteData
  <1>4. txOut' = IF txOut + 1 < BufLen THEN txOut + 1 ELSE 0
    BY <1>1, <1>3, SlotSteps DEF Slot
  <1>5. /\ InRing > 0 /\ InRing' = InRing - 1 /\ Offset(txOut) = 0
        /\ \A i \in Slot : Offset(i)' = IF i = txOut THEN BufLen - 1 ELSE Offset(i) - 1
    <2>1. CASE txOut + 1 < BufLen
      <3>1. txOut' = txOut + 1 /\ txIn' = txIn /\ txOut # txIn
        BY <1>3, <1>4, <2>1
      <3>2. InRing > 0 /\ InRing' = InRing - 1 /\ Offset(txOut) = 0
        BY <1>1, <3>1 DEF InRing, Offset
      <3>3. \A i \in Slot : Offset(i)' = IF i = txOut THEN BufLen - 1 ELSE Offset(i) - 1
        BY <1>1, <3>1 DEF Offset, Slot
      <3> QED
        BY <3>2, <3>3
    <2>2. CASE txOut + 1 = BufLen
      <3>1. txOut' = 0 /\ txIn' = txIn /\ txOut # txIn /\ txOut = BufLen - 1
        <4>1. txOut \in Int /\ BufLen \in Int /\ txOut < BufLen
          BY <1>1
        <4>2. txOut = BufLen - 1
          BY <2>2, <4>1
        <4>3. ~(txOut + 1 < BufLen)
          BY <2>2, <4>1
        <4> QED
          BY <1>3, <1>4, <4>2, <4>3
      <3>2. InRing > 0 /\ InRing' = InRing - 1 /\ Offset(txOut) = 0
        BY <1>1, <3>1 DEF InRing, Offset
      <3>3. \A i \in Slot : Offset(i)' = IF i = txOut THEN BufLen - 1 ELSE Offset(i) - 1
        BY <1>1, <3>1 DEF Offset, Slot
      <3> QED
        BY <3>2, <3>3
    <2> QED
      BY <1>1, <2>1, <2>2
  <1>6. txBuf[txOut] = Char(Len(wfifo)) /\ txBuf[txOut] \in Number
    <2>1. txOut \in Slot /\ Len(wfifo) + Offset(txOut) = Len(wfifo)
      BY <1>1, <1>5 DEF Slot
    <2>2. txBuf[txOut] = Char(Len(wfifo))
      BY <1>5, <2>1 DEF UartInv, RingHolds
    <2> QED
      BY <1>1, <2>2, CharType DEF UartInv
  <1>7. /\ wfifo' \in Seq(Number) /\ Len(wfifo') = Len(wfifo) + 1
        /\ \A i \in 1..Len(wfifo) : wfifo'[i] = wfifo[i]
        /\ wfifo'[Len(wfifo) + 1] = Char(Len(wfifo))
    BY <1>1, <1>3, <1>6
  <1>8. OnItsWay' = OnItsWay /\ \A k : Char(k)' = Char(k)
    <2>1. InRing' = InRing - 1 /\ Len(wfifo') = Len(wfifo) + 1
      BY <1>5, <1>7
    <2> QED
      BY <1>1, <1>3, <2>1 DEF OnItsWay, Char
  <1>9. UartTypeOK'
    <2>1. txOut' \in Slot
      BY <1>1, <1>4 DEF Slot
    <2>2. control' \in [WI : BOOLEAN, WSPACE : 0..Depth]
      <3>1. control \in [WI : BOOLEAN, WSPACE : 0..Depth] /\ control.WSPACE - 1 \in 0..Depth
        BY <1>2 DEF UartInv, UartTypeOK
      <3> QED
        BY <1>3, <3>1
    <2>3. wfifo' \in Seq(Number \cup {Garbage}) /\ Len(wfifo') <= Depth
      <3>1. wfifo \in Seq(Number \cup {Garbage})
        BY DEF UartInv, UartTypeOK
      <3> QED
        BY <1>1, <1>3, <1>6, <1>7, <3>1
    <2> QED
      BY <1>3, <2>1, <2>2, <2>3 DEF UartInv, UartTypeOK, callVars, driverVars
  <1>10. FifoHolds'
    <2> SUFFICES ASSUME NEW i \in 1..(Len(wfifo) + 1) PROVE wfifo'[i] = Char(i - 1)
      BY <1>7, <1>8 DEF FifoHolds
    <2>1. CASE i \in 1..Len(wfifo)
      BY <1>7, <2>1 DEF UartInv, FifoHolds
    <2>2. CASE i = Len(wfifo) + 1
      <3>1. i - 1 = Len(wfifo)
        BY <1>1, <2>2
      <3> QED
        BY <1>7, <2>2, <3>1
    <2> QED
      BY <1>1, <2>1, <2>2
  <1>11. RingHolds'
    <2> SUFFICES ASSUME NEW i \in Slot, Offset(i)' < InRing'
                 PROVE  txBuf[i] = Char(Len(wfifo') + Offset(i)')
      BY <1>3, <1>8 DEF RingHolds
    <2>1. i # txOut /\ Offset(i)' = Offset(i) - 1 /\ Offset(i) < InRing
      BY <1>1, <1>5
    <2>2. Len(wfifo') + Offset(i)' = Len(wfifo) + Offset(i)
      <3>1. PICK l \in Int, o \in Int : l = Len(wfifo) /\ o = Offset(i)
        BY <1>1
      <3>2. Len(wfifo') = l + 1 /\ Offset(i)' = o - 1
        BY <1>7, <2>1, <3>1
      <3> QED
        BY <3>1, <3>2
    <2> QED
      BY <2>1, <2>2 DEF UartInv, RingHolds
  <1>12. Copied' /\ WritesNext'
    BY <1>3, <1>8 DEF UartInv, Copied, WritesNext, callVars
  <1>13. RoundFits'
    <2>1. n \in Int /\ RoundFits
      BY DEF UartInv, UartTypeOK
    <2>2. pc' = pc /\ n' = n /\ count' = count /\ txIn' = txIn /\ InRing' = InRing - 1
      BY <1>3, <1>5 DEF callVars
    <2>3. pc \in {"copy", "publish"} => InRing - 1 + n <= BufLen - 1
      BY <1>1, <2>1 DEF RoundFits
    <2> QED
      BY <2>1, <2>2, <2>3 DEF RoundFits
  <1>14. SpaceIsThere'
    <2>1. control'.WSPACE = control.WSPACE - 1
      BY <1>3 DEF UartInv, UartTypeOK
    <2>2. PICK l \in Nat : l = Len(wfifo)
      BY <1>1
    <2>3. control.WSPACE - 1 <= Depth - (l + 1)
      BY <1>2, <2>2
    <2>4. Len(wfifo') = l + 1
      BY <1>7, <2>2
    <2> QED
      BY <2>1, <2>3, <2>4 DEF SpaceIsThere
  <1>15. WillBeSent'
    BY <1>3 DEF UartInv, WillBeSent, callVars, driverVars
  <1> QED
    BY <1>3, <1>7, <1>9, <1>10, <1>11, <1>12, <1>13, <1>14, <1>15 DEF UartInv

LEMMA HostTakesKeeps == UartInv /\ HostTakes => UartInv' /\ hostSaw' = Char(1)
  <1> USE UartAssumption
  <1> SUFFICES ASSUME UartInv, HostTakes PROVE UartInv' /\ hostSaw' = Char(1)
    OBVIOUS
  <1>1. /\ InRing \in 0..(BufLen - 1) /\ Len(wfifo) \in 0..Depth /\ OnItsWay = Len(wfifo) + InRing
        /\ wfifo \in Seq(Number) /\ hostSaw \in Number
        /\ \A i \in Slot : Offset(i) \in 0..(BufLen - 1)
    <2>1. UartTypeOK /\ wfifo \in Seq(Number) /\ hostSaw \in Number
      BY DEF UartInv
    <2> QED
      BY <2>1, RingType DEF OnItsWay
  <1>2. /\ wfifo # <<>> /\ wfifo' = Tail(wfifo)
        /\ hostSaw' = IF Head(wfifo) = hostSaw THEN (hostSaw + 1) % Numbers ELSE Garbage
        /\ UNCHANGED <<callVars, ringVars, driverVars, isrVars, received, ac, pauseIrq>>
    BY DEF HostTakes
  <1>3. /\ Len(wfifo) >= 1 /\ wfifo' \in Seq(Number) /\ Len(wfifo') = Len(wfifo) - 1
        /\ \A i \in 1..Len(wfifo') : wfifo'[i] = wfifo[i + 1]
        /\ Head(wfifo) = wfifo[1]
    BY <1>1, <1>2, HeadTailProperties
  <1>4. hostSaw' = Char(1) /\ hostSaw' \in Number
    <2>1. 1 \in 1..Len(wfifo) /\ wfifo[1] = Char(1 - 1)
      BY <1>1, <1>3 DEF UartInv, FifoHolds
    <2>2. Head(wfifo) = hostSaw
      BY <1>1, <1>3, <2>1, CharNow
    <2> QED
      BY <1>1, <1>2, <2>2, CharType DEF Char
  <1>5. ASSUME NEW k \in Int PROVE Char(k)' = Char(1 + k)
    <2>1. Char(k)' = (Char(1) + k) % Numbers
      BY <1>4 DEF Char
    <2> QED
      BY <1>1, <2>1, CharPlus
  <1>6. /\ InRing' = InRing /\ OnItsWay' = OnItsWay - 1 /\ \A i : Offset(i)' = Offset(i)
    <2>1. InRing' = InRing /\ \A i : Offset(i)' = Offset(i)
      BY <1>2 DEF InRing, Offset, ringVars
    <2> QED
      BY <1>1, <1>3, <2>1 DEF OnItsWay
  <1>7. UartTypeOK'
    <2>1. wfifo' \in Seq(Number \cup {Garbage}) /\ Len(wfifo') <= Depth
      <3>1. wfifo \in Seq(Number \cup {Garbage})
        BY DEF UartInv, UartTypeOK
      <3> QED
        BY <1>1, <1>2, <1>3, <3>1, HeadTailProperties
    <2> QED
      BY <1>2, <1>4, <2>1 DEF UartInv, UartTypeOK, callVars, ringVars, driverVars, isrVars
  <1>8. FifoHolds'
    <2> SUFFICES ASSUME NEW i \in 1..Len(wfifo') PROVE wfifo'[i] = Char(i - 1)'
      BY DEF FifoHolds
    <2>1. i + 1 \in 1..Len(wfifo) /\ i - 1 \in Int /\ 1 + (i - 1) = (i + 1) - 1
      BY <1>1, <1>3
    <2>2. wfifo'[i] = Char((i + 1) - 1)
      BY <1>3, <2>1 DEF UartInv, FifoHolds
    <2> QED
      BY <1>5, <2>1, <2>2
  <1>9. RingHolds'
    <2> SUFFICES ASSUME NEW i \in Slot, Offset(i) < InRing
                 PROVE  txBuf[i] = (hostSaw' + (Len(wfifo') + Offset(i))) % Numbers
      BY <1>2, <1>6 DEF RingHolds, Char, ringVars
    <2>1. PICK k \in Int : k = Len(wfifo') + Offset(i)
      BY <1>1, <1>3
    <2>2. txBuf[i] = Char(1 + k)
      <3>1. 1 + k = Len(wfifo) + Offset(i)
        BY <1>1, <1>3, <2>1, SMTT(30)
      <3> QED
        BY <3>1 DEF UartInv, RingHolds
    <2>3. Char(k)' = txBuf[i]
      BY <1>5, <2>2
    <2> QED
      BY <2>1, <2>3 DEF Char
  <1>10. Copied'
    <2> SUFFICES ASSUME pc = "publish", NEW i \in txIn..(txIn + n - 1)
                 PROVE  txBuf[i] = (hostSaw' + (OnItsWay' + (i - txIn))) % Numbers
      BY <1>2, <1>6 DEF Copied, Char, ringVars, callVars
    <2>0. i \in Int /\ txIn \in Int
      BY DEF UartInv, UartTypeOK, Slot
    <2>1. PICK k \in Int : k = OnItsWay' + (i - txIn)
      <3>1. PICK m \in Int : m = OnItsWay'
        BY <1>1, <1>6
      <3>2. m + (i - txIn) \in Int
        BY <2>0
      <3> QED
        BY <3>1, <3>2, Zenon
    <2>2. txBuf[i] = Char(1 + k)
      <3>1. 1 + k = OnItsWay + (i - txIn)
        BY <1>1, <1>6, <2>0, <2>1
      <3> QED
        BY <3>1 DEF UartInv, Copied
    <2>3. Char(k)' = txBuf[i]
      BY <1>5, <2>2
    <2> QED
      BY <2>1, <2>3 DEF Char
  <1>11. WritesNext'
    <2>1. PICK m \in Int : m = IF pc = "publish" THEN n ELSE 0
      BY DEF UartInv, UartTypeOK
    <2>2. PICK k \in Int : k = OnItsWay' + m
      BY <1>1, <1>6, SMTT(30)
    <2>3. ptr = Char(1 + k)
      <3>1. 1 + k = OnItsWay + m
        BY <1>1, <1>6, <2>2
      <3> QED
        BY <2>1, <3>1 DEF UartInv, WritesNext
    <2>4. ptr = (hostSaw' + k) % Numbers
      BY <1>5, <2>3 DEF Char
    <2>5. pc' = pc /\ n' = n /\ ptr' = ptr
      BY <1>2 DEF callVars
    <2> QED
      BY <2>1, <2>2, <2>4, <2>5 DEF WritesNext, Char
  <1>12. RoundFits' /\ WillBeSent'
    BY <1>2, <1>6 DEF UartInv, RoundFits, WillBeSent, callVars, ringVars, driverVars
  <1>13. SpaceIsThere'
    <2>1. PICK l \in Nat : l = Len(wfifo) /\ Len(wfifo') = l - 1
      BY <1>1, <1>3
    <2>2. isr \in {"read", "write"} => control.WSPACE <= Depth - (l - 1)
      BY <2>1 DEF UartInv, UartTypeOK, SpaceIsThere
    <2> QED
      BY <1>2, <2>1, <2>2 DEF SpaceIsThere, isrVars
  <1> QED
    BY <1>3, <1>4, <1>7, <1>8, <1>9, <1>10, <1>11, <1>12, <1>13 DEF UartInv

LEMMA UartInvStep == UartInv /\ [UartNext]_uartVars => UartInv'
  <1> SUFFICES ASSUME UartInv, UNCHANGED uartVars PROVE UartInv'
    BY WriteKeeps, SpaceKeeps, CopyKeeps, PublishKeeps, KickKeeps, WaitKeeps, ControlKeeps,
       ReadDataKeeps, ReadDoneKeeps, WriteDataKeeps, WriteDoneKeeps, SecondKeeps,
       HostTakesKeeps, HostTypesKeeps, Zenon DEF UartNext, Program, Handler, Host
  <1>1. UartTypeOK'
    BY DEF UartInv, UartTypeOK, uartVars, callVars, ringVars, driverVars, isrVars, coreVars
  <1>2. RoundFits' /\ SpaceIsThere' /\ WillBeSent'
    BY DEF UartInv, RoundFits, InRing, SpaceIsThere, WillBeSent, uartVars, callVars, ringVars,
       driverVars, isrVars, coreVars
  <1> QED
    BY <1>1, <1>2, TextStands DEF uartVars, callVars, ringVars, coreVars

(* The rings, the FIFO and the numbers in them keep their ranges.          *)
THEOREM UartTypeCorrect == UartSpec => []UartTypeOK
  <1>1. UartInv => UartTypeOK
    BY DEF UartInv
  <1> QED
    BY <1>1, UartInvInit, UartInvStep, PTL DEF UartSpec

(* The transmit interrupt is never left off with characters in the ring,   *)
(* unless the program is about to turn it on (write.c:125-168,             *)
(* init.c:166-192).                                                        *)
THEOREM TextIsNeverStranded == UartSpec => []NoTextIsStranded
  <1>1. UartInv => NoTextIsStranded
    BY DEF UartInv, WillBeSent, NoTextIsStranded
  <1> QED
    BY <1>1, UartInvInit, UartInvStep, PTL DEF UartSpec

(***************************************************************************)
(* The driver implements the stream                                        *)
(***************************************************************************)

Accepted == IF pc = "publish" THEN (ptr - n) % Numbers ELSE ptr

LEMMA AcceptedIs ==
  ASSUME UartInv
  PROVE  Accepted = Char(OnItsWay) /\ (Accepted - hostSaw) % Numbers = OnItsWay
  <1> USE UartAssumption
  <1>1. /\ OnItsWay \in Nat /\ OnItsWay <= BufLen - 1 + Depth /\ hostSaw \in Number
        /\ OnItsWay \in 0..(Numbers - 1) /\ hostSaw \in Int /\ Numbers \in Nat \ {0}
    BY RingType DEF UartInv, Number
  <1>2. Accepted = Char(OnItsWay)
    <2>1. CASE pc = "publish"
      <3>1. n \in Int /\ ptr = Char(OnItsWay + n)
        BY <2>1 DEF UartInv, UartTypeOK, WritesNext
      <3>2. (Char(OnItsWay + n) + (-n)) % Numbers = Char(OnItsWay + n + (-n))
        BY <1>1, <3>1, CharPlus
      <3>3. OnItsWay + n + (-n) = OnItsWay /\ ptr - n = Char(OnItsWay + n) + (-n)
        <4>1. ptr \in Int
          BY DEF UartInv, UartTypeOK, Number
        <4> QED
          BY <1>1, <3>1, <4>1
      <3> QED
        BY <2>1, <3>2, <3>3 DEF Accepted
    <2>2. CASE pc # "publish"
      <3>1. ptr = Char(OnItsWay + 0) /\ OnItsWay + 0 = OnItsWay
        BY <1>1, <2>2 DEF UartInv, WritesNext
      <3> QED
        BY <2>2, <3>1 DEF Accepted
    <2> QED
      BY <2>1, <2>2
  <1>3. (Accepted - hostSaw) % Numbers = OnItsWay
    <2>0. hostSaw + OnItsWay \in Int /\ -hostSaw \in Int
      BY <1>1
    <2>1. (((hostSaw + OnItsWay) % Numbers) + (-hostSaw)) % Numbers
            = ((hostSaw + OnItsWay) + (-hostSaw)) % Numbers
      BY <1>1, <2>0, ModPlus
    <2>2. (hostSaw + OnItsWay) + (-hostSaw) = OnItsWay
      BY <1>1
    <2>3. Accepted \in Int /\ Accepted - hostSaw = Accepted + (-hostSaw)
      BY <1>1, <1>2, CharType DEF Number
    <2> QED
      BY <1>1, <1>2, <2>1, <2>2, <2>3, ModSmall DEF Char
  <1> QED
    BY <1>2, <1>3

(* A step that is not Publish or HostTakes accepts and delivers nothing.   *)
LEMMA AcceptsNothing ==
  ASSUME UartInv, [UartNext]_uartVars, ~Publish, ~HostTakes
  PROVE  UNCHANGED <<Accepted, hostSaw>>
  <1>1. CASE Copy
    <2>1. /\ ptr' = (ptr + n) % Numbers /\ n' = n /\ pc' = "publish" /\ pc = "copy"
          /\ hostSaw' = hostSaw
      BY <1>1 DEF Copy, At, Goto, coreVars
    <2>2. /\ n \in Int /\ OnItsWay \in Int /\ hostSaw \in Number
          /\ ptr = Char(OnItsWay) /\ Accepted = ptr
      <3>1. ptr = Char(OnItsWay + 0) /\ OnItsWay \in Nat /\ n \in Int /\ hostSaw \in Number
        BY <2>1, RingType DEF UartInv, UartTypeOK, WritesNext
      <3> QED
        BY <2>1, <3>1 DEF Accepted
    <2>3. ptr' = Char(OnItsWay + n) /\ ptr' \in Int
      BY <2>1, <2>2, CharPlus, CharType DEF Number
    <2>4. (Char(OnItsWay + n) + (-n)) % Numbers = Char(OnItsWay + n + (-n))
      BY <2>2, CharPlus
    <2>5. OnItsWay + n + (-n) = OnItsWay
      BY <2>2
    <2>6. PICK p \in Int : p = ptr'
      BY <2>3
    <2>7. (p - n) % Numbers = ptr
      <3>1. p - n = p + (-n)
        BY <2>2
      <3> QED
        BY <2>2, <2>3, <2>4, <2>5, <2>6, <3>1
    <2> QED
      BY <2>1, <2>2, <2>6, <2>7 DEF Accepted
  <1>2. CASE Write \/ Space \/ Kick \/ Wait \/ Check
    <2>1. pc # "publish" /\ pc' # "publish" /\ ptr' = ptr /\ hostSaw' = hostSaw
      BY <1>2 DEF Write, Space, Kick, Wait, Check, At, Goto, coreVars
    <2> QED
      BY <2>1 DEF Accepted
  <1>3. CASE Handler \/ Second \/ HostTypes \/ HostPauses \/ UNCHANGED uartVars
    <2>1. UNCHANGED <<callVars, hostSaw>>
      BY <1>3 DEF Handler, Control, ReadData, ReadDone, WriteData, WriteDone, Second, HostTypes,
         HostPauses, uartVars, coreVars
    <2> QED
      BY <2>1 DEF Accepted, callVars
  <1> QED
    BY <1>1, <1>2, <1>3, Zenon DEF UartNext, Program, Host

(* The host sees what the program wrote, in order, nothing twice and       *)
(* nothing left out: publishing a round accepts its characters, the host   *)
(* takes them one by one, and no other step is seen                        *)
(* (write.c:96-125, init.c:170-181).                                       *)
THEOREM TextIsAStream == UartSpec => TextArrivesInOrder
  <1> USE UartAssumption
  <1>1. UartInit => Stream!StreamInit
    BY DEF UartInit, Stream!StreamInit
  <1>2. UartInv /\ [UartNext]_uartVars => [Stream!StreamNext]_(Stream!streamVars)
    <2> SUFFICES ASSUME UartInv, [UartNext]_uartVars
                 PROVE  [Stream!StreamNext]_(Stream!streamVars)
      OBVIOUS
    <2>1. /\ Stream!OnTheWay = OnItsWay
          /\ OnItsWay \in Nat /\ OnItsWay <= BufLen - 1 + Depth
      BY AcceptedIs, RingType DEF Stream!OnTheWay, Accepted, UartInv
    <2>2. UartInv'
      BY UartInvStep
    <2>3. CASE Publish
      <3>1. n \in 1..(BufLen - 1) /\ InRing + n <= BufLen - 1 /\ pc = "publish"
        BY <2>3, RoundIsFree DEF Publish, At
      <3>2. OnItsWay + n <= BufLen - 1 + Depth /\ n \in 1..(BufLen - 1 + Depth)
        BY <2>1, <3>1, RingType DEF OnItsWay, UartInv
      <3>3. Accepted' = ptr /\ hostSaw' = hostSaw
        BY <2>3 DEF Publish, At, Goto, Accepted, coreVars
      <3>4. ptr = (Accepted + n) % Numbers
        <4>1. Accepted = Char(OnItsWay) /\ ptr = Char(OnItsWay + n) /\ hostSaw \in Number
          BY <3>1, AcceptedIs DEF UartInv, WritesNext
        <4> QED
          BY <2>1, <3>1, <4>1, CharPlus
      <3>5. Stream!Accept(n)
        BY <2>1, <3>2, <3>3, <3>4 DEF Stream!Accept, Accepted
      <3> QED
        BY <3>2, <3>5 DEF Stream!StreamNext
    <2>4. CASE HostTakes
      <3>1. hostSaw' = Char(1) /\ UNCHANGED callVars /\ wfifo # <<>>
        BY <2>4, HostTakesKeeps DEF HostTakes
      <3>2. 1 <= OnItsWay /\ 1 \in 1..(BufLen - 1 + Depth)
        <4>1. Len(wfifo) >= 1 /\ Len(wfifo) \in Nat /\ InRing \in Nat
          BY <3>1, RingType DEF UartInv
        <4> QED
          BY <4>1 DEF OnItsWay
      <3>3. Stream!Deliver(1)
        BY <2>1, <3>1, <3>2 DEF Stream!Deliver, Char, callVars
      <3> QED
        BY <3>2, <3>3 DEF Stream!StreamNext
    <2>5. CASE ~Publish /\ ~HostTakes
      BY <2>5, AcceptsNothing DEF Accepted, Stream!streamVars
    <2> QED
      BY <2>3, <2>4, <2>5
  <1> QED
    BY <1>1, <1>2, UartInvInit, UartInvStep, PTL
    DEF UartSpec, TextArrivesInOrder, Stream!StreamSpec

=============================================================================
