---------------------------- MODULE WaitsProofs -----------------------------
(***************************************************************************)
(* The alarms of the system clock come in time, for every width of the     *)
(* tick counter and every interval that fits it; the commands to the       *)
(* MAX3421E are whole exchanges, whatever their length; and the waits of   *)
(* transfer.c are neither cut short nor overlong, whatever their deadlines *)
(* and wherever the clock falls back.                                      *)
(***************************************************************************)
EXTENDS Waits, SequenceTheorems, TLAPS

(***************************************************************************)
(* The clock and its alarm                                                 *)
(***************************************************************************)

(* The strengthening: an alarm lies ahead, at most an interval and the     *)
(* tick under way, and one that rings is started.                          *)
ClockInv == ClockTypeOK /\ AlarmAhead /\ (rang => started)

LEMMA ClockInvInit == ClockInit => ClockInv
  <1> USE ClockAssumption
  <1> SUFFICES ASSUME ClockInit PROVE ClockInv
    OBVIOUS
  <1>1. ClockTypeOK
    <2>1. nticks \in 0..(Word - 1) /\ time \in 0..(Word - 1)
      BY DEF ClockInit
    <2>2. started \in BOOLEAN /\ rollover \in BOOLEAN /\ rang \in BOOLEAN
      BY Zenon DEF ClockInit
    <2> QED
      BY <2>1, <2>2 DEF ClockTypeOK
  <1>2. AlarmAhead /\ (rang => started)
    BY Zenon DEF ClockInit, AlarmAhead
  <1> QED
    BY <1>1, <1>2 DEF ClockInv

(* The ticks left until the alarm.                                         *)
Left == IF rollover THEN time + Word - nticks ELSE time - nticks

LEMMA AlarmStartKeeps ==
  ASSUME ClockInv, AlarmStart
  PROVE  ClockInv' /\ started' /\ rang' = rang /\ Left' = Interval + 1
  <1> USE ClockAssumption
  <1>1. nticks + Interval + 1 \in Nat /\ nticks + Interval + 1 < 2 * Word
    BY DEF ClockInv, ClockTypeOK
  <1>2. time' = IF nticks + Interval + 1 < Word THEN nticks + Interval + 1
                ELSE nticks + Interval + 1 - Word
    BY <1>1 DEF AlarmStart, Wrap, ClockInv, ClockTypeOK
  <1>3. started' = TRUE /\ nticks' = nticks /\ rang' = rang /\ nticks \in 0..(Word - 1)
        /\ rang \in BOOLEAN
    BY DEF AlarmStart, ClockInv, ClockTypeOK
  <1>4. rollover' \in BOOLEAN /\ (rollover' <=> time' < nticks)
    <2>1. (time' < nticks) \in BOOLEAN
      OBVIOUS
    <2> QED
      BY <2>1, Zenon DEF AlarmStart
  <1>5. /\ time' \in 0..(Word - 1)
        /\ IF rollover' THEN time' = nticks + Interval + 1 - Word
                        ELSE time' = nticks + Interval + 1
    BY <1>2, <1>3, <1>4
  <1>6. ClockTypeOK'
    BY <1>3, <1>4, <1>5 DEF ClockTypeOK
  <1>7. AlarmAhead' /\ Left' = Interval + 1
    <2>1. CASE rollover'
      BY <2>1, <1>3, <1>4, <1>5 DEF AlarmAhead, Left
    <2>2. CASE ~rollover'
      BY <2>2, <1>3, <1>5 DEF AlarmAhead, Left
    <2> QED
      BY <2>1, <2>2
  <1> QED
    BY <1>3, <1>6, <1>7 DEF ClockInv

(* What a tick does, with the wraps written out; the alarm is due exactly  *)
(* when one tick was left.                                                 *)
LEMMA TickEffect ==
  ASSUME ClockInv, Tick
  PROVE  /\ nticks' = IF nticks + 1 < Word THEN nticks + 1 ELSE nticks + 1 - Word
         /\ started' = started
         /\ Due =>
              /\ started /\ time = nticks' /\ rang' = TRUE
              /\ time' = IF time + Interval < Word THEN time + Interval
                         ELSE time + Interval - Word
              /\ rollover' \in BOOLEAN /\ (rollover' <=> time' < nticks')
         /\ ~Due =>
              /\ time' = time /\ rang' = FALSE
              /\ rollover' \in BOOLEAN /\ (rollover' <=> StillOver)
         /\ started => (Due
              <=> (IF rollover THEN time + Word - nticks ELSE time - nticks) = 1)
  <1> USE ClockAssumption
  <1>1. nticks' = IF nticks + 1 < Word THEN nticks + 1 ELSE nticks + 1 - Word
    BY DEF Tick, Wrap, ClockInv, ClockTypeOK
  <1>2. Due => started /\ time = nticks'
    BY <1>1 DEF Due, StillOver, ClockInv, ClockTypeOK, AlarmAhead
  <1>3. started => (Due
          <=> (IF rollover THEN time + Word - nticks ELSE time - nticks) = 1)
    BY <1>1 DEF Due, StillOver, ClockInv, ClockTypeOK, AlarmAhead
  <1>4. Due => rollover' \in BOOLEAN /\ (rollover' <=> time' < nticks')
    <2>1. (time' < nticks') \in BOOLEAN
      OBVIOUS
    <2> QED
      BY <2>1, Zenon DEF Tick
  <1>5. ~Due => rollover' \in BOOLEAN /\ (rollover' <=> StillOver)
    BY DEF Tick, StillOver
  <1> QED
    BY <1>1, <1>2, <1>3, <1>4, <1>5 DEF Tick, Wrap

LEMMA TickCounts ==
  ASSUME ClockInv, Tick
  PROVE  /\ ClockInv' /\ started' = started
         /\ started => /\ rang' = TRUE <=> Left = 1
                       /\ Left' = IF Left = 1 THEN Interval ELSE Left - 1
         /\ rang' \in BOOLEAN /\ (rang' => started)
  <1> USE ClockAssumption
  <1>1. /\ nticks \in 0..(Word - 1) /\ time \in 0..(Word - 1)
        /\ started \in BOOLEAN /\ rollover \in BOOLEAN
        /\ nticks' = IF nticks + 1 < Word THEN nticks + 1 ELSE nticks + 1 - Word
        /\ started' = started
    BY TickEffect DEF ClockInv, ClockTypeOK
  <1>2. CASE Due
    <2>1. /\ started /\ time = nticks' /\ rang' = TRUE /\ Left = 1
          /\ time' = IF time + Interval < Word THEN time + Interval
                     ELSE time + Interval - Word
          /\ rollover' \in BOOLEAN /\ (rollover' <=> time' < nticks')
      BY <1>2, TickEffect DEF Left
    <2>2. time' \in 0..(Word - 1) /\ nticks' \in 0..(Word - 1)
      BY <1>1, <2>1
    <2>3. IF rollover' THEN time' = time + Interval - Word ELSE time' = time + Interval
      BY <1>1, <2>1
    <2>4. Left' = Interval /\ AlarmAhead'
      BY <1>1, <2>1, <2>2, <2>3 DEF Left, AlarmAhead
    <2> QED
      BY <1>1, <2>1, <2>2, <2>4 DEF ClockInv, ClockTypeOK
  <1>3. CASE ~Due
    <2>1. /\ started => Left # 1
          /\ time' = time /\ rang' = FALSE
          /\ rollover' \in BOOLEAN /\ (rollover' <=> StillOver)
      BY <1>3, TickEffect DEF Left
    <2>2. nticks' \in 0..(Word - 1)
      BY <1>1
    <2>3. ASSUME started PROVE Left' = Left - 1 /\ AlarmAhead'
      <3>1. CASE rollover
        <4>1. time < nticks /\ nticks - time > Word - Interval - 2
          BY <2>3, <3>1 DEF ClockInv, AlarmAhead
        <4>2. rollover' <=> nticks + 1 < Word
          BY <1>1, <2>1, <3>1 DEF StillOver
        <4> QED
          BY <1>1, <2>1, <2>2, <3>1, <4>1, <4>2 DEF Left, AlarmAhead
      <3>2. CASE ~rollover
        <4>1. time > nticks /\ time - nticks <= Interval + 1
          BY <2>3, <3>2 DEF ClockInv, AlarmAhead
        <4>2. ~rollover' /\ time # nticks + 1
          BY <1>1, <2>1, <2>3, <3>2 DEF StillOver, Left
        <4> QED
          BY <1>1, <2>1, <2>2, <3>2, <4>1, <4>2 DEF Left, AlarmAhead
      <3> QED
        BY <1>1, <3>1, <3>2
    <2>4. AlarmAhead'
      BY <1>1, <2>3 DEF AlarmAhead
    <2> QED
      BY <1>1, <2>1, <2>2, <2>3, <2>4 DEF ClockInv, ClockTypeOK
  <1> QED
    BY <1>2, <1>3

LEMMA ClockInvStep == ClockInv /\ [ClockNext]_clockVars => ClockInv'
  <1> USE ClockAssumption
  <1> SUFFICES ASSUME ClockInv, UNCHANGED clockVars PROVE ClockInv'
    BY AlarmStartKeeps, TickCounts DEF ClockNext
  <1> QED
    BY DEF ClockInv, ClockTypeOK, AlarmAhead, clockVars, alarmVars

(* The registers of the clock and of the alarm keep their width.           *)
THEOREM ClockTypeCorrect == ClockSpec => []ClockTypeOK
  <1> USE ClockAssumption
  <1>1. ClockInv => ClockTypeOK
    BY DEF ClockInv
  <1> QED
    BY <1>1, ClockInvInit, ClockInvStep, PTL DEF ClockSpec

(* The alarm comes when it was asked for, across every wrap of the counter *)
(* (alt_tick.c:96-139, alt_alarm_start.c:80-95).                           *)
THEOREM ClockRingsInTime == ClockSpec => AlarmsComeInTime
  <1> USE ClockAssumption
  <1>1. ClockInit => Alarm!CountdownInit
    BY DEF ClockInit, Alarm!CountdownInit
  <1>2. ClockInv /\ [ClockNext]_clockVars
          => [Alarm!CountdownStart \/ Alarm!CountdownTick]_(Alarm!countdownVars)
    <2> SUFFICES ASSUME ClockInv, [ClockNext]_clockVars
                 PROVE  [Alarm!CountdownStart \/ Alarm!CountdownTick]_(Alarm!countdownVars)
      OBVIOUS
    <2>1. CASE AlarmStart
      BY <2>1, AlarmStartKeeps DEF AlarmStart, Left, Alarm!CountdownStart
    <2>2. CASE Tick /\ started
      <3>1. Left \in Nat /\ Left > 0
        BY <2>2 DEF Left, ClockInv, ClockTypeOK, AlarmAhead
      <3> QED
        BY <2>2, <3>1, TickCounts DEF Left, Alarm!CountdownTick
    <2>3. CASE Tick /\ ~started
      BY <2>3 DEF Tick, Due, ClockInv, ClockTypeOK, Alarm!countdownVars
    <2>4. CASE UNCHANGED clockVars
      BY <2>4 DEF clockVars, alarmVars, Alarm!countdownVars
    <2> QED
      BY <2>1, <2>2, <2>3, <2>4 DEF ClockNext
  <1> QED
    BY <1>1, <1>2, ClockInvInit, ClockInvStep, PTL
    DEF ClockSpec, AlarmsComeInTime, Alarm!CountdownSpec

(***************************************************************************)
(* Commands to the MAX3421E                                                *)
(***************************************************************************)

(* What was sent and what was read of the command under way.               *)
Sent == Total - left
Read == (writeLength - readIgnore) + Len(readData)

CoreEmpty == txHolding = None /\ shifting = None /\ ~RRDY

SpiTypeOK ==
  /\ spi \in {"idle", "discard", "poll", "send", "receive", "drain"}
  /\ writeLength \in Nat /\ readLength \in Nat
  /\ left \in 0..Total /\ readIgnore \in 0..writeLength
  /\ status \in [TRDY : BOOLEAN, RRDY : BOOLEAN]
  /\ txHolding \in Nat /\ shifting \in Nat /\ rxHolding \in Nat
  /\ readData \in Seq(Nat)
  /\ sso \in BOOLEAN /\ RRDY \in BOOLEAN

(* With a credit in hand everything sent has come back and was read.       *)
NoByteOnItsWay ==
  /\ credits = 1 /\ Sent = Read
  /\ CoreEmpty /\ heard = Numbered(1, Sent)

(* Without one there is one byte on its way: it waits, is shifted, or its  *)
(* answer waits to be read.                                                *)
OneByteOnItsWay ==
  /\ credits = 0 /\ Sent = Read + 1
  /\ \/ /\ txHolding = Sent /\ shifting = None /\ ~RRDY
        /\ heard = Numbered(1, Read)
     \/ /\ txHolding = None /\ shifting = Sent /\ ~RRDY
        /\ heard = Numbered(1, Read)
     \/ /\ txHolding = None /\ shifting = None /\ RRDY
        /\ rxHolding = Sent /\ heard = Numbered(1, Sent)

(* The answers read so far, of which the first writeLength are ignored.    *)
AnswersSoFar ==
  /\ readData = Numbered(writeLength + 1, Read)
  /\ readIgnore > 0 => Read = writeLength - readIgnore
  /\ Read < Total

(* The status the program acts on was true and is, where it matters.       *)
StatusStands ==
  /\ spi = "send" => IF credits = 0 THEN RRDY /\ status.RRDY
                                    ELSE status.TRDY /\ ~status.RRDY
  /\ spi = "receive" => credits = 0 /\ (status.RRDY => RRDY)

UnderWay ==
  /\ sso
  /\ NoByteOnItsWay \/ OneByteOnItsWay
  /\ AnswersSoFar /\ StatusStands
  /\ spi = "discard" => credits = 1

Complete ==
  /\ heard = Numbered(1, Total)
  /\ readData = Numbered(writeLength + 1, Total)
  /\ CoreEmpty
  /\ spi = "drain" => sso

SpiInv ==
  /\ SpiTypeOK /\ NothingOverrun
  /\ IF spi \in {"idle", "drain"} THEN Complete ELSE UnderWay

LEMMA NumberedIsSeq ==
  ASSUME NEW first \in Nat, NEW last \in Int, last >= first - 1
  PROVE  /\ Numbered(first, last) \in Seq(Nat)
         /\ Len(Numbered(first, last)) = last - first + 1
  <1>1. last - first + 1 \in Nat
    OBVIOUS
  <1>2. \A i \in 1..(last - first + 1) : first + i - 1 \in Nat
    OBVIOUS
  <1> QED
    BY <1>1, <1>2 DEF Numbered

LEMMA NumberedEmpty ==
  ASSUME NEW first \in Nat, NEW last \in Int, last < first
  PROVE  Numbered(first, last) = <<>>
  <1>1. 1..(last - first + 1) = {}
    OBVIOUS
  <1> QED
    BY <1>1 DEF Numbered

LEMMA NumberedAppend ==
  ASSUME NEW first \in Nat, NEW last \in Int, last >= first - 1
  PROVE  Append(Numbered(first, last), last + 1) = Numbered(first, last + 1)
  <1> DEFINE s == Numbered(first, last)
             t == Numbered(first, last + 1)
  <1>1. s \in Seq(Nat) /\ Len(s) = last - first + 1
    BY NumberedIsSeq
  <1>2. t \in Seq(Nat) /\ Len(t) = last - first + 2
    BY NumberedIsSeq
  <1>3. \A i \in 1..(last - first + 1) : s[i] = first + i - 1
    BY DEF Numbered
  <1>4. \A i \in 1..(last - first + 2) : t[i] = first + i - 1
    BY DEF Numbered
  <1> HIDE DEF s, t
  <1>5. Append(s, last + 1) \in Seq(Nat) /\ Len(Append(s, last + 1)) = Len(t)
    BY <1>1, <1>2
  <1>6. \A i \in 1..Len(t) : Append(s, last + 1)[i] = t[i]
    BY <1>1, <1>2, <1>3, <1>4
  <1>7. Append(s, last + 1) = t
    BY <1>2, <1>5, <1>6, SeqEqual
  <1> QED
    BY <1>7 DEF s, t

LEMMA SpiInvInit == SpiInit => SpiInv
  <1> SUFFICES ASSUME SpiInit PROVE SpiInv
    OBVIOUS
  <1>1. SpiTypeOK /\ NothingOverrun
    <2>1. /\ writeLength \in Nat /\ readLength \in Nat
          /\ left \in 0..Total /\ readIgnore \in 0..writeLength
          /\ txHolding \in Nat /\ shifting \in Nat /\ rxHolding \in Nat
          /\ readData \in Seq(Nat)
      BY DEF SpiInit, Total, None
    <2>2. /\ sso \in BOOLEAN /\ RRDY \in BOOLEAN
          /\ status \in [TRDY : BOOLEAN, RRDY : BOOLEAN]
          /\ NothingOverrun
      BY DEF SpiInit, NothingOverrun
    <2> QED
      BY <2>1, <2>2 DEF SpiInit, SpiTypeOK
  <1>2. Total = 0 /\ Numbered(1, Total) = <<>> /\ Numbered(writeLength + 1, Total) = <<>>
    BY NumberedEmpty DEF SpiInit, Total
  <1> QED
    BY <1>1, <1>2 DEF SpiInit, SpiInv, Complete, CoreEmpty

LEMMA CommandKeeps ==
  ASSUME SpiInv, NEW w \in Nat \ {0}, NEW r \in Nat, Command(w, r)
  PROVE  SpiInv'
  <1>1. /\ spi' = "discard" /\ writeLength' = w /\ readLength' = r /\ left' = w + r
        /\ readIgnore' = w /\ credits' = 1 /\ readData' = <<>> /\ sso' = TRUE
        /\ heard' = <<>>
        /\ UNCHANGED <<status, txHolding, shifting, rxHolding, RRDY, ROE, TOE>>
    BY DEF Command, AnswersIgnored, Credits
  <1>2. SpiTypeOK /\ NothingOverrun /\ CoreEmpty
    BY DEF SpiInv, Complete, Command
  <1>3. SpiTypeOK' /\ NothingOverrun' /\ CoreEmpty'
    BY <1>1, <1>2 DEF SpiTypeOK, NothingOverrun, CoreEmpty, Total
  <1>4. Sent' = 0 /\ Read' = 0 /\ Total' > 0
    BY <1>1 DEF Sent, Read, Total
  <1>5. Numbered(1, 0) = <<>> /\ Numbered(w + 1, 0) = <<>>
    BY NumberedEmpty
  <1>6. NoByteOnItsWay'
    BY <1>1, <1>3, <1>4, <1>5 DEF NoByteOnItsWay
  <1>7. AnswersSoFar' /\ StatusStands'
    BY <1>1, <1>4, <1>5 DEF AnswersSoFar, StatusStands
  <1> QED
    BY <1>1, <1>3, <1>6, <1>7 DEF SpiInv, UnderWay

LEMMA DiscardKeeps == SpiInv /\ Discard => SpiInv'
  <1> SUFFICES ASSUME SpiInv, Discard PROVE SpiInv'
    OBVIOUS
  <1>1. SpiTypeOK /\ NothingOverrun /\ UnderWay /\ NoByteOnItsWay
    BY DEF SpiInv, Discard, UnderWay, OneByteOnItsWay
  <1>2. SpiTypeOK' /\ NothingOverrun'
    BY <1>1 DEF Discard, SpiTypeOK, NothingOverrun, Total
  <1>3. NoByteOnItsWay'
    BY <1>1 DEF Discard, NoByteOnItsWay, CoreEmpty, Sent, Read, Total
  <1>4. AnswersSoFar' /\ StatusStands' /\ sso'
    BY <1>1 DEF Discard, UnderWay, AnswersSoFar, StatusStands, Read, Total
  <1> QED
    BY <1>2, <1>3, <1>4 DEF SpiInv, UnderWay, Discard

LEMMA PollKeeps == SpiInv /\ Poll => SpiInv'
  <1> SUFFICES ASSUME SpiInv, Poll PROVE SpiInv'
    OBVIOUS
  <1>1. SpiTypeOK /\ NothingOverrun /\ UnderWay
    BY DEF SpiInv, Poll
  <1>2. TRDY /\ (TRDY \in BOOLEAN)
    BY <1>1 DEF TRDY, UnderWay, NoByteOnItsWay, OneByteOnItsWay, CoreEmpty
  <1>3. SpiTypeOK' /\ NothingOverrun'
    BY <1>1, <1>2 DEF Poll, SpiTypeOK, NothingOverrun, Total, coreVars
  <1>4. NoByteOnItsWay' \/ OneByteOnItsWay'
    BY <1>1 DEF Poll, UnderWay, NoByteOnItsWay, OneByteOnItsWay, CoreEmpty, Sent, Read, Total, coreVars
  <1>5. AnswersSoFar' /\ sso'
    BY <1>1 DEF Poll, UnderWay, AnswersSoFar, Read, Total, coreVars
  <1>6. StatusStands'
    BY <1>1, <1>2 DEF Poll, StatusStands, SomethingToDo, UnderWay, NoByteOnItsWay,
       OneByteOnItsWay, CoreEmpty, coreVars
  <1>7. spi' \in {"poll", "send"}
    BY DEF Poll
  <1> QED
    BY <1>3, <1>4, <1>5, <1>6, <1>7 DEF SpiInv, UnderWay

LEMMA SendKeeps == SpiInv /\ Send => SpiInv'
  <1> SUFFICES ASSUME SpiInv, Send PROVE SpiInv'
    OBVIOUS
  <1>1. SpiTypeOK /\ NothingOverrun /\ UnderWay /\ spi = "send" /\ spi' = "receive"
    BY DEF SpiInv, Send
  <1>2. CASE credits = 1
    <2>1. NoByteOnItsWay /\ status.TRDY /\ ~status.RRDY /\ AnswersSoFar /\ sso
      BY <1>1, <1>2 DEF UnderWay, OneByteOnItsWay, StatusStands
    <2>2. TRDY /\ left > 0 /\ NextByte \in Nat /\ NextByte = Sent + 1
      BY <1>1, <2>1 DEF TRDY, NoByteOnItsWay, CoreEmpty, AnswersSoFar, Sent, Total,
         NextByte, SpiTypeOK
    <2>3. /\ left' = left - 1 /\ credits' = 0 /\ txHolding' = Sent + 1 /\ TOE' = TOE
          /\ UNCHANGED <<writeLength, readLength, readIgnore, status, readData, sso, shifting,
                         rxHolding, RRDY, ROE, heard>>
      BY <1>2, <2>1, <2>2 DEF Send
    <2>4. SpiTypeOK' /\ NothingOverrun'
      BY <1>1, <2>2, <2>3 DEF SpiTypeOK, NothingOverrun, Total
    <2>5. Sent' = Sent + 1 /\ Read' = Read
      BY <1>1, <2>3 DEF Sent, Read, Total, SpiTypeOK
    <2>6. OneByteOnItsWay'
      BY <1>1, <2>1, <2>3, <2>5 DEF OneByteOnItsWay, NoByteOnItsWay, CoreEmpty
    <2>7. AnswersSoFar' /\ StatusStands' /\ sso'
      BY <1>1, <2>1, <2>3, <2>5 DEF AnswersSoFar, StatusStands, Total
    <2> QED
      BY <1>1, <2>4, <2>6, <2>7 DEF SpiInv, UnderWay
  <1>3. CASE credits # 1
    <2>1. OneByteOnItsWay /\ status.RRDY /\ RRDY /\ AnswersSoFar /\ sso
      BY <1>1, <1>3 DEF UnderWay, NoByteOnItsWay, OneByteOnItsWay, StatusStands
    <2>2. UNCHANGED <<writeLength, readLength, left, readIgnore, credits, status, readData,
                      coreVars>>
      BY <2>1 DEF Send, OneByteOnItsWay, coreVars
    <2>3. SpiTypeOK' /\ NothingOverrun'
      BY <1>1, <2>2 DEF SpiTypeOK, NothingOverrun, Total, coreVars
    <2>4. OneByteOnItsWay'
      BY <2>1, <2>2 DEF OneByteOnItsWay, Sent, Read, Total, coreVars
    <2>5. AnswersSoFar' /\ StatusStands' /\ sso'
      BY <1>1, <2>1, <2>2 DEF OneByteOnItsWay, AnswersSoFar, StatusStands, Read, Total, coreVars
    <2> QED
      BY <1>1, <2>3, <2>4, <2>5 DEF SpiInv, UnderWay
  <1> QED
    BY <1>2, <1>3

LEMMA ReceiveKeeps == SpiInv /\ Receive => SpiInv'
  <1> SUFFICES ASSUME SpiInv, Receive PROVE SpiInv'
    OBVIOUS
  <1>1. SpiTypeOK /\ NothingOverrun /\ UnderWay
    BY DEF SpiInv, Receive
  <1>2. /\ credits = 0 /\ RRDY /\ Sent = Read + 1 /\ txHolding = None /\ shifting = None
        /\ rxHolding = Sent /\ heard = Numbered(1, Sent) /\ AnswersSoFar /\ sso
    BY <1>1 DEF Receive, UnderWay, StatusStands, NoByteOnItsWay, OneByteOnItsWay, CoreEmpty
  <1>3. /\ RRDY' = FALSE /\ credits' = 1
        /\ UNCHANGED <<writeLength, readLength, left, status, sso, txHolding, shifting,
                       rxHolding, ROE, TOE, heard>>
    BY <1>2 DEF Receive
  <1>4. Read' = Read + 1 /\ readIgnore' \in 0..writeLength
        /\ readData' = Numbered(writeLength + 1, Read + 1)
        /\ (readIgnore' > 0 => Read' = writeLength - readIgnore')
        /\ (readIgnore' = 0 => Read' = writeLength + Len(readData'))
    <2>1. CASE readIgnore > 0
      <3>1. readIgnore' = readIgnore - 1 /\ readData' = readData /\ writeLength' = writeLength
        BY <2>1 DEF Receive
      <3>2. Read = writeLength - readIgnore /\ readData = Numbered(writeLength + 1, Read)
        BY <1>2, <2>1 DEF AnswersSoFar
      <3>3. Read \in Int /\ Read < writeLength
        BY <1>1, <2>1, <3>2 DEF SpiTypeOK
      <3>4. Numbered(writeLength + 1, Read) = <<>> /\ Numbered(writeLength + 1, Read + 1) = <<>>
        BY <1>1, <3>3, NumberedEmpty DEF SpiTypeOK
      <3> QED
        BY <1>1, <2>1, <3>1, <3>2, <3>3, <3>4 DEF Read, SpiTypeOK
    <2>2. CASE readIgnore = 0
      <3>1. readIgnore' = 0 /\ readData' = Append(readData, Sent) /\ writeLength' = writeLength
        BY <1>2, <2>2 DEF Receive
      <3>2. Read = writeLength + Len(readData) /\ readData = Numbered(writeLength + 1, Read)
        BY <1>1, <1>2, <2>2 DEF AnswersSoFar, Read, SpiTypeOK
      <3>3. Read \in Int /\ Read >= writeLength /\ Sent = Read + 1
        BY <1>1, <1>2, <3>2 DEF SpiTypeOK
      <3>4. readData' = Numbered(writeLength + 1, Read + 1)
        <4>1. writeLength + 1 \in Nat /\ Read >= (writeLength + 1) - 1
          BY <1>1, <3>3 DEF SpiTypeOK
        <4>2. Append(Numbered(writeLength + 1, Read), Read + 1)
                = Numbered(writeLength + 1, Read + 1)
          BY <3>3, <4>1, NumberedAppend
        <4> QED
          BY <3>1, <3>2, <3>3, <4>2
      <3>5. Len(readData') = Len(readData) + 1
        BY <1>1, <3>1, <3>3 DEF SpiTypeOK
      <3> QED
        BY <1>1, <3>1, <3>2, <3>3, <3>4, <3>5, SMTT(30) DEF Read, SpiTypeOK
    <2> QED
      BY <1>1, <2>1, <2>2 DEF SpiTypeOK
  <1>5. readData' \in Seq(Nat) /\ Sent \in Nat /\ Read \in Nat
    <2>1. Sent \in Nat /\ Read \in Nat
      BY <1>1, <1>2 DEF Sent, Read, Total, SpiTypeOK
    <2>2. readData' = readData \/ readData' = Append(readData, Sent)
      BY <1>2 DEF Receive
    <2>3. readData \in Seq(Nat)
      BY <1>1 DEF SpiTypeOK
    <2>4. Append(readData, Sent) \in Seq(Nat)
      BY <2>1, <2>3
    <2> QED
      BY <2>1, <2>2, <2>3, <2>4, Zenon
  <1>6. SpiTypeOK' /\ NothingOverrun'
    <2>1. spi' \in {"poll", "drain"}
      BY DEF Receive
    <2>2. NothingOverrun'
      BY <1>1, <1>3 DEF NothingOverrun
    <2>3. RRDY' \in BOOLEAN /\ sso' \in BOOLEAN /\ status' \in [TRDY : BOOLEAN, RRDY : BOOLEAN]
      BY <1>1, <1>3 DEF SpiTypeOK
    <2> QED
      BY <1>1, <1>3, <1>4, <1>5, <2>1, <2>2, <2>3 DEF SpiTypeOK, Total
  <1>7. Sent' = Sent /\ Total' = Total /\ CoreEmpty'
    BY <1>2, <1>3 DEF Sent, Total, CoreEmpty
  <1>8. Read < Total /\ Total \in Nat
    BY <1>1, <1>2 DEF AnswersSoFar, Total, SpiTypeOK
  <1>9. spi' = IF Read + 1 = Total THEN "drain" ELSE "poll"
    <2>1. (readIgnore' = 0 /\ Len(readData') = readLength) <=> Read + 1 = Total
      <3>1. CASE readIgnore' = 0
        BY <1>1, <1>3, <1>4, <1>5, <3>1 DEF SpiTypeOK, Total
      <3>2. CASE readIgnore' > 0
        <4>1. Read + 1 = writeLength - readIgnore'
          BY <1>4, <3>2
        <4>2. readIgnore' \in Nat /\ Read + 1 < writeLength
          BY <1>1, <1>4, <3>2, <4>1 DEF SpiTypeOK
        <4>3. writeLength <= Total
          BY <1>1 DEF SpiTypeOK, Total
        <4> QED
          BY <1>1, <1>5, <1>8, <3>2, <4>1, <4>2, <4>3 DEF SpiTypeOK
      <3> QED
        BY <1>1, <1>4, <3>1, <3>2 DEF SpiTypeOK
    <2> QED
      BY <2>1 DEF Receive
  <1>10. CASE Read + 1 = Total
    <2>1. Complete'
      BY <1>2, <1>3, <1>4, <1>7, <1>10 DEF Complete
    <2> QED
      BY <1>6, <1>9, <1>10, <2>1 DEF SpiInv
  <1>11. CASE Read + 1 # Total
    <2>1. NoByteOnItsWay'
      BY <1>2, <1>3, <1>4, <1>7 DEF NoByteOnItsWay
    <2>2. AnswersSoFar' /\ StatusStands' /\ sso'
      BY <1>2, <1>3, <1>4, <1>5, <1>7, <1>8, <1>9, <1>11 DEF AnswersSoFar, StatusStands
    <2> QED
      BY <1>6, <1>9, <1>11, <2>1, <2>2, <1>3 DEF SpiInv, UnderWay
  <1> QED
    BY <1>10, <1>11

LEMMA NothingToReceiveKeeps == SpiInv /\ NothingToReceive => SpiInv'
  <1> SUFFICES ASSUME SpiInv, NothingToReceive PROVE SpiInv'
    OBVIOUS
  <1>1. SpiTypeOK /\ NothingOverrun /\ UnderWay
    BY DEF SpiInv, NothingToReceive
  <1>2. SpiTypeOK' /\ NothingOverrun'
    BY <1>1 DEF NothingToReceive, SpiTypeOK, NothingOverrun, Total, coreVars
  <1>3. NoByteOnItsWay' \/ OneByteOnItsWay'
    BY <1>1 DEF NothingToReceive, UnderWay, NoByteOnItsWay, OneByteOnItsWay, CoreEmpty,
       Sent, Read, Total, coreVars
  <1>4. AnswersSoFar' /\ StatusStands' /\ sso'
    BY <1>1 DEF NothingToReceive, UnderWay, AnswersSoFar, StatusStands, Read, Total, coreVars
  <1> QED
    BY <1>2, <1>3, <1>4 DEF SpiInv, UnderWay, NothingToReceive

LEMMA DrainKeeps == SpiInv /\ Drain => SpiInv'
  <1> SUFFICES ASSUME SpiInv, Drain PROVE SpiInv'
    OBVIOUS
  <1>1. SpiTypeOK /\ NothingOverrun /\ Complete
    BY DEF SpiInv, Drain
  <1>2. SpiTypeOK' /\ NothingOverrun'
    BY <1>1 DEF Drain, SpiTypeOK, NothingOverrun, Total
  <1> QED
    BY <1>1, <1>2 DEF SpiInv, Complete, CoreEmpty, Drain, Total

LEMMA LoadKeeps == SpiInv /\ Load => SpiInv'
  <1> SUFFICES ASSUME SpiInv, Load PROVE SpiInv'
    OBVIOUS
  <1>1. /\ SpiTypeOK /\ NothingOverrun /\ UnderWay /\ OneByteOnItsWay
        /\ spi \notin {"idle", "drain"}
    BY DEF SpiInv, Load, Complete, UnderWay, NoByteOnItsWay, CoreEmpty
  <1>2. SpiTypeOK' /\ NothingOverrun'
    BY <1>1 DEF Load, SpiTypeOK, NothingOverrun, Total, commandVars, None
  <1>3. OneByteOnItsWay'
    BY <1>1 DEF Load, OneByteOnItsWay, Sent, Read, Total, commandVars
  <1>4. AnswersSoFar' /\ StatusStands' /\ sso'
    BY <1>1 DEF Load, UnderWay, AnswersSoFar, StatusStands, Read, Total, commandVars
  <1> QED
    BY <1>1, <1>2, <1>3, <1>4 DEF SpiInv, UnderWay, Load, commandVars

LEMMA ShiftedKeeps == SpiInv /\ Shifted => SpiInv'
  <1> SUFFICES ASSUME SpiInv, Shifted PROVE SpiInv'
    OBVIOUS
  <1>1. /\ SpiTypeOK /\ NothingOverrun /\ UnderWay /\ OneByteOnItsWay
        /\ spi \notin {"idle", "drain"}
    BY DEF SpiInv, Shifted, Complete, UnderWay, NoByteOnItsWay, CoreEmpty
  <1>2. /\ txHolding = None /\ shifting = Sent /\ ~RRDY /\ heard = Numbered(1, Read)
        /\ Sent = Read + 1 /\ Sent \in Nat /\ Read \in Nat
    <2>1. Read \in Int
      BY <1>1 DEF Read, SpiTypeOK
    <2>2. /\ txHolding = None /\ shifting = Sent /\ ~RRDY /\ heard = Numbered(1, Read)
          /\ Sent = Read + 1
      BY <1>1 DEF Shifted, OneByteOnItsWay
    <2> QED
      BY <1>1, <2>1, <2>2 DEF SpiTypeOK, Shifted, None
  <1>3. heard' = Numbered(1, Sent) /\ rxHolding' = Sent
    <2>1. heard' = Append(heard, Read + 1) /\ rxHolding' = Len(heard')
      BY <1>1, <1>2 DEF Shifted, UnderWay
    <2>2. heard' = Numbered(1, Sent)
      <3>1. Append(Numbered(1, Read), Read + 1) = Numbered(1, Read + 1)
        <4>1. 1 \in Nat /\ Read \in Int /\ Read >= 1 - 1
          BY <1>2
        <4> QED
          BY <4>1, NumberedAppend
      <3> QED
        BY <1>2, <2>1, <3>1
    <2>3. Len(Numbered(1, Sent)) = Sent - 1 + 1
      BY <1>2, NumberedIsSeq
    <2> QED
      BY <1>2, <2>1, <2>2, <2>3
  <1>4. /\ shifting' = None /\ RRDY' = TRUE /\ ~ROE'
        /\ UNCHANGED <<commandVars, sso, txHolding, TOE>>
    BY <1>1, <1>2 DEF Shifted, NothingOverrun
  <1>5. SpiTypeOK' /\ NothingOverrun'
    BY <1>1, <1>2, <1>3, <1>4 DEF SpiTypeOK, NothingOverrun, Total, commandVars, None
  <1>6. OneByteOnItsWay'
    BY <1>1, <1>2, <1>3, <1>4 DEF OneByteOnItsWay, Sent, Read, Total, commandVars
  <1>7. AnswersSoFar' /\ StatusStands' /\ sso'
    BY <1>1, <1>4 DEF UnderWay, AnswersSoFar, StatusStands, Read, Total, commandVars
  <1> QED
    BY <1>1, <1>4, <1>5, <1>6, <1>7 DEF SpiInv, UnderWay, commandVars

LEMMA SpiStands == SpiInv /\ UNCHANGED spiVars => SpiInv'
  <1> SUFFICES ASSUME SpiInv, UNCHANGED spiVars PROVE SpiInv'
    OBVIOUS
  <1>1. SpiTypeOK' /\ NothingOverrun'
    BY DEF SpiInv, SpiTypeOK, NothingOverrun, Total, spiVars, commandVars, coreVars
  <1>2. Complete => Complete'
    BY DEF Complete, CoreEmpty, Total, spiVars, commandVars, coreVars
  <1>3. UnderWay => UnderWay'
    BY DEF UnderWay, NoByteOnItsWay, OneByteOnItsWay, AnswersSoFar, StatusStands, CoreEmpty,
       Sent, Read, Total, spiVars, commandVars, coreVars
  <1> QED
    BY <1>1, <1>2, <1>3 DEF SpiInv, spiVars, commandVars

(* What the machine of the waits does to the registers.                    *)
LEMMA WaitsStepsCommand ==
  ASSUME [WaitsNext]_waitsVars
  PROVE  \/ \E w \in Nat \ {0}, r \in Nat : Command(w, r)
         \/ CommandStep \/ Core
         \/ UNCHANGED spiVars
  <1> USE SpiAssumption
  <1>1. ASSUME RegWr PROVE \E w \in Nat \ {0}, r \in Nat : Command(w, r)
    BY <1>1 DEF RegWr
  <1>2. ASSUME RegRd PROVE \E w \in Nat \ {0}, r \in Nat : Command(w, r)
    BY <1>2 DEF RegRd
  <1>3. ASSUME BytesWr PROVE \E w \in Nat \ {0}, r \in Nat : Command(w, r)
    <2>1. PICK nbytes \in 0..MaxBytes : Command(nbytes + 1, 0)
      BY <1>3 DEF BytesWr
    <2>2. nbytes + 1 \in Nat \ {0}
      OBVIOUS
    <2> QED
      BY <2>1, <2>2
  <1>4. ASSUME BytesRd PROVE \E w \in Nat \ {0}, r \in Nat : Command(w, r)
    BY <1>4 DEF BytesRd
  <1>5. CASE OtherCommand
    BY <1>1, <1>2, <1>3, <1>4, <1>5, Zenon DEF OtherCommand
  <1>6. CASE Dispatch \/ AskForAnswer \/ Answer \/ AskForResult \/ Again
    BY <1>1, <1>2, <1>6, Zenon DEF Dispatch, AskForAnswer, Answer, AskForResult, Again
  <1>7. CASE Attached \/ Settling \/ TimedOut \/ NoAnswerYet \/ Result
             \/ StartAlarm \/ TimerInterrupt \/ UNCHANGED waitsVars
    BY <1>7, Zenon DEF Attached, Settling, TimedOut, NoAnswerYet, Result, StartAlarm,
       TimerInterrupt, waitsVars
  <1>8. CASE SpiStep
    BY <1>8, Zenon DEF SpiStep
  <1> QED
    BY <1>5, <1>6, <1>7, <1>8, Zenon DEF WaitsNext, WaitStep

LEMMA SpiInvStep == SpiInv /\ [WaitsNext]_waitsVars => SpiInv'
  <1> SUFFICES ASSUME SpiInv, [WaitsNext]_waitsVars PROVE SpiInv'
    OBVIOUS
  <1> QED
    BY WaitsStepsCommand, CommandKeeps, DiscardKeeps, PollKeeps, SendKeeps, ReceiveKeeps,
       NothingToReceiveKeeps, DrainKeeps, LoadKeeps, ShiftedKeeps, SpiStands, Zenon
    DEF CommandStep, Core

(* A command is one whole exchange, whatever its length and however the    *)
(* program and the core take turns: the chip hears all of its bytes, in    *)
(* order, and the caller has the answers that are his                      *)
(* (altera_avalon_spi.c:66-135).                                           *)
THEOREM CommandsAreWhole == WaitsSpec => []WholeExchange
  <1>1. SpiInv => WholeExchange
    BY DEF SpiInv, Complete, CoreEmpty, WholeExchange, TMT
  <1>2. WaitsInit => SpiInv
    BY SpiInvInit DEF WaitsInit
  <1> QED
    BY <1>1, <1>2, SpiInvStep, PTL DEF WaitsSpec

(* One credit is enough: no byte is ever overrun, however slow the program *)
(* (altera_avalon_spi.c:49-53, finalProject_soc_spi_0.v:361-400).          *)
THEOREM BytesAreNeverOverrun == WaitsSpec => []NothingOverrun
  <1>1. SpiInv => NothingOverrun
    BY DEF SpiInv
  <1>2. WaitsInit => SpiInv
    BY SpiInvInit DEF WaitsInit
  <1> QED
    BY <1>1, <1>2, SpiInvStep, PTL DEF WaitsSpec

(***************************************************************************)
(* The waits                                                               *)
(***************************************************************************)

LEMMA DivMod ==
  ASSUME NEW n \in Int, NEW d \in Nat \ {0}
  PROVE  /\ n \div d \in Int /\ n % d \in 0..(d - 1)
         /\ n = d * (n \div d) + (n % d)
  <1>1. n \div d \in Int
    OBVIOUS
  <1>2. n % d \in 0..(d - 1)
    OBVIOUS
  <1>3. n = d * (n \div d) + (n % d)
    OBVIOUS
  <1> QED
    BY <1>1, <1>2, <1>3

LEMMA DivModUnique ==
  ASSUME NEW d \in Nat \ {0}, NEW q \in Int, NEW r \in 0..(d - 1)
  PROVE  (d * q + r) % d = r /\ (d * q + r) \div d = q
  OBVIOUS

LEMMA ModStep ==
  ASSUME NEW n \in Int, NEW d \in Nat \ {0}, NEW k \in 0..(d - 1)
  PROVE  (n + k) % d = IF (n % d) + k < d THEN (n % d) + k ELSE (n % d) + k - d
  <1> DEFINE q == n \div d
             r == n % d
  <1>1. q \in Int /\ r \in 0..(d - 1) /\ n = d * q + r
    BY DivMod
  <1> HIDE DEF q, r
  <1>2. CASE r + k < d
    <2>1. r + k \in 0..(d - 1) /\ n + k = d * q + (r + k)
      BY <1>1, <1>2
    <2>2. (n + k) % d = r + k
      BY <1>1, <2>1, DivModUnique
    <2> QED
      BY <1>2, <2>2 DEF r
  <1>3. CASE r + k >= d
    <2>1. r + k - d \in 0..(d - 1) /\ q + 1 \in Int /\ n + k = d * (q + 1) + (r + k - d)
      BY <1>1, <1>3
    <2>2. (n + k) % d = r + k - d
      BY <1>1, <2>1, DivModUnique
    <2> QED
      BY <1>1, <1>3, <2>2 DEF r
  <1> QED
    BY <1>1, <1>2, <1>3

(* The product of the ticks and the interval, in a word.                   *)
Product == (nticks * Interval) % Word

LEMMA ProductSteps ==
  ASSUME ClockTypeOK, Tick
  PROVE  /\ Product \in 0..(Word - 1)
         /\ Product' = IF Product + Interval < Word THEN Product + Interval
                       ELSE Product + Interval - Word
  <1> USE ClockAssumption
  <1>1. /\ nticks \in 0..(Word - 1) /\ Word \in Nat \ {0} /\ Interval \in 0..(Word - 1)
        /\ nticks * Interval \in Int
    BY DEF ClockTypeOK
  <1>2. Product \in 0..(Word - 1)
    BY <1>1, DivMod DEF Product
  <1>3. nticks' = IF nticks + 1 < Word THEN nticks + 1 ELSE nticks + 1 - Word
    BY <1>1 DEF Tick, Wrap
  <1>4. CASE nticks + 1 < Word
    <2>1. nticks' * Interval = nticks * Interval + Interval
      BY <1>1, <1>3, <1>4
    <2> QED
      BY <1>1, <1>2, <2>1, ModStep DEF Product
  <1>5. CASE nticks + 1 >= Word
    <2>1. nticks' = 0 /\ nticks = Word - 1
      BY <1>1, <1>3, <1>5
    <2>2. nticks * Interval = Word * (Interval - 1) + (Word - Interval)
      BY <1>1, <2>1
    <2>3. Product = Word - Interval
      <3>1. Interval - 1 \in Int /\ Word - Interval \in 0..(Word - 1)
        BY <1>1
      <3> QED
        BY <1>1, <2>2, <3>1, DivModUnique, ZenonT(60) DEF Product
    <2>4. Product' = 0
      BY <1>1, <2>1 DEF Product
    <2> QED
      BY <1>1, <1>2, <2>3, <2>4
  <1> QED
    BY <1>1, <1>2, <1>4, <1>5

(* A tick is a millisecond more, except that the clock may fall back to    *)
(* zero once it has come to LastMs.                                        *)
LEMMA MillisecondsCount ==
  ASSUME ClockTypeOK, Tick
  PROVE  /\ Milliseconds \in Nat /\ LastMs \in Int
         /\ Milliseconds' = Milliseconds + 1 \/ (Milliseconds' = 0 /\ Milliseconds >= LastMs)
  <1> USE ClockAssumption
  <1>1. /\ Word \in Nat /\ Interval \in Nat \ {0} /\ Interval < Word
        /\ Product \in 0..(Word - 1)
        /\ Product' = IF Product + Interval < Word THEN Product + Interval
                       ELSE Product + Interval - Word
    BY ProductSteps
  <1>2. Milliseconds = Product \div Interval /\ Milliseconds' = Product' \div Interval
    BY DEF Milliseconds, Product
  <1>3. Milliseconds \in Nat
    <2>1. Product \in Nat
      BY <1>1
    <2>2. Product \div Interval \in Nat
      BY <1>1, <2>1
    <2> QED
      BY <1>2, <2>2
  <1>4. LastMs \in Int
    BY <1>1, DivMod DEF LastMs
  <1>5. CASE Product + Interval < Word
    <2>1. (Product + Interval) \div Interval = (Product \div Interval) + 1
      BY <1>1
    <2> QED
      BY <1>1, <1>2, <1>3, <1>4, <1>5, <2>1
  <1>6. CASE Product + Interval >= Word
    <2>1. Product' \in 0..(Interval - 1)
      BY <1>1, <1>6
    <2>2. Product' \div Interval = 0
      BY <1>1, <2>1
    <2>3. Product \div Interval >= (Word - Interval) \div Interval
      <3>1. Product \in Int /\ Word - Interval \in Int /\ Product >= Word - Interval
        BY <1>1, <1>6
      <3> QED
        BY <1>1, <3>1
    <2>4. (Word - Interval) \div Interval = (Word \div Interval) - 1
      <3> DEFINE q == Word \div Interval
                 r == Word % Interval
      <3>1. q \in Int /\ r \in 0..(Interval - 1) /\ Word = Interval * q + r
        BY <1>1, DivMod
      <3> HIDE DEF q, r
      <3>2. q - 1 \in Int /\ Word - Interval = Interval * (q - 1) + r
        BY <1>1, <3>1
      <3>3. (Word - Interval) \div Interval = q - 1
        BY <1>1, <3>1, <3>2, DivModUnique
      <3> QED
        BY <3>3 DEF q
    <2> QED
      BY <1>2, <1>3, <1>4, <2>2, <2>3, <2>4 DEF LastMs
  <1> QED
    BY <1>1, <1>3, <1>4, <1>5, <1>6

(* What the program waits for is given as long as this.                    *)
Delay == IF wait = "settle" THEN SettleDelay ELSE XferTimeout

WaitsTypeOK ==
  /\ wait \in {"none", "settle", "transfer", "answer", "clear", "result"}
  /\ deadline \in Nat /\ waited \in 0..MaxWaited /\ unseen \in Nat

(* The clock is never ahead of the ticks that were counted.                *)
NotAhead == waited = MaxWaited \/ Milliseconds <= deadline - Delay + waited

(* If it passes the deadline in its stride it is not behind them either,   *)
(* and the program looks at it in time.                                    *)
InStride ==
  PassedInStride =>
    Milliseconds = deadline - Delay + waited /\ Milliseconds <= LastLook + unseen

WaitsInv ==
  /\ ClockInv /\ WaitsTypeOK
  /\ wait = "none" => waited = 0
  /\ wait # "none" => NotAhead /\ InStride /\ unseen <= Turn

LEMMA MillisecondsType == ClockTypeOK => Milliseconds \in Nat /\ LastMs \in Int
  <1> USE ClockAssumption
  <1> SUFFICES ASSUME ClockTypeOK PROVE Milliseconds \in Nat /\ LastMs \in Int
    OBVIOUS
  <1>1. /\ nticks * Interval \in Int /\ Word \in Nat \ {0} /\ Interval \in Nat \ {0}
    BY DEF ClockTypeOK
  <1>2. (nticks * Interval) % Word \in Nat
    <2>1. (nticks * Interval) % Word \in 0..(Word - 1)
      BY <1>1, DivMod
    <2> QED
      BY <1>1, <2>1
  <1>3. ((nticks * Interval) % Word) \div Interval \in Nat
    BY <1>1, <1>2
  <1> QED
    BY <1>1, <1>3, DivMod DEF Milliseconds, LastMs

LEMMA WaitsInvInit == WaitsInit => WaitsInv
  <1> USE WaitsAssumption
  <1> SUFFICES ASSUME WaitsInit PROVE WaitsInv
    OBVIOUS
  <1>1. ClockInv
    BY ClockInvInit DEF WaitsInit
  <1>2. WaitsTypeOK
    BY DEF WaitsInit, WaitsTypeOK, MaxWaited
  <1> QED
    BY <1>1, <1>2 DEF WaitsInit, WaitsInv

LEMMA WaitsStepsClock == [WaitsNext]_waitsVars => [ClockNext]_clockVars
  <1>1. ASSUME WaitStep PROVE UNCHANGED clockVars
    BY <1>1, Zenon DEF WaitStep, Settling, AskForAnswer, TimedOut, NoAnswerYet, Answer,
       AskForResult, Result, Again
  <1>2. ASSUME OtherCommand \/ Attached \/ Dispatch \/ SpiStep \/ UNCHANGED waitsVars
        PROVE  UNCHANGED clockVars
    BY <1>2, Zenon DEF OtherCommand, Attached, Dispatch, SpiStep, waitsVars
  <1>3. ASSUME StartAlarm \/ TimerInterrupt PROVE ClockNext
    BY <1>3, Zenon DEF StartAlarm, TimerInterrupt, ClockNext
  <1> QED
    BY <1>1, <1>2, <1>3, Zenon DEF WaitsNext

(* A wait begins with its whole delay ahead of it.                         *)
LEMMA WaitBegins ==
  ASSUME WaitsInv, UNCHANGED clockVars,
         \/ wait' = "settle" /\ WaitFor(SettleDelay)
         \/ wait' = "transfer" /\ WaitFor(XferTimeout)
  PROVE  WaitsInv'
  <1> USE WaitsAssumption
  <1>1. ClockInv' /\ Milliseconds' = Milliseconds /\ Milliseconds \in Nat /\ LastMs \in Int
    <2>1. ClockInv'
      BY ClockInvStep DEF WaitsInv
    <2>2. ClockTypeOK
      BY DEF WaitsInv, ClockInv
    <2> QED
      BY <2>1, <2>2, MillisecondsType DEF clockVars, alarmVars, Milliseconds
  <1>2. deadline' = Milliseconds + Delay' /\ waited' = 0 /\ unseen' = 0
        /\ wait' \in {"settle", "transfer"}
    BY DEF WaitFor, Deadline, Delay
  <1>3. Delay' \in Nat /\ (wait' # "settle" => Delay' > 0)
    BY DEF Delay
  <1>4. PICK m \in Nat, d \in Nat : m = Milliseconds /\ d = Delay'
    BY <1>1, <1>3
  <1>5. Milliseconds' = m /\ Delay' = d /\ deadline' = m + d /\ (wait' # "settle" => d > 0)
    BY <1>1, <1>2, <1>3, <1>4
  <1>6. MaxWaited' \in Nat /\ deadline' \in Nat
    BY <1>5 DEF MaxWaited
  <1>7. WaitsTypeOK'
    BY <1>2, <1>6 DEF WaitsTypeOK
  <1>8. NotAhead' /\ InStride' /\ unseen' <= Turn'
    BY <1>2, <1>5 DEF NotAhead, InStride, LastLook, Turn
  <1> QED
    BY <1>1, <1>2, <1>7, <1>8 DEF WaitsInv

(* One that goes on, between two ticks, keeps its deadline; the program    *)
(* may have looked at the clock and found it is not over.                  *)
LEMMA WaitGoesOn ==
  ASSUME WaitsInv, UNCHANGED <<clockVars, deadline, waited>>,
         wait' \in {"none", "settle", "transfer", "answer", "clear", "result"},
         (wait = "none") <=> (wait' = "none"), (wait = "settle") <=> (wait' = "settle"),
         unseen' = unseen \/ (unseen' = 0 /\ Milliseconds <= LastLook)
  PROVE  WaitsInv'
  <1>1. ClockInv' /\ Milliseconds' = Milliseconds /\ Milliseconds \in Nat /\ LastMs \in Int
    <2>1. ClockInv'
      BY ClockInvStep DEF WaitsInv
    <2>2. ClockTypeOK
      BY DEF WaitsInv, ClockInv
    <2> QED
      BY <2>1, <2>2, MillisecondsType DEF clockVars, alarmVars, Milliseconds
  <1>2. Delay' = Delay /\ LastLook' = LastLook /\ Turn' = Turn /\ Turn \in Nat
    BY WaitsAssumption DEF Delay, LastLook, Turn
  <1>3. WaitsTypeOK'
    BY DEF WaitsInv, WaitsTypeOK
  <1>4. PassedInStride' = PassedInStride /\ MaxWaited' = MaxWaited /\ LastLook \in Int
    BY <1>2 DEF PassedInStride, LastMs, MaxWaited, LastLook, WaitsInv, WaitsTypeOK
  <1>5. wait # "none" => NotAhead' /\ InStride' /\ unseen' <= Turn'
    BY <1>1, <1>2, <1>4 DEF WaitsInv, WaitsTypeOK, NotAhead, InStride
  <1> QED
    BY <1>1, <1>3, <1>5 DEF WaitsInv

LEMMA WaitIsOver ==
  ASSUME WaitsInv, UNCHANGED clockVars, wait' = "none", NoWait
  PROVE  WaitsInv'
  <1> USE WaitsAssumption
  <1>1. ClockInv'
    BY ClockInvStep DEF WaitsInv
  <1>2. WaitsTypeOK'
    BY DEF NoWait, WaitsTypeOK, MaxWaited
  <1> QED
    BY <1>1, <1>2 DEF WaitsInv, NoWait

LEMMA TimerKeeps == WaitsInv /\ TimerInterrupt => WaitsInv'
  <1> USE WaitsAssumption
  <1> SUFFICES ASSUME WaitsInv, TimerInterrupt PROVE WaitsInv'
    OBVIOUS
  <1>1. ClockInv' /\ ClockTypeOK /\ Tick
    BY ClockInvStep DEF WaitsInv, ClockInv, TimerInterrupt, ClockNext
  <1>2. /\ Milliseconds \in Nat /\ LastMs \in Int
        /\ Milliseconds' = Milliseconds + 1 \/ (Milliseconds' = 0 /\ Milliseconds >= LastMs)
    BY <1>1, MillisecondsCount
  <1>3. /\ Delay' = Delay /\ Delay \in Nat /\ LastMs' = LastMs
        /\ LastLook' = LastLook /\ Turn' = Turn /\ Turn \in Nat \ {0}
        /\ PassedInStride' = PassedInStride
    BY DEF Delay, TimerInterrupt, LastMs, LastLook, Turn, PassedInStride
  <1>4. WaitsTypeOK /\ MaxWaited \in Nat /\ Delay + Turn <= MaxWaited /\ LastLook \in Int
        /\ LastLook <= deadline /\ (wait # "settle" => LastLook = deadline - 1)
    BY DEF WaitsInv, WaitsTypeOK, Delay, MaxWaited, Turn, LastLook
  <1>5. /\ wait' = wait /\ deadline' = deadline
        /\ waited' = IF wait # "none" /\ waited < MaxWaited THEN waited + 1 ELSE waited
        /\ unseen' = IF wait # "none" THEN unseen + 1 ELSE 0
        /\ wait # "none" => unseen < Turn
    BY DEF TimerInterrupt
  <1>6. WaitsTypeOK'
    BY <1>4, <1>5 DEF WaitsTypeOK, MaxWaited
  <1>7. CASE wait # "none"
    <2>1. NotAhead /\ InStride /\ unseen < Turn /\ unseen' = unseen + 1
      BY <1>5, <1>7 DEF WaitsInv
    <2>2. NotAhead'
      BY <1>2, <1>3, <1>4, <1>5, <1>7, <2>1 DEF NotAhead, WaitsTypeOK, MaxWaited
    <2>3. ASSUME PassedInStride PROVE InStride'
      <3>1. Milliseconds = deadline - Delay + waited /\ Milliseconds <= LastLook + unseen
        BY <2>1, <2>3 DEF InStride
      <3>2. Milliseconds < LastMs
        BY <1>2, <1>3, <1>4, <2>1, <2>3, <3>1 DEF PassedInStride, WaitsTypeOK
      <3>3. Milliseconds' = Milliseconds + 1
        BY <1>2, <3>2
      <3>4. waited' = waited + 1
        BY <1>2, <1>3, <1>4, <1>5, <1>7, <2>1, <3>1 DEF WaitsTypeOK
      <3> QED
        BY <1>2, <1>3, <1>4, <1>5, <2>1, <3>1, <3>3, <3>4 DEF InStride, WaitsTypeOK
    <2>4. InStride'
      BY <1>3, <2>3 DEF InStride
    <2>5. unseen' <= Turn'
      BY <1>3, <1>4, <2>1 DEF WaitsTypeOK
    <2> QED
      BY <1>1, <1>5, <1>6, <1>7, <2>2, <2>4, <2>5 DEF WaitsInv
  <1>8. CASE wait = "none"
    BY <1>1, <1>5, <1>6, <1>8 DEF WaitsInv
  <1> QED
    BY <1>7, <1>8

LEMMA WaitsInvStep == WaitsInv /\ [WaitsNext]_waitsVars => WaitsInv'
  <1> SUFFICES ASSUME WaitsInv, [WaitsNext]_waitsVars PROVE WaitsInv'
    OBVIOUS
  <1>1. WaitsTypeOK /\ Milliseconds \in Nat
    BY MillisecondsType DEF WaitsInv, ClockInv
  <1>2. CASE OtherCommand \/ SpiStep \/ UNCHANGED waitsVars
    <2>1. UNCHANGED <<clockVars, waitVars>>
      BY <1>2, Zenon DEF OtherCommand, SpiStep, waitsVars
    <2> QED
      BY <1>1, <2>1, WaitGoesOn DEF waitVars, WaitsTypeOK
  <1>3. CASE StartAlarm
    <2>1. ClockInv' /\ UNCHANGED <<nticks, waitVars>>
      BY <1>3, ClockInvStep DEF WaitsInv, StartAlarm, AlarmStart, ClockNext
    <2> QED
      BY <2>1 DEF WaitsInv, WaitsTypeOK, NotAhead, InStride, Delay, Milliseconds, waitVars,
             PassedInStride, LastLook, Turn, LastMs, MaxWaited
  <1>4. CASE Attached \/ Dispatch
    BY <1>4, WaitBegins DEF Attached, Dispatch, clockVars
  <1>5. CASE Settling
    <2>1. UNCHANGED clockVars /\ wait = "settle"
      BY <1>5 DEF Settling, Ready
    <2>2. CASE Settled
      <3>1. wait' = "none" /\ NoWait
        BY <1>5, <2>2 DEF Settling
      <3> QED
        BY <2>1, <3>1, WaitIsOver
    <2>3. CASE ~Settled
      <3>1. wait' = wait /\ unseen' = 0 /\ UNCHANGED <<deadline, waited>>
        BY <1>5, <2>3 DEF Settling, KeepWaiting
      <3>2. Milliseconds <= LastLook
        BY <1>1, <2>1, <2>3 DEF Settled, LastLook, WaitsTypeOK
      <3> QED
        BY <2>1, <3>1, <3>2, WaitGoesOn
    <2> QED
      BY <2>2, <2>3
  <1>6. CASE TimedOut \/ Result
    <2>1. UNCHANGED clockVars /\ wait' = "none" /\ NoWait
      BY <1>6 DEF TimedOut, Result
    <2> QED
      BY <2>1, WaitIsOver
  <1>7. CASE AskForAnswer
    <2>1. /\ UNCHANGED <<clockVars, deadline, waited>> /\ wait = "transfer" /\ wait' = "answer"
          /\ unseen' = 0 /\ Milliseconds <= LastLook
      BY <1>1, <1>7 DEF AskForAnswer, Ready, KeepWaiting, LastLook, WaitsTypeOK
    <2> QED
      BY <2>1, WaitGoesOn
  <1>8. CASE NoAnswerYet \/ Answer \/ AskForResult \/ Again
    <2>1. /\ UNCHANGED <<clockVars, deadline, waited, unseen>>
          /\ wait \in {"answer", "clear", "result"} /\ wait' \in {"transfer", "clear", "result"}
      BY <1>8 DEF NoAnswerYet, Answer, AskForResult, Again, Ready
    <2> QED
      BY <2>1, WaitGoesOn
  <1>9. CASE TimerInterrupt
    BY <1>9, TimerKeeps
  <1> QED
    BY <1>2, <1>3, <1>4, <1>5, <1>6, <1>7, <1>8, <1>9, Zenon DEF WaitsNext, WaitStep

(* The alarm of the console comes when it was asked for, whatever the      *)
(* program waits for meanwhile (alt_tick.c:96-139).                        *)
THEOREM AlarmsComeInTimeWhileWaiting == WaitsSpec => AlarmsComeInTime
  <1>1. WaitsInit => ClockInit
    BY DEF WaitsInit
  <1> QED
    BY <1>1, WaitsStepsClock, ClockRingsInTime, PTL DEF WaitsSpec, ClockSpec

(* A wait ends within one turn of the loop that waits, however many ticks  *)
(* fall in it, unless the clock may fall back to zero before the look that *)
(* ends it (transfer.c:144-156, 276-284; main.c:176, 279-284).             *)
THEOREM WaitsAreNotOverlong == WaitsSpec => []NeverTooLong
  <1>1. ASSUME WaitsInv PROVE NeverTooLong
    <2>1. WaitsTypeOK /\ Milliseconds \in Nat
      BY <1>1, MillisecondsType DEF WaitsInv, ClockInv
    <2>2. ASSUME PassedInStride, wait # "none" PROVE waited <= LastLook - deadline + Delay + Turn
      <3>1. Milliseconds = deadline - Delay + waited /\ Milliseconds <= LastLook + unseen
            /\ unseen <= Turn
        BY <1>1, <2>2 DEF WaitsInv, InStride
      <3> QED
        BY <2>1, <3>1, WaitsAssumption DEF Delay, LastLook, Turn, WaitsTypeOK
    <2> QED
      BY <2>1, <2>2, WaitsAssumption DEF NeverTooLong, Delay, LastLook, Turn, WaitsTypeOK
  <1> QED
    BY <1>1, WaitsInvInit, WaitsInvStep, PTL DEF WaitsSpec

(* No wait is cut short, where the clock falls back to zero in it either   *)
(* (transfer.c:144, 153, 277, 281).                                        *)
THEOREM WaitsAreNotCutShort == WaitsSpec => NeverCutShort
  <1>1. ASSUME WaitsInv, [WaitsNext]_waitsVars
        PROVE  [/\ wait = "settle" /\ wait' = "none" => waited > SettleDelay
                /\ TimedOut => waited >= XferTimeout]_waitsVars
    <2>1. WaitsTypeOK /\ Milliseconds \in Nat
      BY <1>1, MillisecondsType DEF WaitsInv, ClockInv
    <2>2. wait # "none" /\ Milliseconds > deadline => waited > Delay
      BY <1>1, <2>1, WaitsAssumption DEF WaitsInv, NotAhead, Delay, WaitsTypeOK, MaxWaited
    <2>3. wait # "none" /\ Milliseconds >= deadline => waited >= Delay
      BY <1>1, <2>1, WaitsAssumption DEF WaitsInv, NotAhead, Delay, WaitsTypeOK, MaxWaited
    <2>4. wait = "settle" /\ wait' = "none" => Milliseconds > deadline
      <3> SUFFICES ASSUME wait = "settle", wait' = "none" PROVE Milliseconds > deadline
        OBVIOUS
      <3>1. Settling
        BY <1>1 DEF WaitsNext, OtherCommand, Attached, Dispatch, WaitStep, AskForAnswer, TimedOut,
           NoAnswerYet, Answer, AskForResult, Result, Again, SpiStep, StartAlarm,
           TimerInterrupt, Ready, waitVars, waitsVars
      <3> QED
        BY <3>1 DEF Settling, Settled
    <2>5. TimedOut => wait = "transfer" /\ Milliseconds >= deadline
      BY DEF TimedOut, Ready
    <2> QED
      BY <2>2, <2>3, <2>4, <2>5 DEF Delay
  <1> QED
    BY <1>1, WaitsInvInit, WaitsInvStep, PTL DEF WaitsSpec, NeverCutShort

=============================================================================
