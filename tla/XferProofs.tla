----------------------------- MODULE XferProofs -----------------------------
(* Every report is received once and in order, every answer is whole and   *)
(* every command is carried out, for all limits, packet sizes and numbers  *)
(* of reports and requests.                                                *)
EXTENDS Xfer, TLAPS

USE DEF hrSUCCESS, hrNAK, hrTOGERR, hrTIMEOUT, NoData, NoAnswer, Nobody, Empty, Toggles

(* A packet stays within the answer.                                       *)
LEMMA RestWithin ==
  ASSUME ask \in Asks, NEW b \in Nat, b <= ask.sent
  PROVE  /\ Rest(b) \in Nat /\ b + Rest(b) \in Nat /\ b + Rest(b) <= ask.sent
         /\ EndsAnswer(b) => b + Rest(b) = ask.sent
  BY XferAssumption DEF Rest, EndsAnswer

LEMMA HandshakeType ==
  ASSUME XferTypeOK, pc = "in", HasPacket, Handshake
  PROVE  /\ next' \in [{0, 1} -> Nat] /\ next'[1] \in 1..(made + 1)
         /\ devToggle' \in [{0, 1} -> Toggles]
         /\ devStage' \in {"none", "data", "busy", "status"}
         /\ kind = "ask" => next'[0] <= ask.sent
  <1> USE XferAssumption
  <1>1. kind = "poll" \/ kind = "ask"
    BY DEF XferTypeOK, CallTypeOK
  <1>2. CASE UNCHANGED <<next, devToggle, devStage>>
    BY <1>2 DEF XferTypeOK, DeviceTypeOK
  <1>3. CASE /\ devToggle' = [devToggle EXCEPT ![Ep] = 1 - @]
             /\ next' = [next EXCEPT ![Ep] = IF kind = "poll" THEN @ + 1 ELSE @ + Rest(@)]
    <2>1. devToggle' \in [{0, 1} -> Toggles]
      BY <1>3 DEF XferTypeOK, DeviceTypeOK, Ep
    <2>2. devStage' \in {"none", "data", "busy", "status"}
      BY DEF Handshake, XferTypeOK, DeviceTypeOK
    <2>3. CASE kind = "poll"
      <3>1. next[1] + 1 \in 1..(made + 1) /\ next' = [next EXCEPT ![1] = @ + 1]
        BY <2>3, <1>3 DEF XferTypeOK, DeviceTypeOK, Ep, HasPacket
      <3> QED
        BY <2>1, <2>2, <2>3, <3>1 DEF XferTypeOK, DeviceTypeOK
    <2>4. CASE kind = "ask"
      <3>1. next[0] \in Nat /\ next[0] <= ask.sent /\ ask \in Asks
        BY <2>4 DEF XferTypeOK, DeviceTypeOK, CallTypeOK
      <3>2. next' = [next EXCEPT ![0] = @ + Rest(@)]
        BY <2>4, <1>3 DEF Ep
      <3> QED
        BY <2>1, <2>2, <2>4, <3>1, <3>2, RestWithin DEF XferTypeOK, DeviceTypeOK
    <2> QED
      BY <1>1, <2>3, <2>4
  <1> QED
    BY <1>2, <1>3 DEF Handshake

LEMMA ReadType ==
  ASSUME XferTypeOK, ReadPacket
  PROVE  /\ xfrlen' \in Nat /\ intact' \in BOOLEAN /\ fifo' = Empty
         /\ first' \in 0..MaxReports /\ First \in 0..MaxReports
  <1> USE XferAssumption
  <1>1. kind = "poll" \/ kind = "ask"
    BY DEF XferTypeOK, CallTypeOK, ReadPacket
  <1>2. PktSize \in Nat
    <2>1. CASE kind = "poll"
      BY <2>1 DEF PktSize, XferTypeOK, CallTypeOK
    <2>2. CASE kind = "ask"
      <3>1. fifo \in Nat /\ fifo <= ask.sent /\ ask \in Asks
        BY <2>2 DEF XferTypeOK, HostTypeOK, DeviceTypeOK, CallTypeOK, ReadPacket
      <3> QED
        BY <2>2, <3>1, RestWithin DEF PktSize
    <2> QED
      BY <1>1, <2>1, <2>2
  <1>3. First \in 0..MaxReports
    BY DEF First, XferTypeOK, HostTypeOK, ReadPacket
  <1>4. intact' \in BOOLEAN
    BY Zenon DEF ReadPacket, XferTypeOK, HostTypeOK
  <1> QED
    BY <1>2, <1>3, <1>4 DEF ReadPacket, XferTypeOK, HostTypeOK

(* Every variable keeps its type, and no count passes its limit.           *)
THEOREM XferTypeCorrect == XferSpec => []XferTypeOK
  <1>1. XferInit => XferTypeOK
    BY XferAssumption DEF XferInit, XferTypeOK, CallTypeOK, HostTypeOK, DeviceTypeOK
  <1>2. XferTypeOK /\ [XferNext]_xferVars => XferTypeOK'
    <2> SUFFICES ASSUME XferTypeOK, [XferNext]_xferVars PROVE XferTypeOK'
      OBVIOUS
    <2> USE XferAssumption DEF XferTypeOK, CallTypeOK, HostTypeOK, DeviceTypeOK
    <2>1. CASE MakeReport \/ Execute
      BY <2>1 DEF MakeReport, Execute, callVars, bufferVars, chipVars, controlVars
    <2>2. CASE StartPoll
      BY <2>2 DEF StartPoll, StartIn, deviceVars, controlVars
    <2>3. CASE Nak \/ BusTimeout \/ BusError
      BY <2>3 DEF Nak, NotReady, BusTimeout, BusError, Sending, TimeOut, End, callVars,
                  bufferVars, chipVars, deviceVars, controlVars
    <2>4. CASE NewData
      <3>1. /\ fifo' = next[Ep] /\ fifo' \in Nat /\ chipToggle' \in Toggles /\ pc' = "data"
            /\ UNCHANGED <<callVars, nak, retry, bufferVars, rcode, rcvToggle, got, made,
                           heard, executed>>
            /\ pc = "in"
        BY <2>4 DEF NewData, Ep
      <3>2. kind = "poll" => fifo' \in 1..MaxReports
        BY <2>4, <3>1 DEF NewData, Ep, HasPacket
      <3>3. kind = "ask" => fifo' <= ask.sent
        BY <3>1 DEF Ep
      <3> QED
        BY <2>4, <3>1, <3>2, <3>3, HandshakeType DEF NewData, callVars, bufferVars
    <2>5. CASE OldData
      BY <2>5, HandshakeType DEF OldData, End, callVars, bufferVars, chipVars
    <2>6. CASE NothingReceived
      BY <2>6 DEF NothingReceived, End, callVars, bufferVars, chipVars, deviceVars, controlVars
    <2>7. CASE Complete
      <3>1. ReadPacket /\ UNCHANGED <<callVars, chipToggle, deviceVars>>
            /\ rcvToggle' \in [{0, 1} -> Toggles]
        BY <2>7 DEF Complete, Ep
      <3>2. \/ kind = "poll" /\ End(hrSUCCESS) /\ got' = First /\ UNCHANGED <<nak, retry>>
            \/ kind # "poll" /\ Dispatch("status") /\ UNCHANGED got
        BY <2>7 DEF Complete
      <3> QED
        BY <3>1, <3>2, ReadType DEF ReadPacket, End, Dispatch, callVars, deviceVars, controlVars
    <2>8. CASE Continue
      BY <2>8, ReadType DEF Continue, ReadPacket, Dispatch, callVars, deviceVars, controlVars
    <2>9. ASSUME NEW k \in {"ask", "command"}, StartRequest(k) PROVE XferTypeOK'
      BY <2>9 DEF StartRequest, Dispatch, bufferVars, chipVars, deviceVars, controlVars
    <2>10. CASE SetupSeen
      <3>1. /\ heard' \in 0..request /\ devStage' \in {"data", "busy"} /\ next'[0] = 0
            /\ next' \in [{0, 1} -> Nat] /\ next'[1] = next[1]
            /\ devToggle' \in [{0, 1} -> Toggles] /\ UNCHANGED <<made, executed>>
        BY <2>10 DEF SetupSeen, TakeSetup
      <3>2. /\ rcvToggle' \in [{0, 1} -> Toggles] /\ chipToggle' \in Toggles
            /\ xfrlen' \in Nat /\ intact' \in BOOLEAN /\ first' \in 0..MaxReports
            /\ nak' = 0 /\ retry' = 0 /\ UNCHANGED <<rcode, got, fifo, callVars>>
            /\ pc' = IF kind = "ask" THEN "in" ELSE "status"
        <4>1. CASE kind = "ask"
          <5>1. rcvToggle' = [rcvToggle EXCEPT ![0] = 1] /\ chipToggle' = rcvToggle'[0]
            BY <2>10, <4>1 DEF SetupSeen, StartDataStage, StartIn
          <5> QED
            BY <2>10, <4>1, <5>1 DEF SetupSeen, StartDataStage, StartIn
        <4>2. CASE kind # "ask"
          BY <2>10, <4>2 DEF SetupSeen, Dispatch, bufferVars
        <4> QED
          BY <4>1, <4>2
      <3> QED
        BY <2>10, <3>1, <3>2 DEF SetupSeen, TakeSetup, callVars
    <2>11. CASE SetupLost
      BY <2>11 DEF SetupLost, TakeSetup, TimeOut, End, callVars, bufferVars, chipVars
    <2>12. CASE StatusOut
      BY <2>12 DEF StatusOut, TimeOut, End, callVars, bufferVars, chipVars
    <2>13. CASE StatusIn
      BY <2>13 DEF StatusIn, End, callVars, bufferVars, chipVars
    <2>14. CASE UNCHANGED xferVars
      BY <2>14 DEF xferVars, callVars, bufferVars, chipVars, deviceVars, controlVars
    <2> QED
      BY <2>1, <2>2, <2>3, <2>4, <2>5, <2>6, <2>7, <2>8, <2>9, <2>10, <2>11, <2>12, <2>13,
         <2>14
      DEF XferNext, HostStep, Transaction, InTransfer, Request
  <1> QED
    BY <1>1, <1>2, PTL DEF XferSpec


(***************************************************************************)
(* Polls                                                                   *)
(***************************************************************************)

(* The toggle the host saved for the interrupt endpoint stays in step with *)
(* the device, whichever packets and acknowledgements are lost and         *)
(* whatever requests come between.                                         *)
LEMMA PollStep ==
  ASSUME XferTypeOK, OnePacket, TogglesAgree, [XferNext]_xferVars PROVE TogglesAgree'
  <1> USE XferAssumption DEF XferTypeOK, CallTypeOK, HostTypeOK, DeviceTypeOK, TogglesAgree,
                             Polling
  <1>1. CASE MakeReport \/ Execute
    BY <1>1 DEF InStep, Ahead, MakeReport, Execute, callVars, bufferVars, chipVars, controlVars
  <1>2. CASE StartPoll
    BY <1>2 DEF InStep, StartPoll, StartIn, deviceVars
  <1>3. CASE Nak \/ BusTimeout \/ BusError
    BY <1>3 DEF InStep, Nak, NotReady, BusTimeout, BusError, Sending, TimeOut, End, callVars,
                bufferVars, chipVars, deviceVars
  <1>4. CASE NewData
    <2>1. CASE kind = "poll"
      <3>1. next[1] = got + 1 /\ devToggle[1] = rcvToggle[1] /\ chipToggle = rcvToggle[1]
        BY <1>4, <2>1 DEF InStep, NewData, Ep
      <3>2. /\ pc' = "data" /\ fifo' = got + 1 /\ chipToggle' = 1 - rcvToggle[1]
            /\ UNCHANGED <<kind, rcvToggle, got, made, first, xfrlen>>
        BY <1>4, <2>1, <3>1 DEF NewData, Ep, callVars, bufferVars
      <3>3. Ahead'
        BY <1>4, <2>1, <3>1, <3>2 DEF Ahead, NewData, Handshake, Ep
      <3> QED
        BY <1>4, <2>1, <3>1, <3>2, <3>3 DEF NewData, HasPacket
    <2>2. CASE kind # "poll"
      BY <1>4, <2>2 DEF InStep, NewData, Handshake, Ep, callVars
    <2> QED
      BY <2>1, <2>2
  <1>5. CASE OldData
    <2>1. /\ pc' \in {"data", "idle"} /\ fifo' = Empty
          /\ UNCHANGED <<kind, rcvToggle, chipToggle, got, first, xfrlen>>
      BY <1>5 DEF OldData, End, callVars, bufferVars, chipVars
    <2>2. InStep'
      <3>1. CASE kind = "poll"
        <4>1. next[1] = got /\ devToggle[1] # rcvToggle[1]
          BY <1>5, <3>1 DEF InStep, OldData, Ep
        <4> QED
          BY <1>5, <2>1, <3>1, <4>1 DEF InStep, OldData, Handshake, Ep
      <3>2. CASE kind # "poll"
        BY <1>5, <2>1, <3>2 DEF InStep, OldData, Handshake, Ep
      <3> QED
        BY <3>1, <3>2
    <2> QED
      BY <1>5, <2>1, <2>2 DEF OldData
  <1>6. CASE NothingReceived
    BY <1>6 DEF InStep, NothingReceived, End, callVars, bufferVars, chipVars, deviceVars
  <1>7. CASE Complete
    <2>1. CASE kind = "poll"
      <3>1. got' = got + 1 /\ fifo' = Empty /\ pc' = "idle" /\ Ahead
        BY <1>7, <2>1 DEF Ahead, Complete, ReadPacket, First, End
      <3>2. UNCHANGED <<next, devToggle>> /\ rcvToggle'[1] = chipToggle
        BY <1>7, <2>1 DEF Complete, Ep, deviceVars
      <3>3. InStep'
        BY <3>1, <3>2 DEF InStep, Ahead
      <3> QED
        BY <3>1, <3>3
    <2>2. CASE kind # "poll"
      <3>1. UNCHANGED <<kind, next, devToggle, got>> /\ rcvToggle'[1] = rcvToggle[1]
        BY <1>7, <2>2 DEF Complete, Ep, callVars, deviceVars
      <3> QED
        BY <2>2, <3>1 DEF InStep
    <2> QED
      BY <2>1, <2>2
  <1>8. CASE Continue
    <2>1. kind # "poll"
      BY <1>8 DEF Continue, ReadPacket, IsComplete, PktSize, OnePacket
    <2> QED
      BY <1>8, <2>1 DEF InStep, Continue, callVars, deviceVars
  <1>9. ASSUME NEW k \in {"ask", "command"}, StartRequest(k) PROVE TogglesAgree'
    BY <1>9 DEF InStep, StartRequest, Dispatch, chipVars, deviceVars
  <1>10. CASE SetupSeen \/ SetupLost
    <2>1. kind # "poll" /\ kind' = kind /\ got' = got
      BY <1>10 DEF SetupSeen, SetupLost, TakeSetup, callVars
    <2>2. next'[1] = next[1] /\ devToggle'[1] = devToggle[1]
      BY <1>10 DEF SetupSeen, SetupLost, TakeSetup
    <2>3. rcvToggle'[1] = rcvToggle[1]
      BY <1>10 DEF SetupSeen, SetupLost, StartDataStage, StartIn
    <2> QED
      BY <2>1, <2>2, <2>3 DEF InStep
  <1>11. CASE StatusOut \/ StatusIn
    BY <1>11 DEF InStep, StatusOut, StatusIn, callVars
  <1>12. CASE UNCHANGED xferVars
    BY <1>12 DEF InStep, Ahead, xferVars, callVars, bufferVars, chipVars, deviceVars
  <1> QED
    BY <1>1, <1>2, <1>3, <1>4, <1>5, <1>6, <1>7, <1>8, <1>9, <1>10, <1>11, <1>12
    DEF XferNext, HostStep, Transaction, InTransfer, Request

LEMMA EndpointStays == [XferNext]_xferVars => endpoint' = endpoint
  BY DEF XferNext, MakeReport, Execute, HostStep, StartPoll, Transaction, Nak, BusTimeout,
         BusError, NewData, OldData, InTransfer, NothingReceived, Complete, Continue, Request,
         StartRequest, SetupSeen, SetupLost, StatusOut, StatusIn, callVars, xferVars

(* If a report fills a transfer, host, chip and device agree on the toggle *)
(* of the interrupt endpoint (transfer.c:198, 218-223).                    *)
THEOREM TogglesStayInStep == XferSpec => [](OnePacket => TogglesAgree)
  <1>1. XferInit => TogglesAgree
    BY DEF XferInit, TogglesAgree, Polling, InStep
  <1>2. XferTypeOK /\ (OnePacket => TogglesAgree) /\ [XferNext]_xferVars
          => (OnePacket => TogglesAgree)'
    BY PollStep, EndpointStays DEF OnePacket
  <1> QED
    BY <1>1, <1>2, XferTypeCorrect, PTL DEF XferSpec

(* Polling implements the abstract delivery (transfer.c:161-184, 198-224). *)
THEOREM XferDelivers == XferSpec => DeliversReports
  <1>1. XferInit => Reports!DeliveryInit
    BY DEF XferInit, Reports!DeliveryInit
  <1>2. XferTypeOK /\ (OnePacket => TogglesAgree) /\ [XferNext]_xferVars
          => [Reports!Make \/ Reports!Receive]_(Reports!deliveryVars)
    <2> SUFFICES ASSUME XferTypeOK, OnePacket => TogglesAgree, [XferNext]_xferVars
                 PROVE  [Reports!Make \/ Reports!Receive]_(Reports!deliveryVars)
      OBVIOUS
    <2>1. OnePacket' = OnePacket
      BY EndpointStays DEF OnePacket
    <2>2. ASSUME OnePacket, MakeReport PROVE Reports!Make
      BY <2>1, <2>2 DEF MakeReport, Reports!Make
    <2>3. ASSUME OnePacket, Complete, kind = "poll" PROVE Reports!Receive
      <3>1. first = Nobody /\ fifo = got + 1 /\ fifo <= made
        BY <2>3 DEF TogglesAgree, Polling, Ahead, Complete, ReadPacket
      <3>2. got' = got + 1 /\ UNCHANGED made
        BY <2>3, <3>1 DEF Complete, First, deviceVars
      <3>3. got < made
        BY <3>1 DEF XferTypeOK, HostTypeOK, DeviceTypeOK
      <3> QED
        BY <2>1, <2>3, <3>2, <3>3 DEF Reports!Receive
    <2>4. ASSUME ~MakeReport, ~(Complete /\ kind = "poll") PROVE UNCHANGED <<made, got>>
      BY <2>4 DEF XferNext, Execute, HostStep, StartPoll, Transaction, Nak, BusTimeout,
           BusError, NewData, OldData, InTransfer, NothingReceived, Complete, Continue, Request,
           StartRequest, SetupSeen, SetupLost, TakeSetup, StatusOut, StatusIn, deviceVars, xferVars
    <2>5. ASSUME ~OnePacket \/ UNCHANGED <<made, got>> PROVE UNCHANGED Reports!deliveryVars
      BY <2>1, <2>5 DEF Reports!deliveryVars
    <2> QED
      BY <2>2, <2>3, <2>4, <2>5
  <1> QED
    BY <1>1, <1>2, XferTypeCorrect, TogglesStayInStep, PTL
    DEF XferSpec, DeliversReports, Reports!DeliverySpec

(***************************************************************************)
(* Control requests                                                        *)
(***************************************************************************)

LEMMA AnswerStep ==
  ASSUME XferTypeOK, AnswerInv, [XferNext]_xferVars PROVE AnswerInv'
  <1> SUFFICES ASSUME kind' = "ask" PROVE AnswerInv'
    BY DEF AnswerInv
  <1> USE XferAssumption DEF XferTypeOK, CallTypeOK, HostTypeOK, DeviceTypeOK, AnswerInv
  <1>1. CASE MakeReport \/ Execute
    BY <1>1 DEF MakeReport, Execute, Rest, EndsAnswer, callVars, bufferVars, chipVars,
                controlVars
  <1>2. CASE StartPoll
    BY <1>2 DEF StartPoll
  <1>3. CASE Nak \/ BusTimeout \/ BusError
    BY <1>3 DEF Nak, NotReady, BusTimeout, BusError, Sending, TimeOut, End, Rest, callVars,
                bufferVars, chipVars, deviceVars, controlVars
  <1>4. CASE NewData
    <2>1. /\ kind = "ask" /\ ask' = ask /\ pc' = "data" /\ xfrlen' = xfrlen /\ intact' = intact
          /\ fifo' = next[0] /\ chipToggle' = 1 - chipToggle /\ devToggle[0] = chipToggle
          /\ pc = "in"
      BY <1>4 DEF NewData, Ep, callVars, bufferVars
    <2>2. intact /\ next[0] = xfrlen /\ devStage = "data"
      BY <2>1
    <2>3. \/ /\ devToggle'[0] = 1 - devToggle[0] /\ next'[0] = next[0] + Rest(next[0])
             /\ EndsAnswer(next[0]) \/ devStage' = devStage
          \/ UNCHANGED <<next, devToggle, devStage>>
      BY <1>4, <2>1 DEF NewData, Handshake, Ep
    <2>4. \A b : Rest(b)' = Rest(b) /\ EndsAnswer(b)' = EndsAnswer(b)
      BY <2>1 DEF Rest, EndsAnswer
    <2> QED
      BY <2>1, <2>2, <2>3, <2>4
  <1>5. CASE OldData
    BY <1>5 DEF OldData, End, callVars, bufferVars, chipVars
  <1>6. CASE NothingReceived
    BY <1>6 DEF NothingReceived, End, callVars, bufferVars, chipVars
  <1>7. CASE Complete
    <2>1. /\ kind = "ask" /\ pc = "data" /\ fifo # Empty /\ pc' = "status"
          /\ fifo \in Nat /\ fifo <= ask.sent /\ ask' = ask
      BY <1>7 DEF Complete, ReadPacket, Dispatch, callVars
    <2>2. intact' /\ xfrlen' = fifo + Rest(fifo)
      BY <1>7, <2>1 DEF Complete, ReadPacket, PktSize
    <2>3. EndsAnswer(fifo)
      BY <1>7, <2>1 DEF Complete, IsComplete, PktSize, EndsAnswer, Rest
    <2>4. xfrlen' = ask.sent
      BY <2>1, <2>2, <2>3, RestWithin
    <2> QED
      BY <2>1, <2>2, <2>4
  <1>8. CASE Continue
    <2>1. /\ kind = "ask" /\ pc = "data" /\ fifo # Empty /\ pc' = "in" /\ ask' = ask
          /\ fifo \in Nat /\ UNCHANGED <<next, devToggle, chipToggle, devStage>>
      BY <1>8 DEF Continue, ReadPacket, Dispatch, callVars, deviceVars, controlVars
    <2>2. intact' /\ xfrlen' = fifo + Rest(fifo)
      BY <1>8, <2>1 DEF Continue, ReadPacket, PktSize
    <2>3. ~EndsAnswer(fifo)
      BY <1>8, <2>1 DEF Continue, IsComplete, PktSize, EndsAnswer, Rest
    <2>4. \A b : Rest(b)' = Rest(b)
      BY <2>1 DEF Rest
    <2> QED
      BY <2>1, <2>2, <2>3, <2>4
  <1>9. ASSUME NEW k \in {"ask", "command"}, StartRequest(k) PROVE AnswerInv'
    BY <1>9 DEF StartRequest, Dispatch
  <1>10. CASE SetupSeen
    <2>1. /\ kind = "ask" /\ pc' = "in" /\ devStage' = "data" /\ intact' /\ xfrlen' = 0
          /\ next'[0] = 0 /\ devToggle'[0] = 1
      BY <1>10 DEF SetupSeen, TakeSetup, StartDataStage, StartIn, callVars
    <2>2. rcvToggle'[0] = 1
      BY <1>10, <2>1 DEF SetupSeen, StartDataStage
    <2>3. chipToggle' = 1
      BY <1>10, <2>1, <2>2 DEF SetupSeen, StartDataStage, StartIn
    <2> QED
      BY <2>1, <2>3
  <1>11. CASE SetupLost
    BY <1>11 DEF SetupLost, TakeSetup, TimeOut, End, callVars
  <1>12. CASE StatusOut \/ StatusIn
    BY <1>12 DEF StatusOut, StatusIn, TimeOut, End, callVars, bufferVars, chipVars
  <1>13. CASE UNCHANGED xferVars
    BY <1>13 DEF xferVars, Rest, EndsAnswer, callVars, bufferVars, chipVars, deviceVars,
                 controlVars
  <1> QED
    BY <1>1, <1>2, <1>3, <1>4, <1>5, <1>6, <1>7, <1>8, <1>9, <1>10, <1>11, <1>12, <1>13
    DEF XferNext, HostStep, Transaction, InTransfer, Request

(* A request for data that succeeds has the whole answer                   *)
(* (transfer.c:113-119, 209-217).                                          *)
THEOREM AnswersAreComplete == XferSpec => []AnswersAreWhole
  <1>1. XferInit => AnswerInv
    BY DEF XferInit, AnswerInv
  <1>2. AnswerInv => AnswersAreWhole
    BY DEF AnswerInv, AnswersAreWhole
  <1> QED
    BY <1>1, <1>2, AnswerStep, XferTypeCorrect, PTL DEF XferSpec

LEMMA CommandStep ==
  ASSUME XferTypeOK, CommandInv, [XferNext]_xferVars PROVE CommandInv'
  <1> SUFFICES ASSUME kind' = "command" PROVE CommandInv'
    BY DEF CommandInv
  <1> USE XferAssumption DEF XferTypeOK, CallTypeOK, HostTypeOK, DeviceTypeOK, CommandInv
  <1>1. CASE MakeReport \/ Execute
    BY <1>1 DEF MakeReport, Execute, callVars, controlVars
  <1>2. CASE StartPoll
    BY <1>2 DEF StartPoll
  <1>3. CASE Nak \/ BusTimeout \/ BusError
    BY <1>3 DEF Nak, NotReady, BusTimeout, BusError, Sending, TimeOut, End, callVars,
                deviceVars, controlVars
  <1>4. CASE NewData \/ OldData \/ NothingReceived \/ Complete \/ Continue
    BY <1>4 DEF NewData, OldData, NothingReceived, Complete, Continue, ReadPacket, callVars
  <1>5. ASSUME NEW k \in {"ask", "command"}, StartRequest(k) PROVE CommandInv'
    BY <1>5 DEF StartRequest, Dispatch, deviceVars, controlVars
  <1>6. CASE SetupSeen
    BY <1>6 DEF SetupSeen, TakeSetup, Dispatch, callVars
  <1>7. CASE SetupLost
    BY <1>7 DEF SetupLost, TakeSetup, TimeOut, End, callVars
  <1>8. CASE StatusOut \/ StatusIn
    BY <1>8 DEF StatusOut, StatusIn, TimeOut, End, callVars
  <1>9. CASE UNCHANGED xferVars
    BY <1>9 DEF xferVars, callVars, deviceVars, controlVars
  <1> QED
    BY <1>1, <1>2, <1>3, <1>4, <1>5, <1>6, <1>7, <1>8, <1>9
    DEF XferNext, HostStep, Transaction, InTransfer, Request

(* A command that succeeds has been carried out (transfer.c:99-103,        *)
(* 126-136).                                                               *)
THEOREM CommandsAreDone == XferSpec => []CommandsTakeEffect
  <1>1. XferInit => CommandInv
    BY DEF XferInit, CommandInv
  <1>2. CommandInv => CommandsTakeEffect
    BY DEF CommandInv, CommandsTakeEffect
  <1> QED
    BY <1>1, <1>2, CommandStep, XferTypeCorrect, PTL DEF XferSpec

=============================================================================
