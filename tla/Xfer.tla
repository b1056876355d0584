-------------------------------- MODULE Xfer --------------------------------
(***************************************************************************)
(* The transfers of transfer.c against a bus that loses tokens, data and   *)
(* handshakes: polls of an interrupt endpoint (XferInTransfer, called by   *)
(* kbdPoll and mousePoll) and control requests (XferCtrlReq, XferCtrlData  *)
(* and XferCtrlND), both by way of XferDispatchPkt.  The device and the    *)
(* engine of the MAX3421E follow the rules of USB: the device sends a      *)
(* packet again until it sees it acknowledged, and the engine acknowledges *)
(* but does not store a packet with the toggle of the last.                *)
(***************************************************************************)
EXTENDS Integers

CONSTANTS
  NakLimit,     \* USB_NAK_LIMIT
  RetryLimit,   \* USB_RETRY_LIMIT
  NBytes,       \* what a poll asks for
  Endpoints,    \* interrupt endpoints: packets of max bytes, reports of size bytes
  MaxPkt0,      \* MaxPktSize of endpoint 0
  Asks,         \* requests for data: bytes asked, bytes the device will send
  MaxReports,   \* bound on the reports of a behaviour
  MaxRequests,  \* bound on the control requests of a behaviour
  Errors        \* the other results of a transaction: stall, CRC error, ...

(* Result codes (MAX3421E.h; transfer.c:152, 207).                         *)
hrSUCCESS == 0
hrNAK == 4
hrTOGERR == 6
hrTIMEOUT == 14
NoData == 240
NoAnswer == 255

ASSUME XferAssumption ==
  /\ NakLimit \in Nat \ {0} /\ RetryLimit \in Nat \ {0}
  /\ NBytes \in Nat \ {0} /\ MaxPkt0 \in Nat \ {0}
  /\ \A e \in Endpoints : e.max \in Nat \ {0} /\ e.size \in 0..e.max
  /\ \A a \in Asks : a.asked \in Nat \ {0} /\ a.sent \in 0..a.asked
  /\ MaxReports \in Nat /\ MaxRequests \in Nat
  /\ Errors \subseteq (1..15) \ {hrNAK, hrTOGERR, hrTIMEOUT}

VARIABLES
  endpoint,    \* the interrupt endpoint of the device
  pc,          \* "idle"; "setup", "in", "status": a token is due; "data": IN succeeded
  kind,        \* of the transfer: "poll", "ask" or "command"
  request,     \* the number of control requests so far
  ask,         \* the last request for data
  nak, retry,  \* nak_count, retry_count
  xfrlen,      \* bytes of this transfer so far
  first,       \* the report at the start of the buffer of the caller
  intact,      \* the buffer holds the first xfrlen bytes of the answer
  rcode,       \* result of the last transfer
  rcvToggle,   \* the toggle saved in each endpoint record
  chipToggle,  \* the toggle the engine expects
  fifo,        \* what is in the receive FIFO; Empty: RCVDAVIRQ is not set
  got,         \* the last report main has received
  made,        \* the reports the device has made
  next,        \* what each endpoint sends next: a byte of the answer, a report
  devToggle,   \* with this toggle
  devStage,    \* control endpoint: "none", "data", "busy" or "status"
  heard,       \* the request it serves
  executed     \* the last command the device has carried out

callVars == <<endpoint, kind, request, ask>>
bufferVars == <<xfrlen, first, intact>>
chipVars == <<chipToggle, fifo>>
controlVars == <<devStage, heard, executed>>
deviceVars == <<made, next, devToggle, controlVars>>
xferVars == <<callVars, pc, nak, retry, bufferVars, rcode, rcvToggle, got, chipVars, deviceVars>>

Toggles == {0, 1}
Nobody == 0      \* no report, no request: they are counted from 1
Empty == -1

XferInit ==
  /\ endpoint \in Endpoints /\ ask \in Asks
  /\ pc = "idle" /\ kind = "poll" /\ request = Nobody
  /\ nak = 0 /\ retry = 0 /\ xfrlen = 0 /\ first = Nobody /\ intact = TRUE
  /\ rcode = hrSUCCESS /\ rcvToggle = [e \in {0, 1} |-> 0] /\ got = Nobody
  /\ chipToggle = 0 /\ fifo = Empty
  /\ made = 0 /\ next = [e \in {0, 1} |-> e] /\ devToggle = [e \in {0, 1} |-> 0]
  /\ devStage = "none" /\ heard = Nobody /\ executed = Nobody

(***************************************************************************)
(* The device on its own                                                   *)
(***************************************************************************)

(* The device has something new to report.                                 *)
MakeReport ==
  /\ made < MaxReports
  /\ made' = made + 1
  /\ UNCHANGED <<callVars, pc, nak, retry, bufferVars, rcode, rcvToggle, got, chipVars,
                 next, devToggle, controlVars>>

(* It carries out a command.                                               *)
Execute ==
  /\ devStage = "busy"
  /\ devStage' = "status" /\ executed' = heard
  /\ UNCHANGED <<callVars, pc, nak, retry, bufferVars, rcode, rcvToggle, got, chipVars,
                 made, next, devToggle, heard>>

(***************************************************************************)
(* XferDispatchPkt                                                         *)
(***************************************************************************)

(* The transfer ends.                                                      *)
End(code) == pc' = "idle" /\ rcode' = code

(* Another token is dispatched, with counters of its own.                  *)
Dispatch(stage) == pc' = stage /\ nak' = 0 /\ retry' = 0 /\ UNCHANGED rcode

(* No answer is seen.  Timeouts have their own limit.                      *)
TimeOut ==
  /\ retry' = retry + 1 /\ UNCHANGED nak
  /\ IF retry' = RetryLimit THEN End(hrTIMEOUT) ELSE UNCHANGED <<pc, rcode>>

Sending == pc \in {"setup", "in", "status"}

(* The device may not be ready for its answer; for a report it is when it  *)
(* has made one, and with a command when it has carried it out.            *)
NotReady ==
  \/ pc = "in" /\ (kind = "poll" => made < next[1])
  \/ pc = "status" /\ (kind = "command" => devStage = "busy")

(* Slip: the limit is tested before the count.                             *)
NakLimitSlip ==
  /\ NotReady
  /\ nak' = nak + 1 /\ UNCHANGED retry
  /\ IF nak = NakLimit THEN End(hrNAK) ELSE UNCHANGED <<pc, rcode>>
  /\ UNCHANGED <<callVars, bufferVars, rcvToggle, got, chipVars, deviceVars>>

(* Slip: the limit does not fit the counter, which wraps before it.        *)
NakCountSlip ==
  /\ NotReady
  /\ nak' = (nak + 1) % NakLimit /\ UNCHANGED retry
  /\ IF nak' = NakLimit THEN End(hrNAK) ELSE UNCHANGED <<pc, rcode>>
  /\ UNCHANGED <<callVars, bufferVars, rcvToggle, got, chipVars, deviceVars>>

(* NAKs are counted up to their limit.                                     *)
Nak ==
  /\ NotReady
  /\ nak' = nak + 1 /\ UNCHANGED retry
  /\ IF nak' = NakLimit THEN End(hrNAK) ELSE UNCHANGED <<pc, rcode>>
  /\ UNCHANGED <<callVars, bufferVars, rcvToggle, got, chipVars, deviceVars>>

(* The token, the data or the NAK is lost.                                 *)
BusTimeout ==
  /\ Sending /\ TimeOut
  /\ UNCHANGED <<callVars, bufferVars, rcvToggle, got, chipVars, deviceVars>>

(* Any other error ends the transfer at once; so does the deadline, when   *)
(* the engine does not answer.                                             *)
BusError ==
  /\ Sending
  /\ \E code \in Errors \cup {NoAnswer} : End(code)
  /\ UNCHANGED <<callVars, nak, retry, bufferVars, rcvToggle, got, chipVars, deviceVars>>

(***************************************************************************)
(* XferInTransfer                                                          *)
(***************************************************************************)

Ep == IF kind = "poll" THEN 1 ELSE 0

(* Start a transfer with the toggle saved for the endpoint.                *)
StartIn(toggle) ==
  /\ pc' = "in" /\ nak' = 0 /\ retry' = 0
  /\ xfrlen' = 0 /\ first' = Nobody /\ intact' = TRUE
  /\ chipToggle' = toggle

(* kbdPoll, mousePoll.                                                     *)
StartPoll ==
  /\ pc = "idle" /\ kind' = "poll"
  /\ StartIn(rcvToggle[1])
  /\ UNCHANGED <<endpoint, request, ask, rcode, rcvToggle, got, fifo, deviceVars>>

(* A packet of an answer that starts at byte b; the answer ends with a     *)
(* packet that is not full, unless that would be one byte more than asked. *)
Rest(b) == IF ask.sent - b < MaxPkt0 THEN ask.sent - b ELSE MaxPkt0
EndsAnswer(b) == Rest(b) < MaxPkt0 \/ b + MaxPkt0 >= ask.asked

HasPacket == IF kind = "poll" THEN next[1] <= made ELSE devStage = "data"

(* The device sees the acknowledgement, or it is lost.                     *)
Handshake ==
  \/ /\ devToggle' = [devToggle EXCEPT ![Ep] = 1 - @]
     /\ next' = [next EXCEPT ![Ep] = IF kind = "poll" THEN @ + 1 ELSE @ + Rest(@)]
     /\ devStage' = IF kind = "ask" /\ EndsAnswer(next[0]) THEN "status" ELSE devStage
  \/ UNCHANGED <<next, devToggle, devStage>>

(* A packet with the toggle expected is stored.                            *)
NewData ==
  /\ pc = "in" /\ HasPacket /\ devToggle[Ep] = chipToggle
  /\ fifo' = next[Ep] /\ chipToggle' = 1 - chipToggle
  /\ pc' = "data"
  /\ Handshake
  /\ UNCHANGED <<callVars, nak, retry, bufferVars, rcode, rcvToggle, got, made, heard, executed>>

(* A packet with the other toggle is acknowledged only.                    *)
OldData ==
  /\ pc = "in" /\ HasPacket /\ devToggle[Ep] # chipToggle
  /\ \/ pc' = "data" /\ UNCHANGED rcode
     \/ End(hrTOGERR)
  /\ Handshake
  /\ UNCHANGED <<callVars, nak, retry, bufferVars, rcvToggle, got, chipVars, made, heard, executed>>

(* Success without data: the packet was an old one.                        *)
NothingReceived ==
  /\ pc = "data" /\ fifo = Empty
  /\ End(NoData)
  /\ UNCHANGED <<callVars, nak, retry, bufferVars, rcvToggle, got, chipVars, deviceVars>>

PktSize == IF kind = "poll" THEN endpoint.size ELSE Rest(fifo)

(* Slip: a full packet ends a transfer.                                    *)
IsCompleteSlip ==
  \/ PktSize <= IF kind = "poll" THEN endpoint.max ELSE MaxPkt0
  \/ xfrlen + PktSize >= IF kind = "poll" THEN NBytes ELSE ask.asked

(* The packet is short, or the bytes asked for have been transferred.      *)
IsComplete ==
  \/ PktSize < IF kind = "poll" THEN endpoint.max ELSE MaxPkt0
  \/ xfrlen + PktSize >= IF kind = "poll" THEN NBytes ELSE ask.asked

First == IF first = Nobody /\ kind = "poll" THEN fifo ELSE first

(* Copy the packet behind what is there, and free the FIFO.                *)
ReadPacket ==
  /\ pc = "data" /\ fifo # Empty
  /\ xfrlen' = xfrlen + PktSize
  /\ first' = First
  /\ intact' = (intact /\ (kind = "poll" \/ fifo = xfrlen))
  /\ fifo' = Empty

(* Slip: the toggle is not saved.                                          *)
CompleteSlip ==
  /\ ReadPacket /\ IsComplete
  /\ IF kind = "poll"
     THEN End(hrSUCCESS) /\ got' = First /\ UNCHANGED <<nak, retry>>
     ELSE Dispatch("status") /\ UNCHANGED got
  /\ UNCHANGED <<callVars, rcvToggle, chipToggle, deviceVars>>

(* The last packet: save the toggle.  A poll returns its data; a control   *)
(* request goes on with OUTHS.                                             *)
Complete ==
  /\ ReadPacket /\ IsComplete
  /\ rcvToggle' = [rcvToggle EXCEPT ![Ep] = chipToggle]
  /\ IF kind = "poll"
     THEN End(hrSUCCESS) /\ got' = First /\ UNCHANGED <<nak, retry>>
     ELSE Dispatch("status") /\ UNCHANGED got
  /\ UNCHANGED <<callVars, chipToggle, deviceVars>>

(* Another packet is needed.                                               *)
Continue ==
  /\ ReadPacket /\ ~IsComplete
  /\ Dispatch("in")
  /\ UNCHANGED <<callVars, rcvToggle, got, chipToggle, deviceVars>>

(***************************************************************************)
(* XferCtrlReq, XferCtrlData, XferCtrlND                                   *)
(***************************************************************************)

(* XferCtrlReq: fill the SETUP FIFO.                                       *)
StartRequest(k) ==
  /\ pc = "idle" /\ request < MaxRequests
  /\ kind' = k /\ request' = request + 1
  /\ IF k = "ask" THEN ask' \in Asks ELSE UNCHANGED ask
  /\ Dispatch("setup")
  /\ UNCHANGED <<endpoint, bufferVars, rcvToggle, got, chipVars, deviceVars>>

(* XferCtrlData: the data stage starts with DATA1.                         *)
StartDataStage ==
  /\ rcvToggle' = [rcvToggle EXCEPT ![0] = 1]
  /\ StartIn(rcvToggle'[0])
  /\ UNCHANGED rcode

(* The device always takes a SETUP, and starts afresh.                     *)
TakeSetup ==
  /\ pc = "setup"
  /\ heard' = request
  /\ devStage' = IF kind = "ask" THEN "data" ELSE "busy"
  /\ next' = [next EXCEPT ![0] = 0] /\ devToggle' = [devToggle EXCEPT ![0] = 1]
  /\ UNCHANGED <<made, executed>>

(* Slip: the status stage of a command is left out.                        *)
SetupSeenSlip ==
  /\ TakeSetup
  /\ IF kind = "ask"
     THEN StartDataStage
     ELSE End(hrSUCCESS) /\ UNCHANGED <<nak, retry, bufferVars, rcvToggle, chipToggle>>
  /\ UNCHANGED <<callVars, got, fifo>>

SetupSeen ==
  /\ TakeSetup
  /\ IF kind = "ask"
     THEN StartDataStage
     ELSE Dispatch("status") /\ UNCHANGED <<bufferVars, rcvToggle, chipToggle>>
  /\ UNCHANGED <<callVars, got, fifo>>

(* The acknowledgement is lost: the SETUP is sent again.                   *)
SetupLost ==
  /\ TakeSetup /\ TimeOut
  /\ UNCHANGED <<callVars, bufferVars, rcvToggle, got, chipVars>>

(* OUTHS: the device takes it as the end of the answer, even if it missed  *)
(* an acknowledgement; its own may be lost.                                *)
StatusOut ==
  /\ pc = "status" /\ kind = "ask"
  /\ devStage' = "none"
  /\ \/ End(hrSUCCESS) /\ UNCHANGED <<nak, retry>>
     \/ TimeOut
  /\ UNCHANGED <<callVars, bufferVars, rcvToggle, got, chipVars, made, next, devToggle,
                 heard, executed>>

(* INHS: the device confirms a command it has carried out.                 *)
StatusIn ==
  /\ pc = "status" /\ kind = "command" /\ devStage = "status"
  /\ devStage' \in {"status", "none"}
  /\ End(hrSUCCESS)
  /\ UNCHANGED <<callVars, nak, retry, bufferVars, rcvToggle, got, chipVars, made, next, devToggle,
                 heard, executed>>

Transaction == Nak \/ BusTimeout \/ BusError \/ NewData \/ OldData
InTransfer == NothingReceived \/ Complete \/ Continue
Request ==
  \/ \E k \in {"ask", "command"} : StartRequest(k)
  \/ SetupSeen \/ SetupLost \/ StatusOut \/ StatusIn

HostStep == StartPoll \/ Transaction \/ InTransfer \/ Request

XferNext == MakeReport \/ Execute \/ HostStep

XferSpec == XferInit /\ [][XferNext]_xferVars

(* The main loop polls on, and a bus that is tried again and again lets a  *)
(* report and its acknowledgement through some time.                       *)
PollSteps(A) == A /\ kind = "poll"
XferFairSpec ==
  /\ XferSpec /\ WF_xferVars(HostStep)
  /\ SF_xferVars(PollSteps(NewData)) /\ SF_xferVars(PollSteps(OldData /\ next' # next))

(***************************************************************************)
(* Properties                                                              *)
(***************************************************************************)

CallTypeOK ==
  /\ endpoint \in Endpoints /\ ask \in Asks
  /\ pc \in {"idle", "setup", "in", "data", "status"}
  /\ kind \in {"poll", "ask", "command"} /\ request \in 0..MaxRequests
  /\ kind = "poll" => pc \notin {"setup", "status"}
  /\ kind = "command" => pc \notin {"in", "data"}

HostTypeOK ==
  /\ nak \in 0..NakLimit /\ retry \in 0..RetryLimit
  /\ pc # "idle" => nak < NakLimit /\ retry < RetryLimit
  /\ xfrlen \in Nat /\ intact \in BOOLEAN
  /\ rcode \in {hrSUCCESS, hrNAK, hrTOGERR, hrTIMEOUT, NoData, NoAnswer} \cup Errors
  /\ rcvToggle \in [{0, 1} -> Toggles] /\ chipToggle \in Toggles
  /\ first \in 0..MaxReports /\ got \in 0..MaxReports
  /\ fifo \in Nat \cup {Empty} /\ (pc # "data" => fifo = Empty)
  /\ kind = "poll" /\ fifo # Empty => fifo \in 1..MaxReports

DeviceTypeOK ==
  /\ made \in 0..MaxReports /\ next \in [{0, 1} -> Nat]
  /\ next[1] \in 1..(made + 1)
  /\ devToggle \in [{0, 1} -> Toggles]
  /\ devStage \in {"none", "data", "busy", "status"}
  /\ heard \in 0..request /\ executed \in 0..request
  /\ kind = "ask" /\ pc \in {"in", "data"} => next[0] <= ask.sent /\ fifo <= ask.sent

(* Every variable keeps its type: no counter passes its limit, and the     *)
(* device never runs ahead of its reports or past the end of its answer.   *)
XferTypeOK == CallTypeOK /\ HostTypeOK /\ DeviceTypeOK

(* A report fills a transfer: it is shorter than a packet may be, or as    *)
(* long as the poll asks for.                                              *)
OnePacket == endpoint.size < endpoint.max \/ endpoint.size >= NBytes

(* The host and the device agree on the next report.                       *)
InStep ==
  \/ next[1] = got + 1 /\ devToggle[1] = rcvToggle[1]
  \/ next[1] = got /\ devToggle[1] # rcvToggle[1]       \* acknowledgement lost

(* A report is in the FIFO that the program has not read yet.              *)
Ahead ==
  /\ fifo = got + 1 /\ chipToggle # rcvToggle[1]
  /\ \/ next[1] = fifo /\ devToggle[1] = rcvToggle[1]     \* acknowledgement lost
     \/ next[1] = fifo + 1 /\ devToggle[1] = chipToggle

Polling == kind = "poll" /\ pc \in {"in", "data"}

TogglesAgree ==
  /\ Polling =>
       /\ first = Nobody /\ xfrlen = 0
       /\ fifo = Empty => chipToggle = rcvToggle[1]
  /\ IF Polling /\ fifo # Empty THEN Ahead /\ fifo <= made ELSE InStep

Reports == INSTANCE Delivery WITH
  made <- IF OnePacket THEN made ELSE 0, got <- IF OnePacket THEN got ELSE 0

(* However packets and handshakes are lost, refused or repeated, wherever  *)
(* a transfer gives up, and whatever control requests use the engine in    *)
(* between, main receives every report once and in order, if a report      *)
(* fills a transfer: the toggle that is written back with the last packet  *)
(* only, and set again at each start, stays in step with the device        *)
(* (transfer.c:161-184, 198-224).                                          *)
DeliversReports == Reports!DeliverySpec
DeliversReportsFairly == Reports!DeliveryFairSpec

(* No mixture of answers keeps a transfer going for ever, although NAKs    *)
(* and bus timeouts are counted apart (transfer.c:150-184).                *)
TransfersEnd == pc # "idle" ~> pc = "idle"

(* A request for data that succeeds has put the whole answer in the buffer *)
(* of the caller, no packet twice and none left out, although nothing      *)
(* compares what has come with the length asked but for the end            *)
(* (transfer.c:113-119, 209-217).                                          *)
AnswersAreWhole ==
  pc = "idle" /\ kind = "ask" /\ rcode = hrSUCCESS => intact /\ xfrlen = ask.sent

(* A command that succeeds has been carried out by the device, for USB_Task*)
(* goes on from there with the new address or configuration               *)
(* (transfer.c:99-103, 126-136, 341-344).                                  *)
CommandsTakeEffect ==
  pc = "idle" /\ kind = "command" /\ rcode = hrSUCCESS => executed = request

(* Why: while an answer comes in, the device repeats the packet read last  *)
(* or sends the one that belongs behind it.                                *)
AnswerInv ==
  kind = "ask" =>
    /\ pc = "in" =>
         /\ devStage = "data" /\ intact
         /\ \/ next[0] = xfrlen /\ devToggle[0] = chipToggle
            \/ next[0] + Rest(next[0]) = xfrlen /\ devToggle[0] # chipToggle
    /\ pc = "data" /\ fifo # Empty =>
         /\ fifo = xfrlen /\ intact
         /\ \/ /\ next[0] = fifo + Rest(fifo) /\ devToggle[0] = chipToggle
               /\ EndsAnswer(fifo) \/ devStage = "data"
            \/ next[0] = fifo /\ devToggle[0] # chipToggle /\ devStage = "data"
    /\ pc = "status" \/ (pc = "idle" /\ rcode = hrSUCCESS) => intact /\ xfrlen = ask.sent

(* Why: the command whose status stage has come is that of this request.   *)
CommandInv ==
  kind = "command" =>
    /\ pc = "status" \/ (pc = "idle" /\ rcode = hrSUCCESS) => heard = request
    /\ devStage = "status" /\ heard = request => executed = request
    /\ pc = "idle" /\ rcode = hrSUCCESS => executed = request

(* main.c:189, 241: "NAK means no new data".                               *)
NakMeansNoNewData == pc = "idle" /\ kind = "poll" /\ rcode = hrNAK => first = Nobody

=============================================================================
