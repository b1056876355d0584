-------------------------------- MODULE Spi --------------------------------
(***************************************************************************)
(* The registers of the MAX3421E: MAXreg_wr, MAXreg_rd, MAXbytes_wr and    *)
(* MAXbytes_rd (MAX3421E.c), which are one alt_avalon_spi_command each     *)
(* (altera_avalon_spi.c), and the core that shifts the bytes               *)
(* (finalProject_soc_spi_0.v) while the program polls its status.  The     *)
(* bytes of a command are numbered by their place in it, both ways.        *)
(***************************************************************************)
EXTENDS Integers, Sequences

CONSTANT MaxBytes     \* bound on the data bytes of a command

ASSUME SpiAssumption == MaxBytes \in Nat

VARIABLES
  spi,          \* the step of the program in alt_avalon_spi_command
  writeLength,  \* bytes to send, the register among them
  readLength,   \* bytes to receive after them
  left,         \* bytes the program has not sent yet, the zeros among them
  readIgnore,   \* read_ignore: bytes to receive that are not data
  credits,      \* bytes that may be sent before one is received
  status,       \* TRDY and RRDY as the program read them
  readData,     \* the data received
  sso,          \* SSO: the chip is selected
  txHolding,    \* the byte in tx_holding_reg; none: not primed
  shifting,     \* the byte in shift_reg; none: not transmitting
  rxHolding,    \* the byte in rx_holding_reg
  RRDY,
  ROE,          \* a byte was received before the last one was read
  TOE,          \* a byte was written when there was no room for it
  heard         \* the bytes the chip has received since it was selected

commandVars == <<spi, writeLength, readLength, left, readIgnore, credits, status, readData>>
coreVars == <<sso, txHolding, shifting, rxHolding, RRDY, ROE, TOE, heard>>
spiVars == <<commandVars, coreVars>>

None == 0            \* bytes are numbered from 1
Total == writeLength + readLength
NextByte == Total - left + 1

TRDY == ~(shifting # None /\ txHolding # None)
TMT == shifting = None /\ txHolding = None

SpiInit ==
  /\ spi = "idle" /\ writeLength = 0 /\ readLength = 0
  /\ left = 0 /\ readIgnore = 0 /\ credits = 0
  /\ status = [TRDY |-> FALSE, RRDY |-> FALSE] /\ readData = <<>>
  /\ sso = FALSE /\ txHolding = None /\ shifting = None /\ rxHolding = None
  /\ RRDY = FALSE /\ ROE = FALSE /\ TOE = FALSE /\ heard = <<>>

(***************************************************************************)
(* alt_avalon_spi_command                                                  *)
(***************************************************************************)

(* Slip: as many as the comment on credits would allow.                    *)
CreditsSlip == 2

(* Bytes that may be sent before one is received.                          *)
Credits == 1

(* Slip: only the answer to the register is ignored.                       *)
AnswersIgnoredSlip(w) == 1

(* Answers that are not data: one for each byte of the caller's.           *)
AnswersIgnored(w) == w

(* Select the chip.                                                        *)
Command(w, r) ==
  /\ spi = "idle"
  /\ writeLength' = w /\ readLength' = r /\ left' = w + r /\ readIgnore' = AnswersIgnored(w)
  /\ credits' = Credits /\ readData' = <<>>
  /\ sso' = TRUE /\ heard' = <<>>
  /\ spi' = "discard"
  /\ UNCHANGED <<status, txHolding, shifting, rxHolding, RRDY, ROE, TOE>>

(* The four functions of MAX3421E.c.                                       *)
RegWr == Command(2, 0)
RegRd == Command(1, 1)
BytesWr == \E nbytes \in 0..MaxBytes : Command(nbytes + 1, 0)
BytesRd == \E nbytes \in 0..MaxBytes : Command(1, nbytes)

(* Read what an earlier command may have left.                             *)
Discard ==
  /\ spi = "discard"
  /\ RRDY' = FALSE /\ spi' = "poll"
  /\ UNCHANGED <<writeLength, readLength, left, readIgnore, credits, status, readData,
                 sso, txHolding, shifting, rxHolding, ROE, TOE, heard>>

SomethingToDo == (TRDY /\ credits # 0) \/ RRDY

(* Read the status until there is something to send or to receive.         *)
Poll ==
  /\ spi = "poll"
  /\ status' = [TRDY |-> TRDY, RRDY |-> RRDY]
  /\ spi' = IF SomethingToDo THEN "send" ELSE "poll"
  /\ UNCHANGED <<writeLength, readLength, left, readIgnore, credits, readData, coreVars>>

(* One more byte, or a zero; the core takes it if it has room.  Out of     *)
(* bytes, no more credits.                                                 *)
Send ==
  /\ spi = "send"
  /\ spi' = "receive"
  /\ IF status.TRDY /\ credits > 0
     THEN IF left > 0
          THEN /\ left' = left - 1 /\ credits' = credits - 1
               /\ IF TRDY THEN txHolding' = NextByte /\ UNCHANGED TOE
                          ELSE TOE' = TRUE /\ UNCHANGED txHolding
          ELSE credits' = -1024 /\ UNCHANGED <<left, txHolding, TOE>>
     ELSE UNCHANGED <<left, credits, txHolding, TOE>>
  /\ UNCHANGED <<writeLength, readLength, readIgnore, status, readData, sso, shifting,
                 rxHolding, RRDY, ROE, heard>>

(* A byte has come: ignore it or keep it.                                  *)
Receive ==
  /\ spi = "receive" /\ status.RRDY
  /\ RRDY' = FALSE /\ credits' = credits + 1
  /\ IF readIgnore > 0
     THEN readIgnore' = readIgnore - 1 /\ UNCHANGED readData
     ELSE readData' = Append(readData, rxHolding) /\ UNCHANGED readIgnore
  /\ spi' = IF readIgnore' = 0 /\ Len(readData') = readLength THEN "drain" ELSE "poll"
  /\ UNCHANGED <<writeLength, readLength, left, status, sso, txHolding, shifting,
                 rxHolding, ROE, TOE, heard>>

NothingToReceive ==
  /\ spi = "receive" /\ ~status.RRDY
  /\ spi' = "poll"
  /\ UNCHANGED <<writeLength, readLength, left, readIgnore, credits, status, readData, coreVars>>

(* When the core is empty, deselect the chip.                              *)
Drain ==
  /\ spi = "drain" /\ TMT
  /\ sso' = FALSE /\ spi' = "idle"
  /\ UNCHANGED <<writeLength, readLength, left, readIgnore, credits, status, readData,
                 txHolding, shifting, rxHolding, RRDY, ROE, TOE, heard>>

CommandStep == Discard \/ Poll \/ Send \/ Receive \/ NothingToReceive \/ Drain

(***************************************************************************)
(* finalProject_soc_spi_0                                                  *)
(***************************************************************************)

(* write_shift_reg: a byte moves on to the shift register.                 *)
Load ==
  /\ txHolding # None /\ shifting = None
  /\ shifting' = txHolding /\ txHolding' = None
  /\ UNCHANGED <<commandVars, sso, rxHolding, RRDY, ROE, TOE, heard>>

(* state 17: the eighth bit is out.  The chip has the byte, if selected,   *)
(* and has sent the one of its own that goes with it.                      *)
Shifted ==
  /\ shifting # None
  /\ shifting' = None
  /\ heard' = IF sso THEN Append(heard, shifting) ELSE heard
  /\ rxHolding' = Len(heard')
  /\ RRDY' = TRUE /\ ROE' = (ROE \/ RRDY)
  /\ UNCHANGED <<commandVars, sso, txHolding, TOE>>

Core == Load \/ Shifted

(***************************************************************************)
(* Properties                                                              *)
(***************************************************************************)

Numbered(first, last) == [i \in 1..(last - first + 1) |-> first + i - 1]

(* A command is one whole exchange: when it returns, the chip has heard    *)
(* its bytes, all, once and in order, while it was selected, the caller    *)
(* has the answers to the last readLength of them, and the core is left    *)
(* empty, whatever the program and the core do meanwhile                   *)
(* (altera_avalon_spi.c:66-135).                                           *)
WholeExchange ==
  spi = "idle" =>
    /\ heard = Numbered(1, Total)
    /\ readData = Numbered(writeLength + 1, Total)
    /\ TMT /\ ~RRDY

(* No byte comes before the last one was read and none is written when     *)
(* there is no room, however slow the program is: a processor that serves  *)
(* an interrupt in the middle of a command loses nothing                   *)
(* (altera_avalon_spi.c:49-53, finalProject_soc_spi_0.v:361-400).          *)
NothingOverrun == ~ROE /\ ~TOE

(* Every command returns: the waits for a byte and for the end of the      *)
(* transmission never wait for one another (altera_avalon_spi.c:74-125).   *)
CommandsEnd == spi # "idle" ~> spi = "idle"
=============================================================================
