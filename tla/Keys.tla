-------------------------------- MODULE Keys --------------------------------
(***************************************************************************)
(* The main loop of main.c publishes the keys of a keyboard report on four *)
(* ports of one bit and a port for a key code, one write after the other.  *)
(* The game reads the ports on its own clock, between any two writes.      *)
(***************************************************************************)
EXTENDS FiniteSets, Integers

CONSTANTS
  Rollover,    \* keycode[6]: the keys a report has room for
  HidCodes     \* the keys of the keyboard

KeyOf == [s |-> 22, w |-> 26, down |-> 81, up |-> 82]   \* main.c:197-209
KeyPort == DOMAIN KeyOf
Port == KeyPort \cup {"keycode"}
TooManyKeys == 1     \* HID: the code that fills a report with no room

ASSUME KeysAssumption ==
  /\ Rollover \in Nat \ {0}
  /\ HidCodes \subseteq 2..255

VARIABLES
  pc,          \* "poll", "scan", "clear" or "code"
  i,           \* how far the scan or the clearing is
  keycodes,    \* kbdbuf.keycode: the report that is published
  keySet,      \* sSet, wSet, downSet, upSet
  port,        \* what the ports show
  polled,      \* is there a keyboard that main polls?
  held,        \* the keys that are down
  changed      \* has the keyboard something new to report?

programVars == <<pc, i, keycodes, keySet, port>>
keyboardVars == <<polled, held, changed>>
keysVars == <<programVars, keyboardVars>>

Slots == 1..Rollover
NoKeys == [n \in Slots |-> 0]
Pressed(k) == \E n \in Slots : keycodes[n] = KeyOf[k]

KeysInit ==
  /\ pc = "poll" /\ i = 1
  /\ keycodes = NoKeys /\ keySet = [k \in KeyPort |-> FALSE]
  /\ port = [p \in Port |-> 0]
  /\ polled = FALSE /\ held = {} /\ changed = FALSE

(***************************************************************************)
(* The keyboard                                                            *)
(***************************************************************************)

Fits(h) == Cardinality(h) <= Rollover

(* A report holds every key that is down once, in any order.               *)
Reports(h) ==
  IF Fits(h)
  THEN {r \in [Slots -> h \cup {0}] :
          \A code \in h : Cardinality({n \in Slots : r[n] = code}) = 1}
  ELSE {[n \in Slots |-> TooManyKeys]}

ChangeKeys ==
  /\ polled
  /\ held' \in SUBSET HidCodes /\ held' # held
  /\ changed' = TRUE
  /\ UNCHANGED <<programVars, polled>>

PlugKeyboard ==
  /\ ~polled /\ polled' = TRUE
  /\ held' \in SUBSET HidCodes /\ changed' = TRUE
  /\ UNCHANGED programVars

UnplugKeyboard ==
  /\ polled /\ polled' = FALSE
  /\ held' = {} /\ changed' = FALSE
  /\ UNCHANGED programVars

(***************************************************************************)
(* main                                                                    *)
(***************************************************************************)

(* kbdPoll returns a report: a new one, or the same again.  A poll that    *)
(* returns anything else publishes nothing.                                *)
Poll ==
  /\ pc = "poll" /\ polled
  /\ keycodes' \in Reports(held)
  /\ changed' = FALSE
  /\ pc' = "scan" /\ i' = 1
  /\ UNCHANGED <<keySet, port, polled, held>>

(* Slip: the last key of the report is left out.                           *)
ScanSlip ==
  /\ pc = "scan"
  /\ LET hit == {k \in KeyPort : keycodes[i] = KeyOf[k]}
     IN  /\ keySet' = [k \in KeyPort |-> k \in hit \/ keySet[k]]
         /\ port' = [p \in Port |-> IF p \in hit THEN 1 ELSE port[p]]
  /\ IF i < Rollover - 1 THEN pc' = "scan" /\ i' = i + 1 ELSE pc' = "clear" /\ i' = 1
  /\ UNCHANGED <<keycodes, keyboardVars>>

(* Slip: one slot too many.                                                *)
ScanFarSlip ==
  /\ pc = "scan"
  /\ LET hit == {k \in KeyPort : i \in Slots /\ keycodes[i] = KeyOf[k]}
     IN  /\ keySet' = [k \in KeyPort |-> k \in hit \/ keySet[k]]
         /\ port' = [p \in Port |-> IF p \in hit THEN 1 ELSE port[p]]
  /\ IF i <= Rollover THEN pc' = "scan" /\ i' = i + 1 ELSE pc' = "clear" /\ i' = 1
  /\ UNCHANGED <<keycodes, keyboardVars>>

(* A key of the report sets its flag and its port.                         *)
Scan ==
  /\ pc = "scan"
  /\ LET hit == {k \in KeyPort : keycodes[i] = KeyOf[k]}
     IN  /\ keySet' = [k \in KeyPort |-> k \in hit \/ keySet[k]]
         /\ port' = [p \in Port |-> IF p \in hit THEN 1 ELSE port[p]]
  /\ IF i < Rollover THEN pc' = "scan" /\ i' = i + 1 ELSE pc' = "clear" /\ i' = 1
  /\ UNCHANGED <<keycodes, keyboardVars>>

ClearOrder == <<"s", "w", "up", "down">>

(* Slip: the flag is not reset for the next report.                        *)
ClearSlip ==
  /\ pc = "clear"
  /\ port' = IF keySet[ClearOrder[i]] THEN port ELSE [port EXCEPT ![ClearOrder[i]] = 0]
  /\ IF i < 4 THEN pc' = "clear" /\ i' = i + 1 ELSE pc' = "code" /\ i' = 1
  /\ UNCHANGED <<keycodes, keySet, keyboardVars>>

(* The port of a key that is not in the report is cleared, one by one, and *)
(* its flag is reset for the next report.                                  *)
Clear ==
  /\ pc = "clear"
  /\ port' = IF keySet[ClearOrder[i]] THEN port ELSE [port EXCEPT ![ClearOrder[i]] = 0]
  /\ keySet' = [keySet EXCEPT ![ClearOrder[i]] = FALSE]
  /\ IF i < 4 THEN pc' = "clear" /\ i' = i + 1 ELSE pc' = "code" /\ i' = 1
  /\ UNCHANGED <<keycodes, keyboardVars>>

SetKeycode ==
  /\ pc = "code" /\ pc' = "poll"
  /\ port' = [port EXCEPT !["keycode"] = keycodes[1]]
  /\ UNCHANGED <<i, keycodes, keySet, keyboardVars>>

Publish == Scan \/ Clear \/ SetKeycode

KeysNext == ChangeKeys \/ PlugKeyboard \/ UnplugKeyboard \/ Poll \/ Publish

KeysSpec == KeysInit /\ [][KeysNext]_keysVars

(* The loop runs on, and a keyboard that is polled reports its changes.    *)
KeysFairSpec == KeysSpec /\ WF_keysVars(Publish) /\ WF_keysVars(Poll /\ changed)

(***************************************************************************)
(* Properties                                                              *)
(***************************************************************************)

(* Every variable keeps its type; nothing is read past the report.         *)
KeysTypeOK ==
  /\ pc \in {"poll", "scan", "clear", "code"}
  /\ i \in IF pc = "scan" THEN Slots ELSE 1..4
  /\ keycodes \in [Slots -> 0..255]
  /\ keySet \in [KeyPort -> BOOLEAN]
  /\ port \in [Port -> 0..255]
  /\ polled \in BOOLEAN /\ held \in SUBSET HidCodes /\ changed \in BOOLEAN

(* What a port is to show for the report.                                  *)
Target ==
  [p \in Port |-> IF p = "keycode" THEN keycodes[1] ELSE IF Pressed(p) THEN 1 ELSE 0]

KeyIsSet(k) == keySet[k] /\ port[k] = 1

(* The flags and the ports agree with the report as far as it has been     *)
(* published.                                                              *)
Published ==
  /\ pc = "poll" => port = Target /\ \A k \in KeyPort : ~keySet[k]
  /\ pc = "scan" => \A k \in KeyPort :
       IF \E n \in 1..(i - 1) : keycodes[n] = KeyOf[k] THEN KeyIsSet(k) ELSE ~keySet[k]
  /\ pc = "clear" => \A n \in 1..4 :
       LET k == ClearOrder[n]
       IN  IF n < i THEN port[k] = Target[k] /\ ~keySet[k]
           ELSE IF Pressed(k) THEN KeyIsSet(k) ELSE ~keySet[k]
  /\ pc = "code" => \A k \in KeyPort : port[k] = Target[k] /\ ~keySet[k]

Ports == INSTANCE KeyPorts WITH Ports <- Port, Values <- 0..255, target <- Target

(* The flags left by one report never reach into the next, and a frame     *)
(* that falls between the writes sees each port as of one of two reports   *)
(* in a row: a key held through both never lets go, and none goes down     *)
(* that is in neither (main.c:156-159, 196-232).                           *)
ImplementsKeyPorts == Ports!PortsSpec

(* A key that is held reaches the game, and so does its release, unless it *)
(* changes again before, too many keys are held for a report or the        *)
(* keyboard is unplugged (main.c:175-268).                                 *)
KeysReachTheGame ==
  \A k \in KeyPort :
    /\ (polled /\ KeyOf[k] \in held /\ Fits(held))
         ~> (port[k] = 1 \/ KeyOf[k] \notin held \/ ~Fits(held) \/ ~polled)
    /\ (polled /\ KeyOf[k] \notin held)
         ~> (port[k] = 0 \/ KeyOf[k] \in held \/ ~polled)

=============================================================================
