----------------------------- MODULE HostPhases -----------------------------
(***************************************************************************)
(* What the USB host promises: a device runs only after it was attached,   *)
(* reset, described, addressed and configured, in this order and each time *)
(* it is attached; it gets an address no earlier device holds; addresses   *)
(* are forgotten together, and never while a device is being enumerated or *)
(* is running.                                                             *)
(***************************************************************************)
EXTENDS Integers

CONSTANT Addresses   \* the addresses a device can get

VARIABLES
  phase,   \* how far the host is
  taken    \* the addresses given away

phaseVars == <<phase, taken>>

PhasesInit == phase = "detached" /\ taken = {}

(* Only the bus takes a device away or brings one.                         *)
BusChange ==
  /\ phase' \in {"detached", "illegal", "attached"}
  /\ UNCHANGED taken

Advance(from, to) == phase = from /\ phase' = to /\ UNCHANGED taken

GiveAddress ==
  /\ phase = "default" /\ phase' \in {"addressed", "failed"}
  /\ \E a \in Addresses \ taken : taken' = taken \cup {a}

OutOfAddresses == Addresses \subseteq taken /\ Advance("default", "failed")

Forget ==
  /\ phase \in {"detached", "illegal", "attached"}
  /\ taken' = {} /\ UNCHANGED phase

PhasesNext ==
  \/ BusChange \/ GiveAddress \/ OutOfAddresses \/ Forget
  \/ Advance("attached", "reset") \/ Advance("reset", "ready")
  \/ Advance("ready", "default") \/ Advance("ready", "failed")
  \/ Advance("addressed", "running") \/ Advance("addressed", "failed")

PhasesSpec == PhasesInit /\ [][PhasesNext]_phaseVars

=============================================================================
