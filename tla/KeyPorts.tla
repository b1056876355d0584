------------------------------ MODULE KeyPorts ------------------------------
(***************************************************************************)
(* What publishing the keys promises to the game, which may look at the    *)
(* ports at any moment: a port goes from the value for one report straight *)
(* to the value for the next, and every port has done so before the report *)
(* after that is published.                                                *)
(***************************************************************************)
EXTENDS Integers

CONSTANTS Ports, Values

VARIABLES
  port,     \* what the ports show
  target    \* what they are to show

portVars == <<port, target>>

PortsInit == port = [p \in Ports |-> 0] /\ target = port

NewReport ==
  /\ port = target
  /\ target' \in [Ports -> Values] /\ UNCHANGED port

Show(p) == port' = [port EXCEPT ![p] = target[p]] /\ UNCHANGED target

PortsNext == NewReport \/ \E p \in Ports : Show(p)

PortsSpec == PortsInit /\ [][PortsNext]_portVars

=============================================================================
