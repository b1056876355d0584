------------------------------- MODULE MCPong -------------------------------
(* The whole game, with inputs small enough to enumerate.                  *)
EXTENDS Pong

MCKeyCodes == {0, 26}

Held(b) == [p \in Side |-> p = 1 /\ b]

(* The left player holds W or lets go of it, from one frame to the next;   *)
(* the right player has left. A key code goes with the key bit.            *)
OneKeyInputs ==
  {[key |-> 0, up |-> Held(FALSE), down |-> Held(FALSE)],
   [key |-> 26, up |-> Held(TRUE), down |-> Held(FALSE)]}

=============================================================================
