----------------------------- MODULE Countdown -----------------------------
(***************************************************************************)
(* What an alarm of the system clock promises: it comes when the ticks it  *)
(* was started with have passed, neither early nor late, and then again    *)
(* after as many ticks as its callback asks for.                           *)
(***************************************************************************)
EXTENDS Integers

CONSTANT Interval   \* ticks from one alarm to the next

VARIABLES
  left,    \* ticks until the alarm; 0: it is not started
  rings    \* whether it came with the last tick

countdownVars == <<left, rings>>

CountdownInit == left = 0 /\ rings = FALSE

(* The tick that is under way is not counted.                              *)
CountdownStart == left = 0 /\ left' = Interval + 1 /\ UNCHANGED rings

CountdownTick ==
  /\ left > 0
  /\ rings' = (left = 1)
  /\ left' = IF left = 1 THEN Interval ELSE left - 1

CountdownSpec == CountdownInit /\ [][CountdownStart \/ CountdownTick]_countdownVars

=============================================================================
