------------------------------ MODULE Delivery ------------------------------
(***************************************************************************)
(* What polling a device promises: the program receives every report the   *)
(* device makes, once each and in order.                                   *)
(***************************************************************************)
EXTENDS Integers

CONSTANT MaxReports   \* bound on the reports of a behaviour

VARIABLES
  made,   \* the number of reports the device has made
  got     \* the last report the program has received

deliveryVars == <<made, got>>

DeliveryInit == made = 0 /\ got = 0

Make == made < MaxReports /\ made' = made + 1 /\ UNCHANGED got

Receive == got < made /\ got' = got + 1 /\ UNCHANGED made

DeliverySpec == DeliveryInit /\ [][Make \/ Receive]_deliveryVars

(* A report that was made is received some time.                           *)
DeliveryFairSpec == DeliverySpec /\ WF_deliveryVars(Receive)

=============================================================================
