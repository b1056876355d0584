----------------------------- MODULE CharStream -----------------------------
(***************************************************************************)
(* What the console driver promises in each direction: characters arrive   *)
(* in the order in which they were accepted, none lost and none twice.     *)
(* Characters are numbered modulo Numbers, which tells apart as many as    *)
(* can be on their way.                                                    *)
(***************************************************************************)
EXTENDS Integers

CONSTANTS
  Numbers,    \* characters are numbered modulo this
  Capacity    \* characters that can be on their way

VARIABLES
  accepted,   \* the number of the next character to accept
  delivered   \* the number of the next character to deliver

streamVars == <<accepted, delivered>>

OnTheWay == (accepted - delivered) % Numbers

StreamInit == accepted = 0 /\ delivered = 0

Accept(n) ==
  /\ OnTheWay + n <= Capacity
  /\ accepted' = (accepted + n) % Numbers /\ UNCHANGED delivered

Deliver(n) ==
  /\ n <= OnTheWay
  /\ delivered' = (delivered + n) % Numbers /\ UNCHANGED accepted

StreamNext == \E n \in 1..Capacity : Accept(n) \/ Deliver(n)

StreamSpec == StreamInit /\ [][StreamNext]_streamVars

=============================================================================
