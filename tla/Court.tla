------------------------------- MODULE Court -------------------------------
(***************************************************************************)
(* The geometry ball.sv and paddle.sv share: the parameters of the two     *)
(* modules, the constant outputs of paddle.sv (its X positions, lengths    *)
(* and widths), and the arithmetic of their registers and comparators.     *)
(***************************************************************************)
EXTENDS Integers

(* A value assigned to a 10-bit register keeps its low 10 bits; negative   *)
(* motions are therefore 1024 - n.                                         *)
Word == 0..1023
W10(n) == n % 1024

(* The comparisons of ball.sv against an `int` are 32-bit and unsigned,    *)
(* because the other operand is an unsigned net: a difference below zero   *)
(* is a huge number there, never a small one.                              *)
UnsignedLe(a, b) == IF (a < 0) = (b < 0) THEN a <= b ELSE b < 0

(* Slips in the parameters (named *Slip, here and below): values or forms  *)
(* a change of the code could plausibly have, which the runs must reject.  *)
BallXMinSlip == 53
BallXMaxSlip == 640
BallYMinSlip == 0

BallXCenter == 320
BallYCenter == 240
BallXMin == 33
BallXMax == 596
BallYMin == 20
BallYMax == 461
BallXStep == 7
BallSize == 5

(* The left paddle is 1, the right paddle is 2. *)
Side == {1, 2}

PaddleYCenter == 240
PaddleYMin == 20
PaddleYMax == 461
PaddleYStep == 6
PaddleLength == 35
PaddleWidth == 2
PaddleX(p) == IF p = 1 THEN 60 ELSE 565

(* The positions a paddle can have: multiples of its step. The limit check *)
(* of paddle.sv:46-49 precedes the move by a frame, so the outermost       *)
(* positions lie beyond the limits.                                        *)
PaddleReach == {6 * k : k \in 8..73}

MinHeight(y) == y - PaddleLength
MaxHeight(y) == y + PaddleLength
MinWidth(p) == PaddleX(p) - PaddleWidth
MaxWidth(p) == PaddleX(p) + PaddleWidth

=============================================================================
