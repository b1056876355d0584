------------------------------- MODULE Paddle -------------------------------
(***************************************************************************)
(* paddle.sv: the two paddles. A frame applies the motion latched in the   *)
(* previous frame and latches a new one from the key bits, so a paddle     *)
(* moves one frame after the limit it was checked against.                 *)
(***************************************************************************)
EXTENDS Court

VARIABLES
  paddleY,       \* Paddle1Y_Pos, Paddle2Y_Pos
  paddleMotion   \* Paddle1Y_Motion, Paddle2Y_Motion

paddleVars == <<paddleY, paddleMotion>>

(* The key bits of the PIO ports: up is w_key or up_key, down is s_key or  *)
(* down_key.                                                               *)
KeyBits == [Side -> BOOLEAN]

PaddleInit ==
  /\ paddleY = [p \in Side |-> PaddleYCenter]
  /\ paddleMotion = [p \in Side |-> 0]

(* Reset or resetB is high: the registers are cleared asynchronously.      *)
PaddleReset ==
  /\ paddleY' = [p \in Side |-> PaddleYCenter]
  /\ paddleMotion' = [p \in Side |-> 0]

(* Slip: the upper limit is checked against the centre of the paddle.      *)
MayGoUpSlip(p) == paddleY[p] >= PaddleYMin

MayGoDown(p) == W10(paddleY[p] + PaddleLength) <= PaddleYMax
MayGoUp(p) == W10(paddleY[p] - PaddleLength) >= PaddleYMin

(* The motion a frame latches; both keys together cancel.                  *)
KeyMotion(p, up, down) ==
  IF down[p] /\ ~up[p] /\ MayGoDown(p) THEN PaddleYStep
  ELSE IF up[p] /\ ~down[p] /\ MayGoUp(p) THEN W10(-PaddleYStep)
  ELSE 0

(* posedge frame_clk with Reset and resetB low.                            *)
PaddleFrame(up, down) ==
  /\ paddleMotion' = [p \in Side |-> KeyMotion(p, up, down)]
  /\ paddleY' = [p \in Side |-> W10(paddleY[p] + paddleMotion[p])]

PaddleNext ==
  \/ PaddleReset
  \/ \E up, down \in KeyBits : PaddleFrame(up, down)

PaddleSpec == PaddleInit /\ [][PaddleNext]_paddleVars

(***************************************************************************)
(* Properties                                                              *)
(***************************************************************************)

(* Every register holds a value of its width, and a motion is one step up, *)
(* one step down or none.                                                  *)
PaddleTypeOK ==
  /\ paddleY \in [Side -> Word]
  /\ paddleMotion \in [Side -> {0, PaddleYStep, W10(-PaddleYStep)}]

(* A paddle overshoots the court limit it was checked against by less than *)
(* two steps and never wraps round (paddle.sv:46-49, 60-61).               *)
PaddleInReach == \A p \in Side : paddleY[p] \in PaddleReach

(* The two outermost steps are only ever taken inward: a paddle still      *)
(* moving outward is at least one step short of its outermost position.    *)
OutwardMotionStops ==
  \A p \in Side :
    /\ paddleMotion[p] = PaddleYStep => paddleY[p] <= 432
    /\ paddleMotion[p] = W10(-PaddleYStep) => paddleY[p] >= 54

=============================================================================
