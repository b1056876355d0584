-------------------------------- MODULE Pong --------------------------------
(***************************************************************************)
(* topLevel.sv: the ball and the paddles on one frame clock (VGA_VS). The  *)
(* ball reads the paddle positions of the previous frame; its resetBall    *)
(* register drives the asynchronous resetB of the paddles; KEY[0] resets   *)
(* both at any moment.                                                     *)
(***************************************************************************)
EXTENDS Paddle

CONSTANTS
  KeyCodes,   \* the values software writes to the keycode port
  WinScore,
  Inputs      \* the inputs of a frame: records of a keycode and key bits

ASSUME InputsAssumption ==
  /\ KeyCodes \subseteq 0..255
  /\ WinScore \in 1..14
  /\ Inputs \subseteq [key : KeyCodes, up : KeyBits, down : KeyBits]

VARIABLES
  ballX, ballY, xMotion, yMotion,
  ledge, redge, tedge, bedge,
  paddle1Hit, paddle2Hit,
  scoreLeft, scoreRight,
  resetBall, newGame, endGame

(* The ball module, told no more about the paddles than their reach.       *)
TheBall == INSTANCE Ball WITH PaddleHeights <- PaddleReach \X PaddleReach

pongVars == <<paddleVars, TheBall!ballVars>>

PongInit == PaddleInit /\ TheBall!BallInit

(* Slip: resetB is sampled at the frame edge.                              *)
PaddlesSlip(in) == IF resetBall THEN PaddleReset ELSE PaddleFrame(in.up, in.down)

(* resetB holds the paddles while it is high and clears them when it rises. *)
(* It falls just after a frame edge, so the paddles also miss that edge.   *)
Paddles(in) ==
  IF resetBall \/ resetBall' THEN PaddleReset ELSE PaddleFrame(in.up, in.down)

FrameClock(in) ==
  /\ TheBall!BallFrame(in.key, <<paddleY[1], paddleY[2]>>)
  /\ Paddles(in)

(* Slip: KEY[0] stops the ball but leaves the match as it is.              *)
PressResetSlip ==
  /\ TheBall!Recentre /\ xMotion' = 0
  /\ UNCHANGED <<scoreLeft, scoreRight, resetBall, newGame, endGame>>
  /\ PaddleReset

PressReset == TheBall!BallReset /\ PaddleReset

PongNext == PressReset \/ \E in \in Inputs : FrameClock(in)

PongSpec == PongInit /\ [][PongNext]_pongVars

(***************************************************************************)
(* Properties                                                              *)
(***************************************************************************)

(* The ball of the whole machine behaves like the ball on its own against  *)
(* paddles anywhere within their reach: what holds of BallSpec holds here. *)
ImplementsBall == TheBall!BallSpec

PaddlesCentred ==
  \A p \in Side : paddleY[p] = PaddleYCenter /\ paddleMotion[p] = 0

(* Every rally starts from centred, resting paddles, however the keys were *)
(* held through the point, the title or the end screen: they are there as  *)
(* soon as the serve is due and still there when the ball starts           *)
(* (topLevel.sv:181, 185; paddle.sv:30-38).                                *)
ServesAreFair == [][resetBall => PaddlesCentred /\ PaddlesCentred']_pongVars

=============================================================================
