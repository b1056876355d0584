-------------------------------- MODULE Ball --------------------------------
(***************************************************************************)
(* ball.sv: the ball, the score and the state of the match. One action per *)
(* branch of the always_ff block; the keycode and the heights of the two   *)
(* paddles are inputs of a frame. Several statements of the play branch    *)
(* assign the same register, and the last one wins.                        *)
(***************************************************************************)
EXTENDS Court

CONSTANTS
  KeyCodes,      \* the values keycode can carry; 0 is "no key"
  PaddleHeights, \* the pairs <<Paddle1Y, Paddle2Y>> the paddles can present
  WinScore       \* the score that ends the game, 7 in the code

ASSUME KeyCodesAssumption == KeyCodes \subseteq 0..255
ASSUME PaddleHeightsAssumption == PaddleHeights \subseteq Word \X Word
ASSUME WinScoreAssumption == WinScore \in 1..14

VARIABLES
  ballX, ballY,              \* Ball_X_Pos, Ball_Y_Pos
  xMotion, yMotion,          \* Ball_X_Motion, Ball_Y_Motion
  ledge, redge, tedge, bedge, \* the four edge counters
  paddle1Hit, paddle2Hit,
  scoreLeft, scoreRight,
  resetBall, newGame, endGame

motionVars == <<ballX, ballY, xMotion, yMotion>>
edgeVars == <<ledge, redge, tedge, bedge>>
matchVars == <<scoreLeft, scoreRight, resetBall, newGame, endGame>>
ballVars == <<motionVars, edgeVars, matchVars, paddle1Hit, paddle2Hit>>

LockCount == 0..63    \* a 6-bit edge counter
Digit == 0..15        \* a 4-bit score

AnyKey(key) == key >= 1
KeyFaster == 20     \* debugging keys of ball.sv:238-241
KeySlower == 4

(* The whole state after Reset, which is also the state at power-up.       *)
BallInit ==
  /\ ballX = BallXCenter /\ ballY = BallYCenter
  /\ xMotion = 0 /\ yMotion = 0
  /\ ledge = 0 /\ redge = 0 /\ tedge = 0 /\ bedge = 0
  /\ paddle1Hit = FALSE /\ paddle2Hit = FALSE
  /\ scoreLeft = 0 /\ scoreRight = 0
  /\ resetBall = FALSE /\ newGame = TRUE /\ endGame = FALSE

(* What every branch but play does with the ball.                          *)
Recentre ==
  /\ ballX' = BallXCenter /\ ballY' = BallYCenter
  /\ yMotion' = 0
  /\ ledge' = 0 /\ redge' = 0 /\ tedge' = 0 /\ bedge' = 0
  /\ paddle1Hit' = FALSE /\ paddle2Hit' = FALSE

(* posedge Reset *)
BallReset ==
  /\ Recentre
  /\ xMotion' = 0
  /\ scoreLeft' = 0 /\ scoreRight' = 0
  /\ resetBall' = FALSE /\ newGame' = TRUE /\ endGame' = FALSE

(* Slip: the right score survives into the next game.                      *)
EndScreenSlip(key) ==
  /\ endGame
  /\ Recentre
  /\ xMotion' = 0
  /\ endGame' = ~AnyKey(key)
  /\ resetBall' = AnyKey(key)
  /\ scoreLeft' = IF AnyKey(key) THEN 0 ELSE scoreLeft
  /\ UNCHANGED <<scoreRight, newGame>>

(* The end screen: any key starts the next game.                           *)
EndScreen(key) ==
  /\ endGame
  /\ Recentre
  /\ xMotion' = 0
  /\ endGame' = ~AnyKey(key)
  /\ resetBall' = AnyKey(key)
  /\ scoreLeft' = IF AnyKey(key) THEN 0 ELSE scoreLeft
  /\ scoreRight' = IF AnyKey(key) THEN 0 ELSE scoreRight
  /\ UNCHANGED newGame

(* The serve: the ball starts from the centre, always to the right.        *)
Serve ==
  /\ ~endGame /\ resetBall
  /\ Recentre
  /\ xMotion' = BallXStep
  /\ resetBall' = FALSE
  /\ UNCHANGED <<scoreLeft, scoreRight, newGame, endGame>>

(***************************************************************************)
(* The play branch                                                         *)
(***************************************************************************)
(* Slip: the top edge has no lock.                                         *)
AtTopSlip == W10(ballY - BallSize) <= BallYMin

AtBottom == W10(ballY + BallSize) >= BallYMax /\ bedge = 0
AtTop == W10(ballY - BallSize) <= BallYMin /\ tedge = 0
AtRight == W10(ballX + BallSize) >= BallXMax /\ redge = 0
AtLeft == W10(ballX - BallSize) <= BallXMin /\ ledge = 0

(* One else-if chain: at most one edge acts in a frame.                    *)
BounceBottom == AtBottom
BounceTop == ~AtBottom /\ AtTop
MissRight == ~AtBottom /\ ~AtTop /\ AtRight
MissLeft == ~AtBottom /\ ~AtTop /\ ~AtRight /\ AtLeft

(* Both tests on the right paddle use paddle2minWidth.                     *)
Overlaps(y) ==
  /\ UnsignedLe(ballY - BallSize, MaxHeight(y))
  /\ UnsignedLe(MinHeight(y), ballY + BallSize)

(* Slip: the left paddle reaches as far back as its length.                *)
Hit1Slip(y) ==
  /\ UnsignedLe(ballX - BallSize, MaxWidth(1))
  /\ UnsignedLe(PaddleX(1) - PaddleLength, ballX + BallSize)
  /\ Overlaps(y)

Hit1(y) ==
  /\ UnsignedLe(ballX - BallSize, MaxWidth(1))
  /\ UnsignedLe(MinWidth(1), ballX + BallSize)
  /\ Overlaps(y)
Hit2(y) ==
  /\ UnsignedLe(ballX + BallSize, MinWidth(2))
  /\ UnsignedLe(MinWidth(2), ballX + BallSize)
  /\ Overlaps(y)

(* bally1motion and bally2motion: the 32-bit logical shift leaves the      *)
(* floor of an eighth in the low ten bits. The int is never negative, so   *)
(* the `< 0` branches of ball.sv:199 and 223 are dead.                     *)
Spin(y) == W10((ballY - y) \div 8)

(* Slip: a hit leaves the locks running.                                   *)
EdgeCountSlip(count, fired, hit) ==
  IF count > 0 THEN (count + 1) % 64
  ELSE IF fired THEN 1 ELSE 0

(* The lock of an edge: 0 is armed; from 1 it counts 63 frames.            *)
EdgeCount(count, fired, hit) ==
  IF hit THEN 0
  ELSE IF count > 0 THEN (count + 1) % 64
  ELSE IF fired THEN 1 ELSE 0

(* Slip: the left paddle turns the ball round instead of sending it right. *)
XMotionAfterSlip(key, h) ==
  IF Hit2(h[2]) THEN W10(-BallXStep)
  ELSE IF Hit1(h[1]) \/ MissRight \/ MissLeft THEN W10(-xMotion)
  ELSE xMotion

XMotionAfter(key, h) ==
  CASE key = KeySlower -> W10(xMotion - 1)
    [] key = KeyFaster -> W10(xMotion + 1)
    [] OTHER -> IF Hit2(h[2]) THEN W10(-BallXStep)
                ELSE IF Hit1(h[1]) THEN BallXStep
                ELSE IF MissRight \/ MissLeft THEN W10(-xMotion)
                ELSE xMotion

YMotionAfter(h) ==
  IF Hit2(h[2]) THEN Spin(h[2])
  ELSE IF Hit1(h[1]) THEN Spin(h[1])
  ELSE IF BounceBottom \/ BounceTop THEN W10(-yMotion)
  ELSE yMotion

Play(key, h) ==
  LET hit == Hit1(h[1]) \/ Hit2(h[2])
      start == AnyKey(key) /\ newGame
  IN /\ ~endGame /\ ~resetBall
     /\ ballX' = W10(ballX + xMotion)
     /\ ballY' = W10(ballY + yMotion)
     /\ xMotion' = XMotionAfter(key, h)
     /\ yMotion' = YMotionAfter(h)
     /\ bedge' = EdgeCount(bedge, BounceBottom, hit)
     /\ tedge' = EdgeCount(tedge, BounceTop, hit)
     /\ redge' = EdgeCount(redge, MissRight, hit)
     /\ ledge' = EdgeCount(ledge, MissLeft, hit)
     /\ paddle1Hit' = Hit1(h[1])
     /\ paddle2Hit' = Hit2(h[2])
     /\ scoreLeft' = IF MissRight THEN (scoreLeft + 1) % 16 ELSE scoreLeft
     /\ scoreRight' = IF MissLeft THEN (scoreRight + 1) % 16 ELSE scoreRight
     /\ resetBall' = (MissRight \/ MissLeft \/ start)
     /\ newGame' = (newGame /\ ~start)
     /\ endGame' = (scoreLeft = WinScore \/ scoreRight = WinScore)

BallFrame(key, h) == EndScreen(key) \/ Serve \/ Play(key, h)

Frame == \E key \in KeyCodes, h \in PaddleHeights : BallFrame(key, h)

BallNext == BallReset \/ Frame

BallSpec == BallInit /\ [][BallNext]_ballVars

(* VGA_VS is a free-running clock: frames keep coming unless Reset is held *)
(* down for ever.                                                          *)
BallFairSpec == BallSpec /\ WF_ballVars(Frame)

(***************************************************************************)
(* Properties                                                              *)
(***************************************************************************)

(* Every register holds a value of its width.                              *)
BallTypeOK ==
  /\ ballX \in Word /\ ballY \in Word
  /\ xMotion \in Word /\ yMotion \in Word
  /\ ledge \in LockCount /\ redge \in LockCount
  /\ tedge \in LockCount /\ bedge \in LockCount
  /\ paddle1Hit \in BOOLEAN /\ paddle2Hit \in BOOLEAN
  /\ scoreLeft \in Digit /\ scoreRight \in Digit
  /\ resetBall \in BOOLEAN /\ newGame \in BOOLEAN /\ endGame \in BOOLEAN

InRally == ~newGame /\ ~endGame /\ ~resetBall

(* Neither debugging key can be pressed.                                   *)
NoDebugKeys == KeyFaster \notin KeyCodes /\ KeySlower \notin KeyCodes

MovesRight == xMotion = BallXStep
MovesLeft == xMotion = W10(-BallXStep)

GameWon == scoreLeft = WinScore \/ scoreRight = WinScore

(* Behind the rules of the match: the title screen is the cleared state,   *)
(* no score passes WinScore, and in the one frame between the serve after  *)
(* the winning point and the end screen the ball is still at the centre,   *)
(* where it can score no other point (ball.sv:101-115, 231-247).           *)
RulesInv ==
  /\ newGame => /\ ~resetBall /\ ~endGame
                /\ scoreLeft = 0 /\ scoreRight = 0
                /\ ballX = BallXCenter /\ xMotion = 0
  /\ ~(resetBall /\ endGame)
  /\ scoreLeft <= WinScore /\ scoreRight <= WinScore
  /\ GameWon => resetBall \/ endGame \/ ballX = BallXCenter

(* The columns a ball can be in: all a multiple of the step away from the  *)
(* centre, none outside the screen.                                        *)
Track == {5 + 7 * k : k \in 1..87}

(* Behind the columns: in a rally no edge that scores is locked, the ball  *)
(* runs at most 7 pixels behind the face that returned it, and it passes a *)
(* scoring column only while a bounce, of each edge at most once, takes    *)
(* precedence over the miss (ball.sv:120-146, 187-190, 211-214).           *)
TrackInv ==
  InRally =>
    /\ ledge = 0 /\ redge = 0
    /\ ballX \in Track
    /\ \/ MovesRight /\ ballX \in 47..607
       \/ MovesLeft /\ ballX \in 19..565
    /\ ballX \in {26, 600} => bedge = 1 \/ tedge = 1
    /\ ballX \in {19, 607} => bedge \in 1..2 /\ tedge \in 1..2

(* The face of the right paddle is a single column, x = 558, and a step is *)
(* 7 wide: the ball meets the paddle only because its columns hit 558      *)
(* exactly (ball.sv:211-214). It also leaves the screen on neither side,   *)
(* though a bounce at the top or the bottom takes precedence over a miss   *)
(* and so lets the ball run on for a frame (ball.sv:120-146).              *)
OnTrack == InRally => ballX \in Track /\ (MovesRight \/ MovesLeft)

(* No frame carries the ball from one side of the face of the right paddle *)
(* to the other without being tested against it (ball.sv:211-214, 237).    *)
NeverTunnels ==
  [][InRally => ~(ballX < 558 /\ ballX' > 558)]_ballVars

(* Ball_Y_Pos and Ball_X_Pos are unsigned and nothing clips them: a frame  *)
(* of a rally never carries the ball off one side of the screen and on at  *)
(* the other, not even when a paddle hit overrides a bounce in the corner  *)
(* (ball.sv:192-198, 236-237).                                             *)
NeverWrapsRound ==
  [][InRally /\ InRally' => /\ ballX' - ballX \in -7..7
                           /\ ballY' - ballY \in -5..5]_ballVars

(* While the lock of an edge runs, the ball moves away from that edge. A   *)
(* second bounce inside the bounce zone would turn it back out while the   *)
(* lock keeps the edge from acting for 63 frames (ball.sv:120-130, 149-165).*)
BouncesTurnInward ==
  /\ tedge > 0 => yMotion \in 0..5
  /\ bedge > 0 => yMotion = 0 \/ yMotion \in 1019..1023

(* Wherever a rally brings the ball to a face, some position of the paddle *)
(* returns it: the overshoot past the edges, the bounce zone and the reach *)
(* of the paddles fit together (ball.sv:120-130, 187-190, 211-214).        *)
AlwaysReturnable ==
  /\ InRally /\ ballX = 558 /\ MovesRight => \E y \in PaddleReach : Hit2(y)
  /\ InRally /\ ballX = 61 /\ MovesLeft => \E y \in PaddleReach : Hit1(y)

(* Behind the rows: how many hits, in frames that followed one another, a  *)
(* ball in a column, on its way in a direction, may just have had ...      *)
Hits ==
  CASE MovesRight /\ ballX \in {47, 54} -> 1
    [] MovesRight /\ ballX = 61 -> 2
    [] MovesRight /\ ballX = 68 -> 3
    [] MovesLeft /\ ballX = 565 -> 1
    [] MovesLeft /\ ballX = 551 -> 2
    [] OTHER -> 0

(* ... and how many before the bounce that started a lock, which is what   *)
(* the lock counts. After it has counted as many frames as the ball is     *)
(* away from the paddle it does not matter any more.                       *)
HitsBeforeBounce(lock) ==
  CASE MovesRight /\ ballX \in {54, 61} -> 1
    [] MovesRight /\ ballX = 68 -> 2
    [] MovesLeft /\ ballX = 558 -> 1
    [] MovesRight /\ ballX \in 75..68 + 7 * lock -> 3
    [] MovesLeft /\ ballX \in 551 - 7 * lock..551 -> 3
    [] OTHER -> 0

(* A ball in row d, counted from one edge of the screen, with the lock of  *)
(* that edge and speed s away from it. In the bounce zone, d <= 25, an     *)
(* armed ball moves outward, or not at all; the lock runs for a ball that  *)
(* moves inward, or not at all, and is over only when it has left the      *)
(* zone. Each hit takes the ball up to 5 rows further beyond the edge of   *)
(* the court than it comes on its own.                                     *)
EdgeInv(d, lock, s, hits, before) ==
  /\ lock = 0 =>
       /\ d >= 21 - 5 * hits
       /\ d <= 25 => s <= 0
       /\ d <= 20 => s < 0
  /\ lock > 0 =>
       /\ s >= 0
       /\ s = 0 => d \in 21..25
       /\ s > 0 => d >= lock /\ d <= 25 + 5 * lock
       /\ d >= 16 - 5 * before

(* The vertical motion as a signed number, and the row counted from below. *)
YSpeed == IF yMotion < 512 THEN yMotion ELSE yMotion - 1024
FromBottom == BallYMin + BallYMax - ballY

RowInv ==
  /\ YSpeed \in -5..5
  /\ EdgeInv(ballY, tedge, YSpeed, Hits, HitsBeforeBounce(tedge))
  /\ EdgeInv(FromBottom, bedge, 0 - YSpeed, Hits, HitsBeforeBounce(bedge))
  /\ newGame => ballY = BallYCenter /\ yMotion = 0 /\ tedge = 0 /\ bedge = 0

(* A point is lost only by a ball on its way out, behind the paddle it     *)
(* passed, so a returned ball never counts against who returned it         *)
(* (ball.sv:132-146).                                                      *)
PointsAreLostOutward ==
  [][/\ scoreLeft' = scoreLeft + 1 => MovesRight /\ ballX > PaddleX(2)
     /\ scoreRight' = scoreRight + 1 => MovesLeft /\ ballX < PaddleX(1)]_ballVars

(* Phase and score follow the rules of the match: one point for one side   *)
(* per rally, a serve before each rally, no point after the winning one    *)
(* and the end screen only for a winner (ball.sv:79-115, 132-146, 231-247).*)
Phase ==
  IF newGame THEN "title"
  ELSE IF endGame THEN "over"
  ELSE IF resetBall THEN "serve"
  ELSE "rally"

Rules == INSTANCE MatchRules
           WITH phase <- Phase, left <- scoreLeft, right <- scoreRight

FollowsTheRules == Rules!RulesSpec

(* The serve is always taken and a won game always ends.                   *)
FollowsTheRulesFairly == Rules!RulesFairSpec

(* A ball the left paddle has hit reaches the right paddle, and a ball the *)
(* right paddle has hit comes back: the repeated hits of a paddle the ball *)
(* is inside never trap it (ball.sv:185-229).                              *)
HitsSendTheBallAcross ==
  /\ (InRally /\ paddle1Hit) ~> (~InRally \/ ballX >= 558)
  /\ (InRally /\ paddle2Hit) ~> (~InRally \/ ballX <= 61)

=============================================================================
