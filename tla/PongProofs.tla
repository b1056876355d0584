----------------------------- MODULE PongProofs -----------------------------
(***************************************************************************)
(* The paddles keep their registers and their reach. topLevel.sv is made   *)
(* of its parts: the whole machine implements the ball against paddles     *)
(* within their reach and the paddles on their own, and the wiring of      *)
(* resetB centres the paddles for every serve.                             *)
(***************************************************************************)
EXTENDS Pong, TLAPS

(***************************************************************************)
(* The paddles                                                             *)
(***************************************************************************)

(* A value that fits a register is stored unchanged; one just past the end *)
(* or just below zero wraps once.                                          *)
LEMMA W10Wraps ==
  ASSUME NEW n \in -1024..2047
  PROVE  W10(n) = IF n < 0 THEN n + 1024 ELSE IF n <= 1023 THEN n ELSE n - 1024
  BY SMTT(30) DEF W10, Word

(* The strengthening: a paddle still moving outward is a whole step short  *)
(* of the outermost position it could reach.                               *)
PaddleInv == PaddleTypeOK /\ PaddleInReach /\ OutwardMotionStops

LEMMA PaddleInvInit == PaddleInit => PaddleInv
  <1> SUFFICES ASSUME PaddleInit PROVE PaddleInv
    OBVIOUS
  <1>1. W10(-PaddleYStep) = 1018 /\ PaddleYCenter = 6 * 40
    BY W10Wraps DEF PaddleYStep, PaddleYCenter
  <1> QED
    BY <1>1 DEF PaddleInit, PaddleInv, PaddleTypeOK, PaddleInReach,
       OutwardMotionStops, PaddleReach, Word, PaddleYCenter, PaddleYStep

(* One paddle moves, for any position, latched motion and keys.            *)
LEMMA PaddleMoves ==
  ASSUME PaddleInv, NEW p \in Side, NEW up \in KeyBits, NEW down \in KeyBits
  PROVE  LET y == W10(paddleY[p] + paddleMotion[p])
             m == KeyMotion(p, up, down)
         IN /\ y \in PaddleReach
            /\ m \in {0, PaddleYStep, W10(-PaddleYStep)}
            /\ m = PaddleYStep => y <= 432
            /\ m = W10(-PaddleYStep) => y >= 54
  <1>1. W10(-PaddleYStep) = 1018
    BY W10Wraps DEF PaddleYStep
  <1>2. PICK k \in 8..73 : paddleY[p] = 6 * k
    BY DEF PaddleInv, PaddleInReach, PaddleReach
  <1>3. paddleMotion[p] \in {0, 6, 1018}
    BY <1>1 DEF PaddleInv, PaddleTypeOK, PaddleYStep
  <1>4. MayGoDown(p) <=> 6 * k + 35 <= 461
    BY <1>2, W10Wraps DEF MayGoDown, PaddleLength, PaddleYMax
  <1>5. MayGoUp(p) <=> 6 * k - 35 >= 20
    BY <1>2, W10Wraps DEF MayGoUp, PaddleLength, PaddleYMin
  <1>6. /\ paddleMotion[p] = 6 => k <= 72
        /\ paddleMotion[p] = 1018 => k >= 9
    BY <1>1, <1>2 DEF PaddleInv, OutwardMotionStops, PaddleYStep
  <1>7. \E j \in 8..73 :
          /\ W10(paddleY[p] + paddleMotion[p]) = 6 * j
          /\ j \in {k, k + 1, k - 1}
          /\ j = k + 1 => paddleMotion[p] = 6
          /\ j = k - 1 => paddleMotion[p] = 1018
    <2>1. CASE paddleMotion[p] = 0
      <3>1. W10(paddleY[p] + paddleMotion[p]) = 6 * k
        BY <1>2, <2>1, W10Wraps
      <3> QED BY <3>1, <2>1
    <2>2. CASE paddleMotion[p] = 6
      <3>1. W10(paddleY[p] + paddleMotion[p]) = 6 * (k + 1)
        BY <1>2, <2>2, W10Wraps
      <3> QED BY <3>1, <2>2, <1>6
    <2>3. CASE paddleMotion[p] = 1018
      <3>1. W10(paddleY[p] + paddleMotion[p]) = 6 * (k - 1)
        BY <1>2, <1>6, <2>3, W10Wraps
      <3> QED BY <3>1, <2>3, <1>6
    <2> QED BY <1>3, <2>1, <2>2, <2>3
  <1>8. PICK j \in 8..73 :
          /\ W10(paddleY[p] + paddleMotion[p]) = 6 * j
          /\ j \in {k, k + 1, k - 1}
    BY <1>7
  <1>9. W10(paddleY[p] + paddleMotion[p]) \in PaddleReach
    BY <1>8 DEF PaddleReach
  <1>10. KeyMotion(p, up, down) = PaddleYStep => 6 * j <= 432
    BY <1>1, <1>4, <1>8 DEF KeyMotion, PaddleYStep
  <1>11. KeyMotion(p, up, down) = W10(-PaddleYStep) => 6 * j >= 54
    BY <1>1, <1>5, <1>8 DEF KeyMotion, PaddleYStep
  <1>12. KeyMotion(p, up, down) \in {0, PaddleYStep, W10(-PaddleYStep)}
    BY DEF KeyMotion
  <1> QED BY <1>8, <1>9, <1>10, <1>11, <1>12

LEMMA PaddleInvStep == PaddleInv /\ [PaddleNext]_paddleVars => PaddleInv'
  <1> SUFFICES ASSUME PaddleInv, [PaddleNext]_paddleVars
               PROVE  PaddleInv'
    OBVIOUS
  <1>1. CASE PaddleReset
    <2>1. PaddleInit'
      BY <1>1 DEF PaddleReset, PaddleInit
    <2>2. W10(-PaddleYStep) = 1018 /\ PaddleYCenter = 6 * 40
      BY W10Wraps DEF PaddleYStep, PaddleYCenter
    <2> QED
      BY <2>1, <2>2 DEF PaddleInit, PaddleInv, PaddleTypeOK, PaddleInReach,
         OutwardMotionStops, PaddleReach, Word, PaddleYCenter, PaddleYStep
  <1>2. ASSUME NEW up \in KeyBits, NEW down \in KeyBits, PaddleFrame(up, down)
        PROVE  PaddleInv'
    <2>1. /\ paddleY' = [p \in Side |-> W10(paddleY[p] + paddleMotion[p])]
          /\ paddleMotion' = [p \in Side |-> KeyMotion(p, up, down)]
      BY <1>2 DEF PaddleFrame
    <2>2. ASSUME NEW p \in Side
          PROVE  /\ paddleY'[p] \in PaddleReach
                 /\ paddleMotion'[p] \in {0, PaddleYStep, W10(-PaddleYStep)}
                 /\ paddleMotion'[p] = PaddleYStep => paddleY'[p] <= 432
                 /\ paddleMotion'[p] = W10(-PaddleYStep) => paddleY'[p] >= 54
      BY <2>1, PaddleMoves
    <2>3. PaddleReach \subseteq Word
      BY DEF PaddleReach, Word
    <2>4. PaddleInReach' /\ OutwardMotionStops'
      BY <2>2 DEF PaddleInReach, OutwardMotionStops
    <2>5. PaddleTypeOK'
      BY <2>1, <2>2, <2>3 DEF PaddleTypeOK
    <2> QED BY <2>4, <2>5 DEF PaddleInv
  <1>3. CASE UNCHANGED paddleVars
    BY <1>3 DEF paddleVars, PaddleInv, PaddleTypeOK, PaddleInReach, OutwardMotionStops
  <1> QED BY <1>1, <1>2, <1>3 DEF PaddleNext

(* The registers keep their widths (paddle.sv:30-63).                      *)
THEOREM PaddleTypeCorrect == PaddleSpec => []PaddleTypeOK
  <1>1. PaddleInv => PaddleTypeOK
    BY DEF PaddleInv
  <1> QED BY PaddleInvInit, PaddleInvStep, <1>1, PTL DEF PaddleSpec

(* No sequence of keys and resets takes a paddle beyond its reach, which   *)
(* is what the two-step overshoot of paddle.sv:46-49, 60-61 amounts to.    *)
THEOREM PaddleStaysInReach == PaddleSpec => []PaddleInReach
  <1>1. PaddleInv => PaddleInReach
    BY DEF PaddleInv
  <1> QED BY PaddleInvInit, PaddleInvStep, <1>1, PTL DEF PaddleSpec

(* A paddle still moving outward has not reached its outermost position,   *)
(* whatever the keys do between the limit check and the move               *)
(* (paddle.sv:46-49, 60-61).                                               *)
THEOREM PaddleStopsOutward == PaddleSpec => []OutwardMotionStops
  <1>1. PaddleInv => OutwardMotionStops
    BY DEF PaddleInv
  <1> QED BY PaddleInvInit, PaddleInvStep, <1>1, PTL DEF PaddleSpec

(***************************************************************************)
(* The machine                                                             *)
(***************************************************************************)

LEMMA InputsType ==
  ASSUME NEW in \in Inputs
  PROVE  in.key \in KeyCodes /\ in.up \in KeyBits /\ in.down \in KeyBits
  BY InputsAssumption

LEMMA PaddlesStep == [PongNext]_pongVars => [PaddleNext]_paddleVars
  <1> SUFFICES ASSUME [PongNext]_pongVars PROVE [PaddleNext]_paddleVars
    OBVIOUS
  <1>1. CASE PressReset
    BY <1>1 DEF PressReset, PaddleNext
  <1>2. ASSUME NEW in \in Inputs, FrameClock(in) PROVE PaddleNext
    <2>1. PaddleReset \/ PaddleFrame(in.up, in.down)
      BY <1>2 DEF FrameClock, Paddles
    <2> QED BY <2>1, InputsType DEF PaddleNext
  <1>3. CASE UNCHANGED pongVars
    BY <1>3 DEF pongVars
  <1> QED BY <1>1, <1>2, <1>3 DEF PongNext

LEMMA BallStep == PaddleInReach /\ [PongNext]_pongVars => [TheBall!BallNext]_TheBall!ballVars
  <1> SUFFICES ASSUME PaddleInReach, [PongNext]_pongVars
               PROVE  [TheBall!BallNext]_TheBall!ballVars
    OBVIOUS
  <1>1. CASE PressReset
    BY <1>1 DEF PressReset, TheBall!BallNext
  <1>2. ASSUME NEW in \in Inputs, FrameClock(in) PROVE TheBall!BallNext
    <2>1. <<paddleY[1], paddleY[2]>> \in PaddleReach \X PaddleReach
      BY DEF PaddleInReach, Side
    <2>2. TheBall!BallFrame(in.key, <<paddleY[1], paddleY[2]>>)
      BY <1>2 DEF FrameClock
    <2> QED BY <2>1, <2>2, InputsType, Zenon DEF TheBall!BallNext, TheBall!Frame
  <1>3. CASE UNCHANGED pongVars
    BY <1>3 DEF pongVars
  <1> QED BY <1>1, <1>2, <1>3 DEF PongNext

(* What is shown of the paddles on their own holds of the machine: each of *)
(* its steps resets the paddles, moves them or leaves them as they are.    *)
LEMMA PongMovesPaddles == PongSpec => PaddleSpec
  <1>1. PongInit => PaddleInit
    BY DEF PongInit
  <1> QED BY <1>1, PaddlesStep, PTL DEF PongSpec, PaddleSpec

(* The ball of the machine behaves like the ball on its own against        *)
(* paddles somewhere in their reach, so that what is shown of BallSpec     *)
(* holds of the machine (topLevel.sv:176-187).                             *)
THEOREM PongImplementsBall == PongSpec => ImplementsBall
  <1>1. PongInit => TheBall!BallInit
    BY DEF PongInit
  <1>2. PongSpec => []PaddleInReach
    BY PongMovesPaddles, PaddleStaysInReach, PTL
  <1> QED BY <1>1, <1>2, BallStep, PTL DEF PongSpec, ImplementsBall, TheBall!BallSpec

(* While a serve is due the paddles are already centred.                   *)
DueServeInv == resetBall => PaddlesCentred

LEMMA ResetCentres == PaddleReset => PaddlesCentred'
  BY DEF PaddleReset, PaddlesCentred

LEMMA ServeStep ==
  ASSUME DueServeInv, [PongNext]_pongVars
  PROVE  /\ DueServeInv'
         /\ [resetBall => PaddlesCentred /\ PaddlesCentred']_pongVars
  <1>1. CASE PressReset
    BY <1>1, ResetCentres DEF PressReset, DueServeInv
  <1>2. ASSUME NEW in \in Inputs, FrameClock(in)
        PROVE  /\ DueServeInv'
               /\ resetBall => PaddlesCentred /\ PaddlesCentred'
    <2>1. resetBall \/ resetBall' => PaddlesCentred'
      BY <1>2, ResetCentres DEF FrameClock, Paddles
    <2> QED BY <2>1 DEF DueServeInv
  <1>3. CASE UNCHANGED pongVars
    BY <1>3 DEF pongVars, paddleVars, TheBall!ballVars, TheBall!matchVars,
                DueServeInv, PaddlesCentred
  <1> QED BY <1>1, <1>2, <1>3 DEF PongNext

(* Whatever the players hold down through the end of a rally, the next one *)
(* starts with both paddles centred and at rest (topLevel.sv:181, 185;     *)
(* paddle.sv:30-38).                                                       *)
THEOREM PongServesAreFair == PongSpec => ServesAreFair
  <1>1. PongInit => DueServeInv
    BY DEF PongInit, PaddleInit, TheBall!BallInit, DueServeInv, PaddlesCentred
  <1>2. DueServeInv /\ [PongNext]_pongVars
          => DueServeInv' /\ [resetBall => PaddlesCentred /\ PaddlesCentred']_pongVars
    BY ServeStep
  <1> QED BY <1>1, <1>2, PTL DEF PongSpec, ServesAreFair

(***************************************************************************)
(* What the players see                                                    *)
(***************************************************************************)

(* The proofs about the ball and its picture, for paddles in their reach.  *)
Shown == INSTANCE BallProofs WITH PaddleHeights <- PaddleReach \X PaddleReach

(* The two instances of Ball are one: definition by definition the same.   *)
LEMMA SameBall == TheBall!BallSpec <=> Shown!BallSpec
  <1>1. TheBall!BallInit <=> Shown!BallInit
    BY Zenon
       DEF TheBall!BallInit, Shown!BallInit, TheBall!BallXCenter, Shown!BallXCenter,
           TheBall!BallYCenter, Shown!BallYCenter
  <1>2. TheBall!BallNext <=> Shown!BallNext
    <2>1. /\ TheBall!BallXCenter = Shown!BallXCenter
          /\ TheBall!BallYCenter = Shown!BallYCenter
          /\ TheBall!BallXStep = Shown!BallXStep
          /\ TheBall!KeySlower = Shown!KeySlower
          /\ TheBall!KeyFaster = Shown!KeyFaster
      BY Zenon
         DEF TheBall!BallXCenter, Shown!BallXCenter, TheBall!BallYCenter, Shown!BallYCenter,
             TheBall!BallXStep, Shown!BallXStep, TheBall!KeySlower, Shown!KeySlower,
             TheBall!KeyFaster, Shown!KeyFaster
    <2>2. /\ \A n : TheBall!W10(n) = Shown!W10(n)
          /\ \A y : TheBall!Spin(y) = Shown!Spin(y)
          /\ \A key : TheBall!AnyKey(key) <=> Shown!AnyKey(key)
      BY Zenon
         DEF TheBall!W10, Shown!W10, TheBall!Spin, Shown!Spin, TheBall!AnyKey, Shown!AnyKey
    <2>3. /\ (TheBall!AtBottom <=> Shown!AtBottom)
          /\ (TheBall!AtTop <=> Shown!AtTop)
          /\ (TheBall!AtRight <=> Shown!AtRight)
          /\ (TheBall!AtLeft <=> Shown!AtLeft)
      BY Zenon
         DEF TheBall!AtBottom, Shown!AtBottom, TheBall!AtTop, Shown!AtTop, TheBall!AtRight,
             Shown!AtRight, TheBall!AtLeft, Shown!AtLeft, TheBall!W10, Shown!W10,
             TheBall!BallSize, Shown!BallSize, TheBall!BallXMin, Shown!BallXMin,
             TheBall!BallXMax, Shown!BallXMax, TheBall!BallYMin, Shown!BallYMin,
             TheBall!BallYMax, Shown!BallYMax
    <2>4. /\ (TheBall!BounceBottom <=> Shown!BounceBottom)
          /\ (TheBall!BounceTop <=> Shown!BounceTop)
          /\ (TheBall!MissRight <=> Shown!MissRight)
          /\ (TheBall!MissLeft <=> Shown!MissLeft)
      BY <2>3, Zenon
         DEF TheBall!BounceBottom, Shown!BounceBottom, TheBall!BounceTop, Shown!BounceTop,
             TheBall!MissRight, Shown!MissRight, TheBall!MissLeft, Shown!MissLeft
    <2>5. \A y : TheBall!Overlaps(y) <=> Shown!Overlaps(y)
      BY Zenon
         DEF TheBall!Overlaps, Shown!Overlaps, TheBall!UnsignedLe, Shown!UnsignedLe,
             TheBall!MaxHeight, Shown!MaxHeight, TheBall!MinHeight, Shown!MinHeight,
             TheBall!PaddleLength, Shown!PaddleLength, TheBall!BallSize, Shown!BallSize
    <2>6. /\ \A y : TheBall!Hit1(y) <=> Shown!Hit1(y)
          /\ \A y : TheBall!Hit2(y) <=> Shown!Hit2(y)
      BY <2>5, Zenon
         DEF TheBall!Hit1, Shown!Hit1, TheBall!Hit2, Shown!Hit2, TheBall!UnsignedLe,
             Shown!UnsignedLe, TheBall!MinWidth, Shown!MinWidth, TheBall!MaxWidth,
             Shown!MaxWidth, TheBall!PaddleX, Shown!PaddleX, TheBall!PaddleWidth,
             Shown!PaddleWidth, TheBall!BallSize, Shown!BallSize
    <2>7. /\ \A key, h : TheBall!XMotionAfter(key, h) = Shown!XMotionAfter(key, h)
          /\ \A h : TheBall!YMotionAfter(h) = Shown!YMotionAfter(h)
      BY <2>1, <2>2, <2>4, <2>6
         DEF TheBall!XMotionAfter, Shown!XMotionAfter, TheBall!YMotionAfter,
             Shown!YMotionAfter
    <2>8. ASSUME NEW key, NEW h PROVE TheBall!Play(key, h) <=> Shown!Play(key, h)
      <3>1. /\ TheBall!W10(ballX + xMotion) = Shown!W10(ballX + xMotion)
            /\ TheBall!W10(ballY + yMotion) = Shown!W10(ballY + yMotion)
            /\ TheBall!XMotionAfter(key, h) = Shown!XMotionAfter(key, h)
            /\ TheBall!YMotionAfter(h) = Shown!YMotionAfter(h)
        BY <2>2, <2>7, Zenon
      <3>2. \A y : /\ TheBall!Hit1(y) = Shown!Hit1(y)
                   /\ TheBall!Hit2(y) = Shown!Hit2(y)
        BY <2>5 DEF TheBall!Hit1, Shown!Hit1, TheBall!Hit2, Shown!Hit2, TheBall!UnsignedLe,
                    Shown!UnsignedLe, TheBall!MinWidth, Shown!MinWidth, TheBall!MaxWidth,
                    Shown!MaxWidth, TheBall!PaddleX, Shown!PaddleX, TheBall!PaddleWidth,
                    Shown!PaddleWidth, TheBall!BallSize, Shown!BallSize
      <3> QED
        BY <2>2, <2>4, <2>6, <3>1, <3>2
           DEF TheBall!Play, Shown!Play, TheBall!EdgeCount, Shown!EdgeCount,
               TheBall!AnyKey, Shown!AnyKey, TheBall!MissRight, Shown!MissRight,
               TheBall!MissLeft, Shown!MissLeft
    <2>9. TheBall!Recentre <=> Shown!Recentre
      BY <2>1, Zenon
         DEF TheBall!Recentre, Shown!Recentre
    <2>10. \A key : TheBall!EndScreen(key) <=> Shown!EndScreen(key)
      BY <2>9, Zenon
         DEF TheBall!EndScreen, Shown!EndScreen, TheBall!AnyKey, Shown!AnyKey
    <2>11. /\ (TheBall!Serve <=> Shown!Serve)
           /\ (TheBall!BallReset <=> Shown!BallReset)
      BY <2>1, <2>9, Zenon
         DEF TheBall!Serve, Shown!Serve, TheBall!BallReset, Shown!BallReset
    <2> QED
      BY <2>8, <2>10, <2>11, Zenon
         DEF TheBall!BallNext, Shown!BallNext, TheBall!Frame, Shown!Frame,
             TheBall!BallFrame, Shown!BallFrame
  <1>3. TheBall!ballVars = Shown!ballVars
    BY Zenon
       DEF TheBall!ballVars, Shown!ballVars, TheBall!motionVars, Shown!motionVars,
           TheBall!edgeVars, Shown!edgeVars, TheBall!matchVars, Shown!matchVars
  <1>4. [TheBall!BallNext]_(TheBall!ballVars) <=> [Shown!BallNext]_(Shown!ballVars)
    <2>1. (TheBall!ballVars)' = (Shown!ballVars)'
      BY Zenon
         DEF TheBall!ballVars, Shown!ballVars, TheBall!motionVars, Shown!motionVars,
             TheBall!edgeVars, Shown!edgeVars, TheBall!matchVars, Shown!matchVars
    <2> QED BY <1>2, <1>3, <2>1, Zenon
  <1> QED BY <1>1, <1>4, PTL DEF TheBall!BallSpec, Shown!BallSpec

(* Without the debugging keys, the machine as topLevel.sv wires it keeps   *)
(* what is proved of the ball on its own, with no assumption about the     *)
(* paddles left, for their reach is proved as well: the ball stays on its  *)
(* columns, turns inward at an edge, can be returned wherever it comes to  *)
(* a face, hits what it is drawn on, is seen in every frame of a rally and *)
(* never leaves the screen on one side to come back on the other, and no   *)
(* point is lost but behind a paddle (topLevel.sv:176-187,                 *)
(* ball.sv:57-249, color.sv:57-99, 187-240).                               *)
THEOREM PongPlaysFair ==
  Shown!NoDebugKeys /\ PongSpec =>
    /\ [](/\ Shown!OnTrack
          /\ Shown!BouncesTurnInward
          /\ Shown!AlwaysReturnable
          /\ Shown!HitsMatchThePicture
          /\ Shown!BallIsSeen)
    /\ Shown!NeverWrapsRound
    /\ Shown!PointsAreLostOutward
  <1> SUFFICES ASSUME Shown!NoDebugKeys
               PROVE  PongSpec =>
                        /\ [](/\ Shown!OnTrack
                              /\ Shown!BouncesTurnInward
                              /\ Shown!AlwaysReturnable
                              /\ Shown!HitsMatchThePicture
                              /\ Shown!BallIsSeen)
                        /\ Shown!NeverWrapsRound
                        /\ Shown!PointsAreLostOutward
    OBVIOUS
  <1>1. Shown!HeightsInReach
    BY DEF Shown!HeightsInReach, Shown!PaddleReach, PaddleReach
  <1>2. /\ KeyCodes \subseteq 0..255
        /\ PaddleReach \X PaddleReach \subseteq Shown!Word \X Shown!Word
        /\ WinScore \in 1..14
    BY InputsAssumption DEF PaddleReach, Shown!Word
  <1>3. Shown!BallSpec => []Shown!OnTrack
    BY <1>2, Shown!BallStaysOnTrack
  <1>4. Shown!BallSpec => []Shown!BouncesTurnInward
    BY <1>1, <1>2, Shown!LocksTurnTheBallInward
  <1>5. Shown!BallSpec => []Shown!AlwaysReturnable
    BY <1>1, <1>2, Shown!EveryBallIsReturnable
  <1>6. Shown!BallSpec => []Shown!HitsMatchThePicture
    BY <1>1, <1>2, Shown!ThePictureTellsTheHits
  <1>7. Shown!BallSpec => []Shown!BallIsSeen
    BY <1>1, <1>2, Shown!TheBallIsSeen
  <1>8. Shown!BallSpec => Shown!NeverWrapsRound
    BY <1>1, <1>2, Shown!BallNeverWrapsRound
  <1>9. Shown!BallSpec => Shown!PointsAreLostOutward
    BY <1>2, Shown!BallScoresOutward
  <1>10. PongSpec => Shown!BallSpec
    BY PongImplementsBall, SameBall DEF ImplementsBall
  <1> QED BY <1>3, <1>4, <1>5, <1>6, <1>7, <1>8, <1>9, <1>10, PTL

=============================================================================
