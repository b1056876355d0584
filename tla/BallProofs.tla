----------------------------- MODULE BallProofs -----------------------------
(***************************************************************************)
(* Ball and Picture: register widths, the rules of the match, the columns  *)
(* and the rows of the ball, and what the players see of it, for every set *)
(* of key codes, every paddle behaviour and every winning score.           *)
(***************************************************************************)
EXTENDS Picture, TLAPS

(***************************************************************************)
(* Register widths                                                         *)
(***************************************************************************)

(* Whatever is assigned to a register fits it.                             *)
LEMMA W10Type == \A n \in Int : W10(n) \in Word
  BY DEF W10, Word

(* A value that already fits is stored unchanged; one just past the end or *)
(* just below zero wraps once.                                             *)
LEMMA W10Fits == \A n \in Int : 0 <= n /\ n <= 1023 => W10(n) = n
  BY DEF W10, Word

LEMMA W10Over == \A n \in Int : 1024 <= n /\ n <= 2047 => W10(n) = n - 1024
  BY DEF W10, Word

LEMMA W10Under == \A n \in Int : -1024 <= n /\ n <= -1 => W10(n) = n + 1024
  BY DEF W10, Word

LEMMA EdgeCountType ==
  \A c \in LockCount : \A fired, hit : EdgeCount(c, fired, hit) \in LockCount
  <1> SUFFICES ASSUME NEW c \in LockCount, NEW fired, NEW hit
               PROVE  EdgeCount(c, fired, hit) \in LockCount
    OBVIOUS
  <1>1. (c + 1) % 64 \in LockCount
    BY DEF LockCount
  <1>2. 0 \in LockCount /\ 1 \in LockCount
    BY DEF LockCount
  <1> QED BY <1>1, <1>2, Zenon DEF EdgeCount

LEMMA SpinType ==
  ASSUME BallTypeOK, NEW y \in Word
  PROVE  Spin(y) \in Word
  <1>1. (ballY - y) \div 8 \in Int
    BY DEF BallTypeOK, Word
  <1> QED BY <1>1, W10Type, Zenon DEF Spin

(* The constants that are loaded into registers fit them.                  *)
LEMMA ConstantsFit ==
  /\ BallXCenter \in Word /\ BallYCenter \in Word /\ BallXStep \in Word
  /\ 0 \in Word /\ 0 \in LockCount /\ 0 \in Digit
  BY DEF BallXCenter, BallYCenter, BallXStep, Word, LockCount, Digit

LEMMA BallTypeInit == BallInit => BallTypeOK
  BY ConstantsFit, Zenon DEF BallInit, BallTypeOK

(* The sums and negations the play branch stores.                          *)
LEMMA RegisterSums ==
  ASSUME BallTypeOK
  PROVE  /\ W10(ballX + xMotion) \in Word
         /\ W10(ballY + yMotion) \in Word
         /\ W10(xMotion - 1) \in Word
         /\ W10(xMotion + 1) \in Word
         /\ W10(-xMotion) \in Word
         /\ W10(-yMotion) \in Word
         /\ W10(-BallXStep) \in Word
  <1>1. ballX \in Int /\ ballY \in Int /\ xMotion \in Int /\ yMotion \in Int
    BY DEF BallTypeOK, Word
  <1>2. /\ ballX + xMotion \in Int /\ ballY + yMotion \in Int
        /\ xMotion - 1 \in Int /\ xMotion + 1 \in Int
        /\ -xMotion \in Int /\ -yMotion \in Int
    BY <1>1
  <1>3. -BallXStep \in Int
    BY DEF BallXStep
  <1> QED BY <1>2, <1>3, W10Type, Zenon

LEMMA BallTypePlay ==
  ASSUME BallTypeOK, NEW key \in KeyCodes, NEW h \in PaddleHeights, Play(key, h)
  PROVE  BallTypeOK'
  <1>1. h[1] \in Word /\ h[2] \in Word
    BY PaddleHeightsAssumption
  <1>2. ballX' \in Word /\ ballY' \in Word
    BY RegisterSums, Zenon DEF Play
  <1>3. xMotion' \in Word
    <2>1. \/ xMotion' = W10(xMotion - 1) \/ xMotion' = W10(xMotion + 1)
          \/ xMotion' = W10(-BallXStep) \/ xMotion' = BallXStep
          \/ xMotion' = W10(-xMotion) \/ xMotion' = xMotion
      BY DEF Play, XMotionAfter
    <2> QED BY <2>1, RegisterSums, ConstantsFit, Zenon DEF BallTypeOK
  <1>4. yMotion' \in Word
    <2>1. Spin(h[1]) \in Word /\ Spin(h[2]) \in Word
      BY <1>1, SpinType, Zenon
    <2> QED BY <2>1, RegisterSums, Zenon DEF Play, YMotionAfter, BallTypeOK
  <1>5. ledge' \in LockCount /\ redge' \in LockCount /\ tedge' \in LockCount /\ bedge' \in LockCount
    BY EdgeCountType, Zenon DEF Play, BallTypeOK
  <1>6. paddle1Hit' \in BOOLEAN /\ paddle2Hit' \in BOOLEAN
    BY Zenon DEF Play, Hit1, Hit2
  <1>7. scoreLeft' \in Digit /\ scoreRight' \in Digit
    <2>1. (scoreLeft + 1) % 16 \in Digit /\ (scoreRight + 1) % 16 \in Digit
      BY DEF BallTypeOK, Digit
    <2> QED BY <2>1, Zenon DEF Play, BallTypeOK
  <1>8. resetBall' \in BOOLEAN /\ newGame' \in BOOLEAN /\ endGame' \in BOOLEAN
    BY Zenon DEF Play, BallTypeOK, MissRight, MissLeft
  <1> QED BY <1>2, <1>3, <1>4, <1>5, <1>6, <1>7, <1>8, Zenon DEF BallTypeOK

LEMMA BallTypeStep == BallTypeOK /\ [BallNext]_ballVars => BallTypeOK'
  <1> SUFFICES ASSUME BallTypeOK, [BallNext]_ballVars PROVE BallTypeOK'
    OBVIOUS
  <1>1. CASE BallReset
    BY <1>1, ConstantsFit, Zenon DEF BallReset, Recentre, BallTypeOK
  <1>2. ASSUME NEW key \in KeyCodes, NEW h \in PaddleHeights, BallFrame(key, h)
        PROVE  BallTypeOK'
    <2>1. CASE EndScreen(key)
      <3>1. resetBall' \in BOOLEAN /\ newGame' \in BOOLEAN /\ endGame' \in BOOLEAN
        <4>1. AnyKey(key) \in BOOLEAN
          BY DEF AnyKey
        <4> QED BY <2>1, <4>1, Zenon DEF EndScreen, BallTypeOK
      <3>2. xMotion' \in Word /\ scoreLeft' \in Digit /\ scoreRight' \in Digit
        BY <2>1, ConstantsFit, Zenon DEF EndScreen, BallTypeOK
      <3> QED BY <2>1, <3>1, <3>2, ConstantsFit, Zenon DEF EndScreen, Recentre, BallTypeOK
    <2>2. CASE Serve
      BY <2>2, ConstantsFit, Zenon DEF Serve, Recentre, BallTypeOK
    <2>3. CASE Play(key, h)
      BY <2>3, BallTypePlay
    <2> QED BY <1>2, <2>1, <2>2, <2>3 DEF BallFrame
  <1>3. CASE UNCHANGED ballVars
    BY <1>3, Zenon DEF ballVars, motionVars, edgeVars, matchVars, BallTypeOK
  <1> QED BY <1>1, <1>2, <1>3, Zenon DEF BallNext, Frame

(* Every register of ball.sv keeps its width, whatever the keys and the    *)
(* paddles do (ball.sv:24-41, 57-249).                                     *)
THEOREM BallTypeCorrect == BallSpec => []BallTypeOK
  BY BallTypeInit, BallTypeStep, PTL DEF BallSpec

(***************************************************************************)
(* The rules of the match                                                  *)
(***************************************************************************)

(* At the centre the ball touches no edge that scores and no paddle.       *)
LEMMA CentreIsQuiet ==
  ASSUME ballX = BallXCenter
  PROVE  /\ ~MissRight /\ ~MissLeft
         /\ \A y : ~Hit1(y) /\ ~Hit2(y)
  <1>1. W10(ballX + BallSize) = 325 /\ W10(ballX - BallSize) = 315
    BY W10Fits DEF BallXCenter, BallSize
  <1>2. ~MissRight /\ ~MissLeft
    BY <1>1 DEF MissRight, MissLeft, AtRight, AtLeft, BallXMax, BallXMin
  <1>3. ASSUME NEW y PROVE ~Hit1(y)
    <2>1. ~UnsignedLe(ballX - BallSize, MaxWidth(1))
      BY DEF UnsignedLe, MaxWidth, PaddleX, PaddleWidth, BallXCenter, BallSize
    <2> QED BY <2>1 DEF Hit1
  <1>4. ASSUME NEW y PROVE ~Hit2(y)
    <2>1. ~UnsignedLe(MinWidth(2), ballX + BallSize)
      BY DEF UnsignedLe, MinWidth, PaddleX, PaddleWidth, BallXCenter, BallSize
    <2> QED BY <2>1 DEF Hit2
  <1> QED BY <1>2, <1>3, <1>4

LEMMA RulesInvInit == BallInit => RulesInv
  BY WinScoreAssumption DEF BallInit, RulesInv, GameWon

(* What a frame of play does to the score and the phase of the match.      *)
LEMMA PlayAndTheRules ==
  ASSUME BallTypeOK, RulesInv, NEW key \in KeyCodes, NEW h \in PaddleHeights, Play(key, h)
  PROVE  /\ RulesInv'
         /\ [Rules!RulesNext]_(Rules!rulesVars)
  <1>1. /\ ~endGame /\ ~resetBall
        /\ scoreLeft \in Digit /\ scoreRight \in Digit
    BY DEF Play, BallTypeOK
  <1>2. CASE newGame
    <2>1. /\ ballX = BallXCenter /\ xMotion = 0
          /\ scoreLeft = 0 /\ scoreRight = 0 /\ ~GameWon
      BY <1>2, WinScoreAssumption DEF RulesInv, GameWon
    <2>2. ~MissRight /\ ~MissLeft /\ ~Hit1(h[1]) /\ ~Hit2(h[2])
      BY <2>1, CentreIsQuiet
    <2>3. /\ scoreLeft' = 0 /\ scoreRight' = 0 /\ ~endGame'
          /\ resetBall' <=> AnyKey(key)
          /\ newGame' <=> ~AnyKey(key)
      BY <1>2, <2>1, <2>2, Zenon DEF Play, GameWon
    <2>4. ballX' = BallXCenter
      BY <2>1, W10Fits DEF Play, BallXCenter
    <2>5. ~AnyKey(key) => xMotion' = 0
      BY <2>1, <2>2 DEF Play, XMotionAfter, AnyKey, KeySlower, KeyFaster
    <2>6. ~GameWon'
      BY <2>3, WinScoreAssumption DEF GameWon
    <2>7. RulesInv'
      BY <2>3, <2>4, <2>5, <2>6, WinScoreAssumption DEF RulesInv
    <2>8. CASE AnyKey(key)
      <3>1. Phase = "title" /\ Phase' = "serve"
        BY <1>2, <2>3, <2>8 DEF Phase
      <3> QED BY <2>1, <2>3, <2>7, <3>1 DEF Rules!RulesNext, Rules!StartGame
    <2>9. CASE ~AnyKey(key)
      <3>1. Phase = "title" /\ Phase' = "title"
        BY <1>2, <2>3, <2>9 DEF Phase
      <3> QED BY <2>1, <2>3, <2>7, <3>1 DEF Rules!rulesVars
    <2> QED BY <2>8, <2>9
  <1>3. CASE ~newGame /\ GameWon
    <2>1. ballX = BallXCenter
      BY <1>1, <1>3 DEF RulesInv
    <2>2. ~MissRight /\ ~MissLeft
      BY <2>1, CentreIsQuiet
    <2>3. /\ scoreLeft' = scoreLeft /\ scoreRight' = scoreRight
          /\ endGame' /\ ~resetBall' /\ ~newGame'
      BY <1>3, <2>2 DEF Play, GameWon
    <2>4. RulesInv'
      BY <2>3 DEF RulesInv
    <2>5. Phase = "rally" /\ Phase' = "over"
      BY <1>1, <1>3, <2>3 DEF Phase
    <2> QED BY <1>3, <2>3, <2>4, <2>5 DEF Rules!RulesNext, Rules!GameOver, Rules!Won, GameWon
  <1>4. CASE ~newGame /\ ~GameWon
    <2>1. /\ ~endGame' /\ ~newGame'
          /\ resetBall' = (MissRight \/ MissLeft)
      BY <1>4 DEF Play, GameWon
    <2>2. /\ scoreLeft < WinScore /\ scoreRight < WinScore
          /\ (scoreLeft + 1) % 16 = scoreLeft + 1
          /\ (scoreRight + 1) % 16 = scoreRight + 1
      BY <1>1, <1>4, WinScoreAssumption DEF RulesInv, GameWon, Digit
    <2>3. Phase = "rally"
      BY <1>1, <1>4 DEF Phase
    <2>4. CASE MissRight
      <3>1. scoreLeft' = scoreLeft + 1 /\ scoreRight' = scoreRight /\ resetBall'
        BY <2>1, <2>2, <2>4 DEF Play, MissRight, MissLeft
      <3>2. Phase' = "serve"
        BY <2>1, <3>1 DEF Phase
      <3>3. RulesInv'
        BY <1>1, <2>1, <2>2, <3>1, WinScoreAssumption DEF RulesInv, Digit
      <3> QED BY <1>4, <2>3, <3>1, <3>2, <3>3
             DEF Rules!RulesNext, Rules!PointLeft, Rules!Won, GameWon
    <2>5. CASE MissLeft
      <3>1. scoreRight' = scoreRight + 1 /\ scoreLeft' = scoreLeft /\ resetBall'
        BY <2>1, <2>2, <2>5 DEF Play, MissRight, MissLeft
      <3>2. Phase' = "serve"
        BY <2>1, <3>1 DEF Phase
      <3>3. RulesInv'
        BY <1>1, <2>1, <2>2, <3>1, WinScoreAssumption DEF RulesInv, Digit
      <3> QED BY <1>4, <2>3, <3>1, <3>2, <3>3
             DEF Rules!RulesNext, Rules!PointRight, Rules!Won, GameWon
    <2>6. CASE ~MissRight /\ ~MissLeft
      <3>1. scoreLeft' = scoreLeft /\ scoreRight' = scoreRight /\ ~resetBall'
        BY <2>1, <2>6 DEF Play
      <3>2. Phase' = "rally"
        BY <2>1, <3>1 DEF Phase
      <3>3. ~GameWon'
        BY <1>4, <3>1 DEF GameWon
      <3>4. RulesInv'
        BY <2>1, <3>1, <3>3 DEF RulesInv
      <3> QED BY <2>3, <3>1, <3>2, <3>4 DEF Rules!rulesVars
    <2> QED BY <2>4, <2>5, <2>6
  <1> QED BY <1>2, <1>3, <1>4

LEMMA RulesStep ==
  ASSUME BallTypeOK, RulesInv, [BallNext]_ballVars
  PROVE  /\ RulesInv'
         /\ [Rules!RulesNext]_(Rules!rulesVars)
  <1>1. CASE BallReset
    <2>1. /\ newGame' /\ ~resetBall' /\ ~endGame'
          /\ scoreLeft' = 0 /\ scoreRight' = 0
          /\ ballX' = BallXCenter /\ xMotion' = 0
      BY <1>1 DEF BallReset, Recentre
    <2>2. RulesInv'
      BY <2>1, WinScoreAssumption DEF RulesInv, GameWon
    <2>3. Phase' = "title"
      BY <2>1 DEF Phase
    <2> QED BY <2>1, <2>2, <2>3 DEF Rules!RulesNext, Rules!BackToTitle
  <1>2. ASSUME NEW key \in KeyCodes, NEW h \in PaddleHeights, BallFrame(key, h)
        PROVE  /\ RulesInv'
               /\ [Rules!RulesNext]_(Rules!rulesVars)
    <2>1. CASE EndScreen(key)
      <3>1. endGame /\ ~newGame /\ ~newGame'
        BY <2>1 DEF EndScreen, RulesInv
      <3>2. CASE AnyKey(key)
        <4>1. ~endGame' /\ resetBall' /\ scoreLeft' = 0 /\ scoreRight' = 0
          BY <2>1, <3>2 DEF EndScreen
        <4>2. RulesInv'
          BY <3>1, <4>1, WinScoreAssumption DEF RulesInv
        <4>3. Phase = "over" /\ Phase' = "serve"
          BY <3>1, <4>1 DEF Phase
        <4> QED BY <4>1, <4>2, <4>3 DEF Rules!RulesNext, Rules!Rematch
      <3>3. CASE ~AnyKey(key)
        <4>1. endGame' /\ ~resetBall' /\ scoreLeft' = scoreLeft /\ scoreRight' = scoreRight
          BY <2>1, <3>3 DEF EndScreen
        <4>2. RulesInv'
          BY <3>1, <4>1 DEF RulesInv
        <4>3. Phase = "over" /\ Phase' = "over"
          BY <3>1, <4>1 DEF Phase
        <4> QED BY <4>1, <4>2, <4>3 DEF Rules!rulesVars
      <3> QED BY <3>2, <3>3
    <2>2. CASE Serve
      <3>1. /\ ~endGame /\ resetBall /\ ~newGame
            /\ ~endGame' /\ ~resetBall' /\ ~newGame'
            /\ scoreLeft' = scoreLeft /\ scoreRight' = scoreRight
            /\ ballX' = BallXCenter
        BY <2>2 DEF Serve, Recentre, RulesInv
      <3>2. RulesInv'
        BY <3>1 DEF RulesInv
      <3>3. Phase = "serve" /\ Phase' = "rally"
        BY <3>1 DEF Phase
      <3> QED BY <3>1, <3>2, <3>3 DEF Rules!RulesNext, Rules!ServeBall
    <2>3. CASE Play(key, h)
      BY <2>3, PlayAndTheRules
    <2> QED BY <1>2, <2>1, <2>2, <2>3 DEF BallFrame
  <1>3. CASE UNCHANGED ballVars
    <2>1. /\ newGame' = newGame /\ resetBall' = resetBall /\ endGame' = endGame
          /\ scoreLeft' = scoreLeft /\ scoreRight' = scoreRight
          /\ ballX' = ballX /\ xMotion' = xMotion
      BY <1>3 DEF ballVars, motionVars, matchVars
    <2>2. RulesInv' /\ Phase' = Phase
      BY <2>1 DEF RulesInv, GameWon, Phase
    <2> QED BY <2>1, <2>2 DEF Rules!rulesVars
  <1> QED BY <1>1, <1>2, <1>3, Zenon DEF BallNext, Frame

LEMMA RulesBegin == BallInit => Rules!RulesInit
  BY DEF BallInit, Rules!RulesInit, Phase

(* The score cannot pass the winning score, and nothing but the centred    *)
(* ball stands between the winning point and the end screen                *)
(* (ball.sv:101-115, 231-247).                                             *)
THEOREM RulesInvCorrect == BallSpec => []RulesInv
  BY BallTypeInit, BallTypeStep, RulesInvInit, RulesStep, PTL DEF BallSpec

(* ball.sv implements the rules of the match, with the debugging keys and  *)
(* whatever the paddles do (ball.sv:57-249).                               *)
THEOREM MatchFollowsTheRules == BallSpec => FollowsTheRules
  BY BallTypeInit, BallTypeStep, RulesInvInit, RulesStep, RulesBegin, PTL
     DEF BallSpec, FollowsTheRules, Rules!RulesSpec

(***************************************************************************)
(* The columns of the ball                                                 *)
(***************************************************************************)

(* The comparisons of ball.sv, column by column.                           *)
LEMMA Columns ==
  ASSUME ballX \in 19..607
  PROVE  /\ AtRight <=> ballX >= 591 /\ redge = 0
         /\ AtLeft <=> ballX <= 38 /\ ledge = 0
         /\ \A y : Hit1(y) => ballX \in 53..67
         /\ \A y : Hit2(y) => ballX = 558
  <1>1. W10(ballX + BallSize) = ballX + 5 /\ W10(ballX - BallSize) = ballX - 5
    BY W10Fits DEF BallSize
  <1>2. AtRight <=> ballX >= 591 /\ redge = 0
    BY <1>1 DEF AtRight, BallXMax
  <1>3. AtLeft <=> ballX <= 38 /\ ledge = 0
    BY <1>1 DEF AtLeft, BallXMin
  <1>4. ASSUME NEW y, Hit1(y) PROVE ballX \in 53..67
    <2>1. UnsignedLe(ballX - BallSize, MaxWidth(1)) /\ UnsignedLe(MinWidth(1), ballX + BallSize)
      BY <1>4 DEF Hit1
    <2> QED BY <2>1 DEF UnsignedLe, MinWidth, MaxWidth, PaddleX, PaddleWidth, BallSize
  <1>5. ASSUME NEW y, Hit2(y) PROVE ballX = 558
    <2>1. UnsignedLe(ballX + BallSize, MinWidth(2)) /\ UnsignedLe(MinWidth(2), ballX + BallSize)
      BY <1>5 DEF Hit2
    <2> QED BY <2>1 DEF UnsignedLe, MinWidth, PaddleX, PaddleWidth, BallSize
  <1> QED BY <1>2, <1>3, <1>4, <1>5

(* A rally goes on by frames of play, and begins with a serve only.        *)
LEMMA RallyGoesOn ==
  ASSUME NEW key \in KeyCodes, NEW h \in PaddleHeights, Play(key, h), InRally'
  PROVE  InRally /\ ~MissRight /\ ~MissLeft
  BY DEF Play, InRally

(* The horizontal motion of a frame of play, with the debugging keys away. *)
LEMMA MotionOfAFrame ==
  ASSUME NoDebugKeys, NEW key \in KeyCodes, NEW h \in PaddleHeights, Play(key, h),
         ~MissRight, ~MissLeft
  PROVE  /\ Hit2(h[2]) => MovesLeft'
         /\ Hit1(h[1]) /\ ~Hit2(h[2]) => MovesRight'
         /\ ~Hit1(h[1]) /\ ~Hit2(h[2]) => xMotion' = xMotion
  <1>1. key # KeySlower /\ key # KeyFaster
    BY DEF NoDebugKeys
  <1>2. xMotion' = IF Hit2(h[2]) THEN W10(-BallXStep)
                   ELSE IF Hit1(h[1]) THEN BallXStep
                   ELSE xMotion
    BY <1>1, Zenon DEF Play, XMotionAfter
  <1> QED BY <1>2, Zenon DEF MovesLeft, MovesRight

(* The motion to the left in ten bits.                                     *)
LEMMA LeftIs1017 == W10(-BallXStep) = 1017
  <1>1. -BallXStep = -7
    BY DEF BallXStep
  <1>2. W10(-7) = -7 + 1024
    BY W10Under
  <1> QED BY <1>1, <1>2

(* A step takes the ball from column to column.                            *)
LEMMA NextColumn ==
  ASSUME ballX \in 19..607, NEW key \in KeyCodes, NEW h \in PaddleHeights, Play(key, h)
  PROVE  /\ MovesRight => ballX' = ballX + 7
         /\ MovesLeft => ballX' = ballX - 7
  <1>1. W10(-BallXStep) = 1017
    BY LeftIs1017
  <1>2. CASE MovesRight
    <2>1. ballX' = W10(ballX + 7)
      BY <1>2 DEF Play, MovesRight, BallXStep
    <2> QED BY <1>1, <1>2, <2>1, W10Fits DEF MovesRight, MovesLeft, BallXStep
  <1>3. CASE MovesLeft
    <2>1. ballX' = W10(ballX + 1017)
      BY <1>1, <1>3 DEF Play, MovesLeft
    <2>2. W10(ballX + 1017) = ballX - 7
      BY W10Over
    <2> QED BY <1>1, <1>3, <2>1, <2>2 DEF MovesRight, MovesLeft, BallXStep
  <1> QED BY <1>2, <1>3

(* The locks of a frame without a hit in which the ball was about to score *)
(* but an edge took precedence.                                            *)
LEMMA BounceDelaysAMiss ==
  ASSUME BallTypeOK, NEW key \in KeyCodes, NEW h \in PaddleHeights, Play(key, h),
         ~Hit1(h[1]), ~Hit2(h[2]), AtBottom \/ AtTop
  PROVE  \/ /\ bedge = 0 /\ bedge' = 1
            /\ tedge \in 1..62 => tedge' = tedge + 1
         \/ /\ tedge = 0 /\ tedge' = 1
            /\ bedge \in 1..62 => bedge' = bedge + 1
  <1>1. /\ bedge' = EdgeCount(bedge, BounceBottom, FALSE)
        /\ tedge' = EdgeCount(tedge, BounceTop, FALSE)
    BY Zenon DEF Play, EdgeCount
  <1>2. CASE AtBottom
    <2>1. bedge = 0 /\ BounceBottom /\ ~BounceTop
      BY <1>2 DEF AtBottom, BounceBottom, BounceTop
    <2> QED BY <1>1, <2>1 DEF EdgeCount
  <1>3. CASE ~AtBottom /\ AtTop
    <2>1. tedge = 0 /\ BounceTop /\ ~BounceBottom
      BY <1>3 DEF AtTop, BounceBottom, BounceTop
    <2> QED BY <1>1, <2>1 DEF EdgeCount
  <1> QED BY <1>2, <1>3

LEMMA TrackPlay ==
  ASSUME NoDebugKeys, BallTypeOK, TrackInv,
         NEW key \in KeyCodes, NEW h \in PaddleHeights, Play(key, h), InRally'
  PROVE  TrackInv'
  <1>1. /\ InRally /\ ~MissRight /\ ~MissLeft
        /\ ledge = 0 /\ redge = 0
        /\ ballX \in Track /\ ballX \in 19..607
        /\ \/ MovesRight /\ ballX \in 47..607
           \/ MovesLeft /\ ballX \in 19..565
        /\ ballX \in {26, 600} => bedge = 1 \/ tedge = 1
        /\ ballX \in {19, 607} => bedge \in 1..2 /\ tedge \in 1..2
    BY RallyGoesOn DEF TrackInv
  <1>2. ledge' = 0 /\ redge' = 0
    BY <1>1 DEF Play, EdgeCount
  <1>3. /\ AtRight <=> ballX >= 591
        /\ AtLeft <=> ballX <= 38
        /\ Hit1(h[1]) => ballX \in 53..67
        /\ Hit2(h[2]) => ballX = 558
    BY <1>1, Columns
  <1>4. ballX \in {5 + 7 * k : k \in 1..87}
    BY <1>1 DEF Track
  <1>5. ballX >= 591 \/ ballX <= 38 => AtBottom \/ AtTop
    BY <1>1, <1>3 DEF MissRight, MissLeft
  <1>6. CASE MovesRight /\ ballX \in 47..607
    <2>1. ballX' = ballX + 7
      BY <1>1, <1>6, NextColumn
    <2>2. ballX # 607
      BY <1>1, <1>5 DEF AtBottom, AtTop
    <2>3. ballX' \in Track /\ ballX' \in 54..607
      BY <1>4, <1>6, <2>1, <2>2, SMTT(30) DEF Track
    <2>4. MovesRight' \/ (MovesLeft' /\ ballX' = 565)
      BY <1>1, <1>3, <1>6, <2>1, MotionOfAFrame DEF MovesRight
    <2>5. CASE ballX < 591
      <3>1. ballX' \notin {19, 26, 600, 607}
        BY <1>4, <1>6, <2>1, <2>5
      <3> QED BY <1>2, <2>3, <2>4, <3>1 DEF TrackInv
    <2>6. CASE ballX >= 591
      <3>1. ~Hit1(h[1]) /\ ~Hit2(h[2]) /\ (AtBottom \/ AtTop)
        BY <1>3, <1>5, <2>6
      <3>2. \/ /\ bedge = 0 /\ bedge' = 1
               /\ tedge \in 1..62 => tedge' = tedge + 1
            \/ /\ tedge = 0 /\ tedge' = 1
               /\ bedge \in 1..62 => bedge' = bedge + 1
        BY <3>1, BounceDelaysAMiss
      <3>3. ballX' \notin {19, 26}
        BY <1>6, <2>1, <2>6
      <3>4. ballX' = 607 => bedge' \in 1..2 /\ tedge' \in 1..2
        BY <1>1, <2>1, <3>2
      <3> QED BY <1>2, <2>3, <2>4, <3>2, <3>3, <3>4 DEF TrackInv
    <2> QED BY <1>6, <2>5, <2>6
  <1>7. CASE MovesLeft /\ ballX \in 19..565
    <2>1. ballX' = ballX - 7
      BY <1>1, <1>7, NextColumn
    <2>2. ballX # 19
      BY <1>1, <1>5 DEF AtBottom, AtTop
    <2>3. ballX' \in Track /\ ballX' \in 19..558
      BY <1>4, <1>7, <2>1, <2>2 DEF Track
    <2>4. MovesLeft' \/ (MovesRight' /\ ballX' \in 46..60)
      BY <1>1, <1>3, <1>7, <2>1, MotionOfAFrame DEF MovesLeft
    <2>5. MovesLeft' \/ (MovesRight' /\ ballX' \in 47..60)
      <3>1. ballX' # 46
        BY <1>4, <2>1
      <3> QED BY <2>4, <3>1
    <2>6. CASE ballX > 38
      <3>1. ballX' \notin {19, 26, 600, 607}
        BY <1>4, <1>7, <2>1, <2>6
      <3> QED BY <1>2, <2>3, <2>5, <3>1 DEF TrackInv
    <2>7. CASE ballX <= 38
      <3>1. ~Hit1(h[1]) /\ ~Hit2(h[2]) /\ (AtBottom \/ AtTop)
        BY <1>3, <1>5, <2>7
      <3>2. \/ /\ bedge = 0 /\ bedge' = 1
               /\ tedge \in 1..62 => tedge' = tedge + 1
            \/ /\ tedge = 0 /\ tedge' = 1
               /\ bedge \in 1..62 => bedge' = bedge + 1
        BY <3>1, BounceDelaysAMiss
      <3>3. ballX' \notin {600, 607}
        BY <2>1, <2>7
      <3>4. ballX' = 19 => bedge' \in 1..2 /\ tedge' \in 1..2
        BY <1>1, <2>1, <3>2
      <3> QED BY <1>2, <2>3, <2>5, <3>2, <3>3, <3>4 DEF TrackInv
    <2> QED BY <1>7, <2>6, <2>7
  <1> QED BY <1>1, <1>6, <1>7

LEMMA TrackStep ==
  ASSUME NoDebugKeys, BallTypeOK, TrackInv, [BallNext]_ballVars
  PROVE  TrackInv'
  <1> SUFFICES ASSUME InRally' PROVE TrackInv'
    BY DEF TrackInv
  <1>1. ~BallReset
    BY DEF BallReset, InRally
  <1>2. ASSUME NEW key \in KeyCodes, NEW h \in PaddleHeights, BallFrame(key, h)
        PROVE  TrackInv'
    <2>1. ~EndScreen(key)
      BY DEF EndScreen, InRally
    <2>2. CASE Serve
      <3>1. /\ ledge' = 0 /\ redge' = 0
            /\ ballX' = 320 /\ MovesRight'
        BY <2>2 DEF Serve, Recentre, BallXCenter, MovesRight
      <3>2. ballX' \in Track
        <4>1. 45 \in 1..87 /\ 320 = 5 + 7 * 45
          OBVIOUS
        <4> QED BY <3>1, <4>1 DEF Track
      <3> QED BY <3>1, <3>2 DEF TrackInv
    <2>3. CASE Play(key, h)
      BY <2>3, TrackPlay
    <2> QED BY <1>2, <2>1, <2>2, <2>3 DEF BallFrame
  <1>3. CASE UNCHANGED ballVars
    BY <1>3 DEF ballVars, motionVars, edgeVars, matchVars,
                TrackInv, InRally, MovesRight, MovesLeft
  <1> QED BY <1>1, <1>2, <1>3 DEF BallNext, Frame

LEMMA TrackBegin == BallInit => TrackInv
  BY DEF BallInit, TrackInv, InRally

(* What the columns give in one frame: the ball crosses x = 558 only by    *)
(* landing on it.                                                          *)
LEMMA NoTunnelStep ==
  ASSUME BallTypeOK, TrackInv, [BallNext]_ballVars, InRally
  PROVE  ~(ballX < 558 /\ ballX' > 558)
  <1>1. CASE BallReset
    BY <1>1 DEF BallReset, Recentre, BallXCenter
  <1>2. ASSUME NEW key \in KeyCodes, NEW h \in PaddleHeights, BallFrame(key, h)
        PROVE  ~(ballX < 558 /\ ballX' > 558)
    <2>1. Play(key, h)
      BY <1>2 DEF BallFrame, EndScreen, Serve, InRally
    <2>2. ballX \in 19..607 /\ (MovesRight \/ MovesLeft)
      BY DEF TrackInv
    <2>3. \/ ballX' = ballX + 7
          \/ ballX' = ballX - 7
      BY <2>1, <2>2, NextColumn
    <2>4. ballX \in {5 + 7 * k : k \in 1..87}
      BY DEF TrackInv, Track
    <2> QED BY <2>3, <2>4
  <1>3. CASE UNCHANGED ballVars
    <2>1. ballX' = ballX
      BY <1>3 DEF ballVars, motionVars
    <2>2. ballX \in Int
      BY DEF BallTypeOK, Word
    <2> QED BY <2>1, <2>2
  <1> QED BY <1>1, <1>2, <1>3 DEF BallNext, Frame

(* A score that goes up is a miss in a rally, and a miss is a ball beyond  *)
(* the paddle.                                                             *)
LEMMA PointStep ==
  ASSUME BallTypeOK, RulesInv, TrackInv, [BallNext]_ballVars
  PROVE  /\ scoreLeft' = scoreLeft + 1 => MovesRight /\ ballX > PaddleX(2)
         /\ scoreRight' = scoreRight + 1 => MovesLeft /\ ballX < PaddleX(1)
  <1>1. scoreLeft \in Nat /\ scoreRight \in Nat
    BY DEF BallTypeOK, Digit
  <1>2. CASE BallReset
    BY <1>1, <1>2 DEF BallReset
  <1>3. ASSUME NEW key \in KeyCodes, NEW h \in PaddleHeights, BallFrame(key, h)
        PROVE  /\ scoreLeft' = scoreLeft + 1 => MovesRight /\ ballX > PaddleX(2)
               /\ scoreRight' = scoreRight + 1 => MovesLeft /\ ballX < PaddleX(1)
    <2>1. CASE EndScreen(key)
      BY <1>1, <2>1 DEF EndScreen
    <2>2. CASE Serve
      BY <1>1, <2>2 DEF Serve
    <2>3. CASE Play(key, h)
      <3>1. CASE ~MissRight /\ ~MissLeft
        BY <1>1, <2>3, <3>1 DEF Play
      <3>2. CASE MissRight \/ MissLeft
        <4>1. InRally
          <5>1. ~newGame
            BY <3>2, CentreIsQuiet DEF RulesInv
          <5> QED BY <2>3, <5>1 DEF Play, InRally
        <4>2. \/ MovesRight /\ ballX \in 47..607
              \/ MovesLeft /\ ballX \in 19..565
          BY <4>1 DEF TrackInv
        <4>3. (AtRight => ballX >= 591) /\ (AtLeft => ballX <= 38)
          BY <4>2, Columns
        <4>4. (MissRight => AtRight) /\ (MissLeft => AtLeft)
          BY DEF MissRight, MissLeft
        <4>5. /\ scoreLeft' = scoreLeft + 1 => MissRight
              /\ scoreRight' = scoreRight + 1 => MissLeft
          BY <1>1, <2>3 DEF Play
        <4> QED BY <4>2, <4>3, <4>4, <4>5 DEF PaddleX
      <3> QED BY <3>1, <3>2
    <2> QED BY <1>3, <2>1, <2>2, <2>3 DEF BallFrame
  <1>4. CASE UNCHANGED ballVars
    BY <1>1, <1>4 DEF ballVars, matchVars
  <1> QED BY <1>2, <1>3, <1>4 DEF BallNext, Frame

(* With the debugging keys away, whatever the paddles do: the ball stays   *)
(* on its columns and on the screen (ball.sv:120-146, 185-237).            *)
THEOREM BallStaysOnTrack == NoDebugKeys /\ BallSpec => []OnTrack
  <1> SUFFICES ASSUME NoDebugKeys PROVE BallSpec => []OnTrack
    OBVIOUS
  <1>1. BallTypeOK /\ TrackInv /\ [BallNext]_ballVars => TrackInv'
    BY TrackStep
  <1>2. TrackInv => OnTrack
    BY DEF TrackInv, OnTrack
  <1> QED BY BallTypeInit, BallTypeStep, TrackBegin, <1>1, <1>2, PTL DEF BallSpec

(* ... it is tested against the right paddle before it passes it           *)
(* (ball.sv:211-214, 237).                                                 *)
THEOREM BallNeverTunnels == NoDebugKeys /\ BallSpec => NeverTunnels
  <1> SUFFICES ASSUME NoDebugKeys PROVE BallSpec => NeverTunnels
    OBVIOUS
  <1>1. BallTypeOK /\ TrackInv /\ [BallNext]_ballVars => TrackInv'
    BY TrackStep
  <1>2. BallTypeOK /\ TrackInv /\ [BallNext]_ballVars
          => [InRally => ~(ballX < 558 /\ ballX' > 558)]_ballVars
    BY NoTunnelStep
  <1> QED BY BallTypeInit, BallTypeStep, TrackBegin, <1>1, <1>2, PTL
         DEF BallSpec, NeverTunnels

(* ... and it costs a point only on its way out, behind the paddle it      *)
(* passed (ball.sv:132-146).                                               *)
THEOREM BallScoresOutward == NoDebugKeys /\ BallSpec => PointsAreLostOutward
  <1> SUFFICES ASSUME NoDebugKeys PROVE BallSpec => PointsAreLostOutward
    OBVIOUS
  <1>1. BallTypeOK /\ TrackInv /\ [BallNext]_ballVars => TrackInv'
    BY TrackStep
  <1>2. BallTypeOK /\ RulesInv /\ TrackInv /\ [BallNext]_ballVars
          => [/\ scoreLeft' = scoreLeft + 1 => MovesRight /\ ballX > PaddleX(2)
              /\ scoreRight' = scoreRight + 1 => MovesLeft /\ ballX < PaddleX(1)]_ballVars
    BY PointStep
  <1> QED BY BallTypeInit, BallTypeStep, RulesInvInit, RulesStep, TrackBegin, <1>1, <1>2, PTL
         DEF BallSpec, PointsAreLostOutward

(***************************************************************************)
(* The rows of the ball                                                    *)
(***************************************************************************)

(* The paddles stay where paddle.sv can move them (see PaddleStaysInReach). *)
HeightsInReach == PaddleHeights \subseteq PaddleReach \X PaddleReach

APaddleHits(h) == Hit1(h[1]) \/ Hit2(h[2])

LEMMA HitsInRange ==
  /\ Hits \in 0..3
  /\ \A l \in LockCount : HitsBeforeBounce(l) \in 0..3
  BY DEF Hits, HitsBeforeBounce

(* The register holds the signed speed in ten bits.                        *)
LEMMA MotionOfSpeed ==
  ASSUME BallTypeOK
  PROVE  yMotion = YSpeed \/ yMotion = YSpeed + 1024
  <1>1. yMotion \in 0..1023
    BY DEF BallTypeOK, Word
  <1> QED BY <1>1 DEF YSpeed

(* The signed value of a motion that a frame stores.                       *)
LEMMA StoredSpeed ==
  ASSUME NEW s \in -5..5, yMotion' = W10(s)
  PROVE  YSpeed' = s
  <1>1. CASE s >= 0
    <2>1. W10(s) = s
      BY <1>1, W10Fits
    <2> QED BY <1>1, <2>1 DEF YSpeed
  <1>2. CASE s < 0
    <2>1. W10(s) = s + 1024
      BY <1>2, W10Under
    <2> QED BY <1>2, <2>1 DEF YSpeed
  <1> QED BY <1>1, <1>2

(* The ball is on the screen, and so is the row it moves to.               *)
LEMMA RowRange ==
  ASSUME BallTypeOK, RowInv
  PROVE  /\ ballY \in 1..480 /\ YSpeed \in -5..5
         /\ ballY + YSpeed \in 1..480
         /\ tedge = 0 => ballY >= 6
         /\ bedge = 0 => ballY <= 475
  <1>1. /\ ballY \in 0..1023 /\ tedge \in 0..63 /\ bedge \in 0..63
        /\ YSpeed \in -5..5 /\ FromBottom = 481 - ballY
    BY DEF BallTypeOK, RowInv, Word, LockCount, FromBottom, BallYMin, BallYMax
  <1>2. /\ tedge = 0 => ballY >= 6
        /\ tedge > 0 => ballY >= 1 /\ YSpeed >= 0
    BY <1>1, HitsInRange DEF RowInv, EdgeInv
  <1>3. /\ bedge = 0 => 481 - ballY >= 6
        /\ bedge > 0 => 481 - ballY >= 1 /\ YSpeed <= 0
    <2>1. EdgeInv(481 - ballY, bedge, 0 - YSpeed, Hits, HitsBeforeBounce(bedge))
      BY <1>1 DEF RowInv
    <2> QED BY <1>1, <2>1, HitsInRange DEF EdgeInv
  <1> QED BY <1>1, <1>2, <1>3

(* The comparisons of ball.sv, row by row.                                 *)
LEMMA Rows ==
  ASSUME BallTypeOK, RowInv
  PROVE  /\ AtTop <=> ballY <= 25 /\ tedge = 0
         /\ AtBottom <=> ballY >= 456 /\ bedge = 0
  <1>1. /\ ballY \in 1..480
        /\ tedge = 0 => ballY >= 6
    BY RowRange
  <1>2. W10(ballY + BallSize) = ballY + 5
    BY <1>1, W10Fits DEF BallSize
  <1>3. tedge = 0 => W10(ballY - BallSize) = ballY - 5
    BY <1>1, W10Fits DEF BallSize
  <1> QED BY <1>1, <1>2, <1>3 DEF AtTop, AtBottom, BallYMin, BallYMax

(* A hit near an edge of the court sends the ball away from the paddle,    *)
(* which is on the far side of the ball: towards that edge.                *)
LEMMA SpinNearAnEdge ==
  ASSUME ballY \in 1..480, NEW y \in PaddleReach, Overlaps(y)
  PROVE  /\ (ballY - y) \div 8 \in -5..5
         /\ ballY <= 30 => (ballY - y) \div 8 < 0
         /\ ballY >= 451 => (ballY - y) \div 8 > 0
  <1>1. y \in 48..438
    BY DEF PaddleReach
  <1>2. ballY - y \in -40..40
    BY <1>1 DEF Overlaps, UnsignedLe, MaxHeight, MinHeight, PaddleLength, BallSize
  <1> QED BY <1>1, <1>2

(* What one frame of play does to the row, the vertical motion and the two *)
(* locks.                                                                  *)
LEMMA RowOfAFrame ==
  ASSUME HeightsInReach, BallTypeOK, RowInv,
         NEW key \in KeyCodes, NEW h \in PaddleHeights, Play(key, h)
  PROVE  /\ ballY' = ballY + YSpeed /\ YSpeed' \in -5..5
         /\ APaddleHits(h) => /\ tedge' = 0 /\ bedge' = 0
                              /\ ballY <= 30 => YSpeed' < 0
                              /\ ballY >= 451 => YSpeed' > 0
         /\ ~APaddleHits(h) =>
              /\ tedge' = IF tedge > 0 THEN IF tedge = 63 THEN 0 ELSE tedge + 1
                          ELSE IF ballY <= 25 THEN 1 ELSE 0
              /\ bedge' = IF bedge > 0 THEN IF bedge = 63 THEN 0 ELSE bedge + 1
                          ELSE IF ballY >= 456 THEN 1 ELSE 0
              /\ YSpeed' = IF \/ tedge = 0 /\ ballY <= 25
                              \/ bedge = 0 /\ ballY >= 456
                           THEN -YSpeed ELSE YSpeed
  <1>1. /\ ballY \in 1..480 /\ YSpeed \in -5..5
        /\ ballY + YSpeed \in 1..480
    BY RowRange
  <1>2. ballY' = ballY + YSpeed
    <2>1. ballY' = (ballY + yMotion) % 1024
      BY DEF Play, W10
    <2>2. yMotion = YSpeed \/ yMotion = YSpeed + 1024
      BY MotionOfSpeed
    <2> QED BY <1>1, <2>1, <2>2
  <1>3. /\ AtTop <=> ballY <= 25 /\ tedge = 0
        /\ AtBottom <=> ballY >= 456 /\ bedge = 0
    BY Rows
  <1>4. CASE APaddleHits(h)
    <2>1. h[1] \in PaddleReach /\ h[2] \in PaddleReach
      BY DEF HeightsInReach
    <2>2. PICK y \in PaddleReach : Overlaps(y) /\ yMotion' = Spin(y)
      <3>1. CASE Hit2(h[2])
        BY <2>1, <3>1, Zenon DEF Play, YMotionAfter, Hit2
      <3>2. CASE ~Hit2(h[2]) /\ Hit1(h[1])
        BY <2>1, <3>2, Zenon DEF Play, YMotionAfter, Hit1
      <3> QED BY <1>4, <3>1, <3>2, Zenon DEF APaddleHits
    <2> DEFINE e == (ballY - y) \div 8
    <2>3. /\ e \in -5..5
          /\ ballY <= 30 => e < 0
          /\ ballY >= 451 => e > 0
      BY <1>1, <2>2, SpinNearAnEdge
    <2>4. YSpeed' = e
      <3> HIDE DEF e
      <3>1. yMotion' = W10(e)
        BY <2>2, Zenon DEF Spin, e
      <3> QED BY <2>3, <3>1, StoredSpeed
    <2>5. tedge' = 0 /\ bedge' = 0
      BY <1>4, Zenon DEF Play, APaddleHits, EdgeCount
    <2> QED BY <1>2, <1>4, <2>3, <2>4, <2>5
  <1>5. CASE ~APaddleHits(h)
    <2>1. /\ bedge' = EdgeCount(bedge, BounceBottom, FALSE)
          /\ tedge' = EdgeCount(tedge, BounceTop, FALSE)
      BY <1>5, Zenon DEF Play, EdgeCount, APaddleHits
    <2>2. yMotion' = IF BounceBottom \/ BounceTop THEN W10(-yMotion) ELSE yMotion
      BY <1>5, Zenon DEF Play, YMotionAfter, APaddleHits
    <2>3. /\ BounceBottom <=> ballY >= 456 /\ bedge = 0
          /\ BounceTop <=> ballY <= 25 /\ tedge = 0
      BY <1>1, <1>3 DEF BounceBottom, BounceTop
    <2>4. tedge \in 0..63 /\ bedge \in 0..63
      BY DEF BallTypeOK, LockCount
    <2>5. /\ tedge' = IF tedge > 0 THEN IF tedge = 63 THEN 0 ELSE tedge + 1
                      ELSE IF ballY <= 25 THEN 1 ELSE 0
          /\ bedge' = IF bedge > 0 THEN IF bedge = 63 THEN 0 ELSE bedge + 1
                      ELSE IF ballY >= 456 THEN 1 ELSE 0
      BY <2>1, <2>3, <2>4 DEF EdgeCount
    <2>6. CASE BounceBottom \/ BounceTop
      <3>1. -YSpeed \in -5..5 /\ W10(-yMotion) = W10(-YSpeed)
        <4>1. yMotion = YSpeed \/ yMotion = YSpeed + 1024
          BY MotionOfSpeed
        <4> QED BY <1>1, <4>1 DEF W10
      <3>2. yMotion' = W10(-YSpeed)
        BY <2>2, <2>6, <3>1
      <3>3. YSpeed' = -YSpeed
        BY <3>1, <3>2, StoredSpeed
      <3> QED BY <1>1, <1>2, <1>5, <2>3, <2>5, <2>6, <3>3
    <2>7. CASE ~BounceBottom /\ ~BounceTop
      <3>1. YSpeed' = YSpeed
        BY <2>2, <2>7 DEF YSpeed
      <3> QED BY <1>1, <1>2, <1>5, <2>3, <2>5, <2>7, <3>1
    <2> QED BY <2>6, <2>7
  <1> QED BY <1>4, <1>5


(* The columns at a hit, with the debugging keys away: a frame of play adds *)
(* one hit to the row of hits, and the paddle is not behind the ball.      *)
LEMMA HitColumns ==
  ASSUME NoDebugKeys, BallTypeOK, TrackInv, InRally,
         NEW key \in KeyCodes, NEW h \in PaddleHeights, Play(key, h), APaddleHits(h)
  PROVE  /\ Hits' >= Hits + 1
         /\ \A l \in LockCount : Hits' >= HitsBeforeBounce(l) + 1
  <1>1. /\ \/ MovesRight /\ ballX \in 47..607
           \/ MovesLeft /\ ballX \in 19..565
        /\ ledge = 0 /\ redge = 0
        /\ ballX \in {5 + 7 * k : k \in 1..87}
    BY DEF TrackInv, Track
  <1>2. ~(MovesRight /\ MovesLeft)
    BY LeftIs1017 DEF MovesRight, MovesLeft, BallXStep
  <1>3. /\ AtRight <=> ballX >= 591
        /\ AtLeft <=> ballX <= 38
        /\ Hit1(h[1]) => ballX \in 53..67
        /\ Hit2(h[2]) => ballX = 558
    BY <1>1, Columns
  <1>4. /\ MovesRight => ballX' = ballX + 7
        /\ MovesLeft => ballX' = ballX - 7
    BY <1>1, NextColumn
  <1>5. ~MissRight /\ ~MissLeft
    BY <1>1, <1>3 DEF APaddleHits, MissRight, MissLeft
  <1>6. ~(MovesRight' /\ MovesLeft')
    BY LeftIs1017 DEF MovesRight, MovesLeft, BallXStep
  <1>7. CASE Hit2(h[2])
    <2>1. ballX = 558 /\ MovesLeft'
      BY <1>3, <1>5, <1>7, MotionOfAFrame
    <2>2. \A l \in LockCount : HitsBeforeBounce(l) = IF MovesLeft THEN 1 ELSE 0
      BY <1>2, <2>1 DEF HitsBeforeBounce, LockCount
    <2> QED BY <1>1, <1>2, <1>4, <1>6, <2>1, <2>2 DEF Hits
  <1>8. CASE ~Hit2(h[2]) /\ Hit1(h[1])
    <2>1. MovesRight' /\ ballX \in 53..67
      BY <1>3, <1>5, <1>8, MotionOfAFrame
    <2>2. ballX = 54 \/ ballX = 61
      BY <1>1, <2>1
    <2>3. \A l \in LockCount : HitsBeforeBounce(l) = IF MovesRight THEN 1 ELSE 0
      BY <1>2, <2>2 DEF HitsBeforeBounce, LockCount
    <2> QED BY <1>1, <1>2, <1>4, <1>6, <2>1, <2>2, <2>3 DEF Hits
  <1> QED BY <1>7, <1>8 DEF APaddleHits

(* ... and in a frame without a hit the hits are remembered, by a lock     *)
(* that starts and by one that runs.                                       *)
LEMMA FreeColumns ==
  ASSUME NoDebugKeys, BallTypeOK, TrackInv, InRally,
         NEW key \in KeyCodes, NEW h \in PaddleHeights, Play(key, h), ~APaddleHits(h)
  PROVE  /\ HitsBeforeBounce(1)' >= Hits
         /\ \A l \in 1..62 : HitsBeforeBounce(l + 1)' >= HitsBeforeBounce(l)
  <1>1. /\ \/ MovesRight /\ ballX \in 47..607
           \/ MovesLeft /\ ballX \in 19..565
        /\ ledge = 0 /\ redge = 0
    BY DEF TrackInv
  <1>2. ~(MovesRight /\ MovesLeft)
    BY LeftIs1017 DEF MovesRight, MovesLeft, BallXStep
  <1>3. /\ AtRight <=> ballX >= 591
        /\ AtLeft <=> ballX <= 38
    BY <1>1, Columns
  <1>4. /\ MovesRight => ballX' = ballX + 7
        /\ MovesLeft => ballX' = ballX - 7
    BY <1>1, NextColumn
  <1>5. CASE MissRight \/ MissLeft
    <2>1. ballX >= 591 \/ ballX <= 38
      BY <1>3, <1>5 DEF MissRight, MissLeft
    <2>2. Hits = 0
      BY <1>1, <2>1 DEF Hits
    <2>3. HitsBeforeBounce(1)' >= 0
      BY DEF HitsBeforeBounce
    <2>4. ASSUME NEW l \in 1..62
          PROVE  HitsBeforeBounce(l) = 0 /\ HitsBeforeBounce(l + 1)' >= 0
      BY <1>1, <2>1 DEF HitsBeforeBounce
    <2> QED BY <2>2, <2>3, <2>4
  <1>6. CASE ~MissRight /\ ~MissLeft
    <2>1. /\ MovesRight' <=> MovesRight
          /\ MovesLeft' <=> MovesLeft
      BY <1>6, MotionOfAFrame DEF APaddleHits, MovesRight, MovesLeft
    <2>2. HitsBeforeBounce(1)' >= Hits
      BY <1>1, <1>2, <1>4, <2>1 DEF Hits, HitsBeforeBounce
    <2>3. ASSUME NEW l \in 1..62
          PROVE  HitsBeforeBounce(l + 1)' >= HitsBeforeBounce(l)
      BY <1>1, <1>2, <1>4, <2>1 DEF HitsBeforeBounce
    <2> QED BY <2>2, <2>3
  <1> QED BY <1>5, <1>6

(* One frame at one edge: the row counted from it, its lock and the speed  *)
(* away from it, before and after.                                         *)
EdgeFrame(h, d, lock, s, d2, lock2, s2) ==
  /\ d2 = d + s
  /\ APaddleHits(h) => lock2 = 0 /\ (d <= 30 => s2 < 0)
  /\ ~APaddleHits(h) =>
       /\ lock2 = IF lock > 0 THEN IF lock = 63 THEN 0 ELSE lock + 1
                  ELSE IF d <= 25 THEN 1 ELSE 0
       /\ lock = 0 /\ d <= 25 => s2 = -s
       /\ ~(lock = 0 /\ d <= 25) /\ d < 456 => s2 = s

(* What the four kinds of frame, in numbers, do to the row at an edge: a   *)
(* hit, a bounce, a frame of an armed ball and a frame of a locked one.    *)
LEMMA EdgeHit ==
  ASSUME NEW d \in Int, NEW lock \in 0..63, NEW s \in -5..5,
         NEW hits \in 0..3, NEW before \in 0..3,
         NEW s2 \in -5..5, NEW hits2 \in 0..3, NEW before2 \in 0..3,
         EdgeInv(d, lock, s, hits, before),
         d <= 30 => s2 < 0, hits2 >= hits + 1, hits2 >= before + 1
  PROVE  EdgeInv(d + s, 0, s2, hits2, before2)
  BY DEF EdgeInv

LEMMA EdgeBounce ==
  ASSUME NEW d \in Int, NEW s \in -5..5, NEW hits \in 0..3, NEW before \in 0..3,
         NEW s2 \in -5..5, NEW hits2 \in 0..3, NEW before2 \in 0..3,
         EdgeInv(d, 0, s, hits, before),
         d <= 25, s2 = -s, before2 >= hits
  PROVE  EdgeInv(d + s, 1, s2, hits2, before2)
  BY DEF EdgeInv

LEMMA EdgeArmed ==
  ASSUME NEW d \in Int, NEW s \in -5..5, NEW hits \in 0..3, NEW before \in 0..3,
         NEW s2 \in -5..5, NEW hits2 \in 0..3, NEW before2 \in 0..3,
         EdgeInv(d, 0, s, hits, before),
         d > 25, d < 456 => s2 = s
  PROVE  EdgeInv(d + s, 0, s2, hits2, before2)
  BY DEF EdgeInv

LEMMA EdgeLocked ==
  ASSUME NEW d \in Int, NEW lock \in 1..63, NEW s \in -5..5,
         NEW hits \in 0..3, NEW before \in 0..3,
         NEW s2 \in -5..5, NEW hits2 \in 0..3, NEW before2 \in 0..3,
         EdgeInv(d, lock, s, hits, before),
         d < 456 => s2 = s, lock < 63 => before2 >= before
  PROVE  EdgeInv(d + s, IF lock = 63 THEN 0 ELSE lock + 1, s2, hits2, before2)
  BY DEF EdgeInv

(* The hits a lock, as it is after the frame, remembers.                   *)
Remembers(lock2, before2) ==
  \A l \in LockCount : lock2 = l => before2 = HitsBeforeBounce(l)'

LEMMA EdgeStep ==
  ASSUME NoDebugKeys, BallTypeOK, TrackInv, InRally,
         NEW key \in KeyCodes, NEW h \in PaddleHeights, Play(key, h)
  PROVE  \A d, d2 \in Int, lock, lock2 \in LockCount, s, s2 \in -5..5, before2 \in 0..3 :
           /\ EdgeInv(d, lock, s, Hits, HitsBeforeBounce(lock))
           /\ EdgeFrame(h, d, lock, s, d2, lock2, s2)
           /\ Remembers(lock2, before2)
           => EdgeInv(d2, lock2, s2, Hits', before2)
  <1> TAKE d, d2 \in Int, lock, lock2 \in LockCount, s, s2 \in -5..5, before2 \in 0..3
  <1> HAVE /\ EdgeInv(d, lock, s, Hits, HitsBeforeBounce(lock))
           /\ EdgeFrame(h, d, lock, s, d2, lock2, s2)
           /\ Remembers(lock2, before2)
  <1> PICK hits2 \in 0..3 : hits2 = Hits'
    BY DEF Hits
  <1> SUFFICES EdgeInv(d2, lock2, s2, hits2, before2)
    OBVIOUS
  <1>1. PICK hits \in 0..3, before \in 0..3 : hits = Hits /\ before = HitsBeforeBounce(lock)
    <2>1. Hits \in 0..3
      BY HitsInRange
    <2>2. HitsBeforeBounce(lock) \in 0..3
      BY HitsInRange
    <2> QED BY <2>1, <2>2, Zenon
  <1>2. EdgeInv(d, lock, s, hits, before)
    BY <1>1
  <1>3. lock \in 0..63 /\ lock2 \in 0..63
    BY ZenonT(60) DEF LockCount
  <1>4. CASE APaddleHits(h)
    <2>1. hits2 >= hits + 1 /\ hits2 >= before + 1
      BY <1>1, <1>4, HitColumns
    <2>2. lock2 = 0 /\ (d <= 30 => s2 < 0) /\ d2 = d + s
      BY <1>4 DEF EdgeFrame
    <2> QED BY <1>2, <1>3, <2>1, <2>2, EdgeHit
  <1>5. CASE ~APaddleHits(h) /\ lock = 0 /\ d <= 25
    <2>1. lock2 = 1 /\ s2 = -s /\ d2 = d + s
      BY <1>5 DEF EdgeFrame
    <2>2. before2 >= hits
      <3>1. before2 = HitsBeforeBounce(1)'
        <4>1. 1 \in LockCount
          BY SMTT(30) DEF LockCount
        <4> QED BY <2>1, <4>1, Zenon DEF Remembers
      <3>2. HitsBeforeBounce(1)' >= Hits
        BY <1>5, FreeColumns, Zenon
      <3> QED BY <1>1, <3>1, <3>2
    <2> QED BY <1>2, <1>5, <2>1, <2>2, EdgeBounce
  <1>6. CASE ~APaddleHits(h) /\ lock = 0 /\ d > 25
    <2>1. lock2 = 0 /\ d2 = d + s /\ (d < 456 => s2 = s)
      BY <1>6 DEF EdgeFrame
    <2> QED BY <1>2, <1>6, <2>1, EdgeArmed
  <1>7. CASE ~APaddleHits(h) /\ lock > 0
    <2>1. lock2 = (IF lock = 63 THEN 0 ELSE lock + 1) /\ d2 = d + s /\ (d < 456 => s2 = s)
      BY <1>7 DEF EdgeFrame
    <2>2. lock < 63 => before2 >= before
      <3> SUFFICES ASSUME lock < 63 PROVE before2 >= before
        OBVIOUS
      <3>1. lock \in 1..62 /\ lock + 1 \in LockCount /\ lock2 = lock + 1
        BY <1>3, <1>7, <2>1 DEF LockCount
      <3>2. before2 = HitsBeforeBounce(lock + 1)'
        BY <3>1 DEF Remembers
      <3>3. HitsBeforeBounce(lock + 1)' >= HitsBeforeBounce(lock)
        BY <1>7, <3>1, FreeColumns
      <3> QED BY <1>1, <3>2, <3>3
    <2>3. lock \in 1..63
      BY <1>3, <1>7, SMTT(30)
    <2>4. EdgeInv(d + s, IF lock = 63 THEN 0 ELSE lock + 1, s2, hits2, before2)
      BY <1>2, <2>1, <2>2, <2>3, EdgeLocked
    <2> QED BY <2>1, <2>4
  <1> QED BY <1>3, <1>4, <1>5, <1>6, <1>7

(* A frame of a rally keeps the rows.                                      *)
LEMMA RowPlay ==
  ASSUME NoDebugKeys, HeightsInReach, BallTypeOK, BallTypeOK', TrackInv, RowInv, InRally,
         NEW key \in KeyCodes, NEW h \in PaddleHeights, Play(key, h)
  PROVE  RowInv'
  <1>0. \A d, d2 \in Int, lock, lock2 \in LockCount, s, s2 \in -5..5, before2 \in 0..3 :
          /\ EdgeInv(d, lock, s, Hits, HitsBeforeBounce(lock))
          /\ EdgeFrame(h, d, lock, s, d2, lock2, s2)
          /\ Remembers(lock2, before2)
          => EdgeInv(d2, lock2, s2, Hits', before2)
    BY EdgeStep
  <1>1. PICK y \in 1..480, s \in -5..5, t \in LockCount, b \in LockCount :
          y = ballY /\ s = YSpeed /\ t = tedge /\ b = bedge
    BY RowRange DEF BallTypeOK
  <1>2. PICK y2 \in Int, s2 \in -5..5, t2 \in LockCount, b2 \in LockCount :
          y2 = ballY' /\ s2 = YSpeed' /\ t2 = tedge' /\ b2 = bedge'
    <2>1. ballY' \in Int /\ tedge' \in LockCount /\ bedge' \in LockCount
      BY SMTT(30) DEF BallTypeOK, Word
    <2>2. YSpeed' \in -5..5
      BY RowOfAFrame, SMTT(30)
    <2> QED BY <2>1, <2>2
  <1>3. PICK hits2 \in 0..3, top2 \in 0..3, bottom2 \in 0..3 :
          /\ hits2 = Hits'
          /\ top2 = HitsBeforeBounce(tedge)'
          /\ bottom2 = HitsBeforeBounce(bedge)'
    <2>1. Hits' \in 0..3
      BY DEF Hits
    <2>2. HitsBeforeBounce(tedge)' \in 0..3
      BY DEF HitsBeforeBounce
    <2>3. HitsBeforeBounce(bedge)' \in 0..3
      BY DEF HitsBeforeBounce
    <2> QED BY <2>1, <2>2, <2>3, Zenon
  <1>4. Remembers(t2, top2) /\ Remembers(b2, bottom2)
    BY <1>2, <1>3 DEF HitsBeforeBounce, Remembers
  <1>5. /\ EdgeInv(y, t, s, Hits, HitsBeforeBounce(t))
        /\ EdgeInv(481 - y, b, 0 - s, Hits, HitsBeforeBounce(b))
    <2>1. FromBottom = 481 - y
      BY <1>1 DEF FromBottom, BallYMin, BallYMax
    <2> QED BY <1>1, <2>1 DEF RowInv
  <1>6. /\ y2 = y + s
        /\ APaddleHits(h) => /\ t2 = 0 /\ b2 = 0
                             /\ y <= 30 => s2 < 0
                             /\ y >= 451 => s2 > 0
        /\ ~APaddleHits(h) =>
             /\ t2 = IF t > 0 THEN IF t = 63 THEN 0 ELSE t + 1
                     ELSE IF y <= 25 THEN 1 ELSE 0
             /\ b2 = IF b > 0 THEN IF b = 63 THEN 0 ELSE b + 1
                     ELSE IF y >= 456 THEN 1 ELSE 0
             /\ s2 = IF (t = 0 /\ y <= 25) \/ (b = 0 /\ y >= 456) THEN -s ELSE s
    BY <1>1, <1>2, RowOfAFrame
  <1>7. EdgeInv(y2, t2, s2, hits2, top2)
    <2>1. EdgeFrame(h, y, t, s, y2, t2, s2)
      BY <1>6 DEF EdgeFrame
    <2>2. y \in Int
      OBVIOUS
    <2>3. EdgeInv(y2, t2, s2, Hits', top2)
      BY <1>0, <1>4, <1>5, <2>1, <2>2, ZenonT(60)
    <2> QED BY <1>3, <2>3
  <1>8. EdgeInv(481 - y2, b2, 0 - s2, hits2, bottom2)
    <2>1. PICK d \in Int, d2 \in Int : d = 481 - y /\ d2 = 481 - y2
      OBVIOUS
    <2>2. PICK r \in -5..5, r2 \in -5..5 : r = 0 - s /\ r2 = 0 - s2
      <3>1. 0 - s \in -5..5 /\ 0 - s2 \in -5..5
        OBVIOUS
      <3> QED BY <3>1, Zenon
    <2>3. EdgeFrame(h, d, b, r, d2, b2, r2)
      BY <1>6, <2>1, <2>2 DEF EdgeFrame
    <2>4. EdgeInv(d, b, r, Hits, HitsBeforeBounce(b))
      BY <1>5, <2>1, <2>2
    <2>5. EdgeInv(d2, b2, r2, Hits', bottom2)
      BY <1>0, <1>4, <2>3, <2>4, Zenon
    <2> QED BY <1>3, <2>1, <2>2, <2>5
  <1>9. ~newGame'
    BY Zenon DEF Play, InRally
  <1>10. FromBottom' = 481 - y2
    BY <1>2 DEF FromBottom, BallYMin, BallYMax
  <1>11. YSpeed' \in -5..5
    BY <1>2
  <1> QED BY <1>2, <1>3, <1>7, <1>8, <1>9, <1>10, <1>11 DEF RowInv

(* The ball at the centre, at rest in the vertical, with the locks off.    *)
LEMMA RowsAtTheCentre ==
  ASSUME ballY' = BallYCenter, yMotion' = 0, tedge' = 0, bedge' = 0
  PROVE  RowInv'
  <1>1. YSpeed' = 0 /\ FromBottom' = 241 /\ ballY' = 240
    BY DEF YSpeed, FromBottom, BallYCenter, BallYMin, BallYMax
  <1>2. PICK hits2 \in 0..3, before2 \in 0..3 :
          hits2 = Hits' /\ before2 = HitsBeforeBounce(0)'
    BY DEF Hits, HitsBeforeBounce
  <1>3. HitsBeforeBounce(tedge)' = before2 /\ HitsBeforeBounce(bedge)' = before2
    BY <1>2 DEF HitsBeforeBounce
  <1>4. EdgeInv(240, 0, 0, hits2, before2) /\ EdgeInv(241, 0, 0 - 0, hits2, before2)
    BY DEF EdgeInv
  <1>5. YSpeed' \in -5..5
    BY <1>1
  <1> QED BY <1>1, <1>2, <1>3, <1>4, <1>5 DEF RowInv

(* On the title screen the ball does not move.                             *)
LEMMA RowTitle ==
  ASSUME BallTypeOK, RulesInv, RowInv, newGame,
         NEW key \in KeyCodes, NEW h \in PaddleHeights, Play(key, h)
  PROVE  RowInv'
  <1>1. ballX = BallXCenter /\ ballY = 240 /\ yMotion = 0 /\ tedge = 0 /\ bedge = 0
    BY DEF RulesInv, RowInv, BallYCenter
  <1>2. ~Hit1(h[1]) /\ ~Hit2(h[2])
    BY <1>1, CentreIsQuiet
  <1>3. ~AtTop /\ ~AtBottom
    BY <1>1, Rows
  <1>4. ballY' = 240
    <2>1. W10(ballY + yMotion) = 240
      BY <1>1, W10Fits
    <2> QED BY <2>1 DEF Play
  <1>5. yMotion' = 0 /\ tedge' = 0 /\ bedge' = 0
    BY <1>1, <1>2, <1>3 DEF Play, YMotionAfter, EdgeCount, BounceBottom, BounceTop
  <1> QED BY <1>4, <1>5, RowsAtTheCentre DEF BallYCenter

LEMMA RowBegin == BallInit => RowInv
  <1> SUFFICES ASSUME BallInit PROVE RowInv
    OBVIOUS
  <1>1. YSpeed = 0 /\ FromBottom = 241 /\ ballY = 240 /\ tedge = 0 /\ bedge = 0
    BY DEF BallInit, YSpeed, FromBottom, BallYCenter, BallYMin, BallYMax
  <1>2. PICK hits \in 0..3, before \in 0..3 : hits = Hits /\ before = HitsBeforeBounce(0)
    BY DEF Hits, HitsBeforeBounce
  <1>3. EdgeInv(240, 0, 0, hits, before) /\ EdgeInv(241, 0, 0 - 0, hits, before)
    BY DEF EdgeInv
  <1>4. ballY = BallYCenter /\ yMotion = 0
    BY DEF BallInit
  <1> QED BY <1>1, <1>2, <1>3, <1>4 DEF RowInv

LEMMA RowStep ==
  ASSUME NoDebugKeys, HeightsInReach, BallTypeOK, BallTypeOK', RulesInv, TrackInv, RowInv,
         [BallNext]_ballVars
  PROVE  RowInv'
  <1>1. CASE BallReset
    BY <1>1, RowsAtTheCentre DEF BallReset, Recentre
  <1>2. ASSUME NEW key \in KeyCodes, NEW h \in PaddleHeights, BallFrame(key, h)
        PROVE  RowInv'
    <2>1. CASE EndScreen(key)
      BY <2>1, RowsAtTheCentre DEF EndScreen, Recentre
    <2>2. CASE Serve
      BY <2>2, RowsAtTheCentre DEF Serve, Recentre
    <2>3. CASE Play(key, h) /\ newGame
      BY <2>3, RowTitle
    <2>4. CASE Play(key, h) /\ ~newGame
      <3>1. InRally
        BY <2>4 DEF Play, InRally
      <3> QED BY <2>4, <3>1, RowPlay
    <2> QED BY <1>2, <2>1, <2>2, <2>3, <2>4 DEF BallFrame
  <1>3. CASE UNCHANGED ballVars
    BY <1>3 DEF ballVars, motionVars, edgeVars, matchVars, RowInv, YSpeed, FromBottom,
                Hits, HitsBeforeBounce, MovesRight, MovesLeft
  <1> QED BY <1>1, <1>2, <1>3 DEF BallNext, Frame

(* The lock of an edge runs for a ball that leaves it.                     *)
LEMMA LockedMovesInward ==
  ASSUME BallTypeOK, RowInv
  PROVE  BouncesTurnInward
  <1>1. YSpeed \in -5..5 /\ yMotion \in 0..1023 /\ tedge \in 0..63 /\ bedge \in 0..63
    BY DEF RowInv, BallTypeOK, Word, LockCount
  <1>2. (tedge > 0 => YSpeed >= 0) /\ (bedge > 0 => 0 - YSpeed >= 0)
    BY DEF RowInv, EdgeInv
  <1> QED BY <1>1, <1>2 DEF BouncesTurnInward, YSpeed

(* From a row and a column of the screen a frame moves to another one.     *)
LEMMA NoWrapStep ==
  ASSUME HeightsInReach, BallTypeOK, TrackInv, RowInv, [BallNext]_ballVars, InRally, InRally'
  PROVE  ballX' - ballX \in -7..7 /\ ballY' - ballY \in -5..5
  <1>1. ~BallReset
    BY DEF BallReset, InRally
  <1>2. ballX \in 19..607 /\ (MovesRight \/ MovesLeft) /\ ballY \in 1..480
    BY RowRange DEF TrackInv
  <1>3. ASSUME NEW key \in KeyCodes, NEW h \in PaddleHeights, BallFrame(key, h)
        PROVE  ballX' - ballX \in -7..7 /\ ballY' - ballY \in -5..5
    <2>1. Play(key, h)
      BY <1>3 DEF BallFrame, EndScreen, Serve, InRally
    <2>2. ballX' = ballX + 7 \/ ballX' = ballX - 7
      BY <1>2, <2>1, NextColumn
    <2>3. ballY' = ballY + YSpeed /\ YSpeed \in -5..5
      BY <2>1, RowOfAFrame, RowRange
    <2> QED BY <1>2, <2>2, <2>3
  <1>4. CASE UNCHANGED ballVars
    <2>1. ballX' = ballX /\ ballY' = ballY
      BY <1>4 DEF ballVars, motionVars
    <2> QED BY <1>2, <2>1
  <1> QED BY <1>1, <1>3, <1>4 DEF BallNext, Frame

(* A ball that comes to a face is at most 5 rows beyond the edges of the   *)
(* court, and the outermost positions of a paddle reach that far.          *)
LEMMA SomePaddleOverlaps ==
  ASSUME ballY \in 16..465
  PROVE  \E y \in PaddleReach : Overlaps(y)
  <1>1. PICK k \in 8..73 : ballY - 6 * k \in -40..40
    <2>1. CASE ballY <= 88
      <3>1. 8 \in 8..73 /\ ballY - 6 * 8 \in -40..40
        BY <2>1
      <3> QED BY <3>1
    <2>2. CASE ballY >= 398
      <3>1. 73 \in 8..73 /\ ballY - 6 * 73 \in -40..40
        BY <2>2
      <3> QED BY <3>1
    <2>3. CASE ballY > 88 /\ ballY < 398
      <3>1. ballY \div 6 \in 8..73 /\ ballY - 6 * (ballY \div 6) \in -40..40
        BY <2>3
      <3> QED BY <3>1
    <2> QED BY <2>1, <2>2, <2>3
  <1>2. 6 * k \in PaddleReach
    BY DEF PaddleReach
  <1>3. Overlaps(6 * k)
    BY <1>1 DEF Overlaps, UnsignedLe, MaxHeight, MinHeight, PaddleLength, BallSize
  <1> QED BY <1>2, <1>3

LEMMA RowsAreReturnable ==
  ASSUME BallTypeOK, TrackInv, RowInv
  PROVE  AlwaysReturnable
  <1>1. ASSUME InRally, \/ ballX = 558 /\ MovesRight
                        \/ ballX = 61 /\ MovesLeft
        PROVE  \E y \in PaddleReach : Overlaps(y)
    <2>1. ~(MovesRight /\ MovesLeft)
      BY LeftIs1017 DEF MovesRight, MovesLeft, BallXStep
    <2>2. Hits = 0 /\ \A l \in LockCount : HitsBeforeBounce(l) = 0
      <3>1. Hits = 0
        BY <1>1, <2>1 DEF Hits
      <3>2. ASSUME NEW l \in 0..63 PROVE HitsBeforeBounce(l) = 0
        <4>1. CASE ballX = 558 /\ MovesRight
          BY <2>1, <4>1 DEF HitsBeforeBounce
        <4>2. CASE ballX = 61 /\ MovesLeft
          BY <2>1, <4>2 DEF HitsBeforeBounce
        <4> QED BY <1>1, <4>1, <4>2
      <3> QED BY <3>1, <3>2 DEF LockCount
    <2>3. tedge \in LockCount /\ bedge \in LockCount /\ ballY \in 1..480
      BY RowRange DEF BallTypeOK
    <2>4. tedge \in 0..63 /\ bedge \in 0..63
      BY <2>3 DEF LockCount
    <2>5. EdgeInv(ballY, tedge, YSpeed, 0, 0) /\ EdgeInv(481 - ballY, bedge, 0 - YSpeed, 0, 0)
      <3>1. FromBottom = 481 - ballY
        BY <2>3 DEF FromBottom, BallYMin, BallYMax
      <3> QED BY <2>2, <2>3, <3>1 DEF RowInv
    <2>6. ballY >= 16 /\ 481 - ballY >= 16
      BY <2>3, <2>4, <2>5 DEF EdgeInv
    <2>7. ballY \in 16..465
      BY <2>3, <2>6
    <2> QED BY <2>7, SomePaddleOverlaps
  <1>2. ASSUME NEW y, Overlaps(y), ballX = 558 PROVE Hit2(y)
    BY <1>2 DEF Hit2, UnsignedLe, MinWidth, PaddleX, PaddleWidth, BallSize
  <1>3. ASSUME NEW y, Overlaps(y), ballX = 61 PROVE Hit1(y)
    BY <1>3 DEF Hit1, UnsignedLe, MinWidth, MaxWidth, PaddleX, PaddleWidth, BallSize
  <1> QED BY <1>1, <1>2, <1>3 DEF AlwaysReturnable

LEMMA RowsHold == NoDebugKeys /\ HeightsInReach /\ BallSpec => [](BallTypeOK /\ TrackInv /\ RowInv)
  <1> SUFFICES ASSUME NoDebugKeys, HeightsInReach
               PROVE  BallSpec => [](BallTypeOK /\ TrackInv /\ RowInv)
    OBVIOUS
  <1>1. BallTypeOK /\ TrackInv /\ [BallNext]_ballVars => TrackInv'
    BY TrackStep
  <1>2. /\ BallTypeOK /\ BallTypeOK' /\ RulesInv /\ TrackInv /\ RowInv
        /\ [BallNext]_ballVars
        => RowInv'
    BY RowStep
  <1> QED BY BallTypeInit, BallTypeStep, RulesInvInit, RulesStep, TrackBegin, RowBegin,
             <1>1, <1>2, PTL DEF BallSpec

(* With the debugging keys away and the paddles where paddle.sv keeps      *)
(* them: while the lock of an edge runs, the ball moves away from it       *)
(* (ball.sv:120-130, 149-165).                                             *)
THEOREM LocksTurnTheBallInward ==
  NoDebugKeys /\ HeightsInReach /\ BallSpec => []BouncesTurnInward
  BY RowsHold, LockedMovesInward, PTL

(* ... no frame of a rally takes the ball round an edge of the screen,     *)
(* though nothing clips its registers (ball.sv:192-198, 236-237).          *)
THEOREM BallNeverWrapsRound ==
  NoDebugKeys /\ HeightsInReach /\ BallSpec => NeverWrapsRound
  <1> SUFFICES ASSUME NoDebugKeys, HeightsInReach PROVE BallSpec => NeverWrapsRound
    OBVIOUS
  <1>1. BallTypeOK /\ TrackInv /\ RowInv /\ [BallNext]_ballVars
          => [InRally /\ InRally' => /\ ballX' - ballX \in -7..7
                                    /\ ballY' - ballY \in -5..5]_ballVars
    BY NoWrapStep
  <1> QED BY RowsHold, <1>1, PTL DEF BallSpec, NeverWrapsRound

(* ... and no ball is lost for good: wherever it comes to the face of a    *)
(* paddle, a position of the paddle returns it (ball.sv:187-190, 211-214). *)
THEOREM EveryBallIsReturnable ==
  NoDebugKeys /\ HeightsInReach /\ BallSpec => []AlwaysReturnable
  BY RowsHold, RowsAreReturnable, PTL

(***************************************************************************)
(* The picture                                                             *)
(***************************************************************************)

(* How far beyond the lower edge of the court the ball gets: a hit sends   *)
(* it there at speed 5 only from a row that is 4 modulo 6, for the paddle  *)
(* is at a multiple of 6, so of the hits the ball may have in a row no two *)
(* that follow one another do. A bounce leaves it in the last row of the   *)
(* screen at worst, which is 2 rows short of BallYMin + BallYMax.          *)
FloorInv ==
  /\ bedge > 0 => FromBottom >= 2
  /\ bedge = 0 /\ MovesRight /\ ballX = 61 => FromBottom - YSpeed >= 7
  /\ bedge = 0 /\ MovesRight /\ ballX = 68 => FromBottom >= 7

(* A hit sends the ball down at speed 5 only from such a row.              *)
LEMMA RowOfASteepHit ==
  ASSUME HeightsInReach, BallTypeOK, RowInv,
         NEW key \in KeyCodes, NEW h \in PaddleHeights, Play(key, h), APaddleHits(h),
         YSpeed' = 5
  PROVE  ballY % 6 = 4
  <1>1. h[1] \in PaddleReach /\ h[2] \in PaddleReach
    BY DEF HeightsInReach
  <1>2. PICK y \in PaddleReach : Overlaps(y) /\ yMotion' = Spin(y)
    <2>1. CASE Hit2(h[2])
      BY <1>1, <2>1, Zenon DEF Play, YMotionAfter, Hit2
    <2>2. CASE ~Hit2(h[2]) /\ Hit1(h[1])
      BY <1>1, <2>2, Zenon DEF Play, YMotionAfter, Hit1
    <2> QED BY <2>1, <2>2, Zenon DEF APaddleHits
  <1>3. PICK k \in 8..73 : y = 6 * k
    BY DEF PaddleReach
  <1>4. ballY \in 1..480
    BY RowRange
  <1>5. ballY - y \in -40..40
    BY <1>2, <1>3, <1>4 DEF Overlaps, UnsignedLe, MaxHeight, MinHeight, PaddleLength, BallSize
  <1>6. (ballY - y) \div 8 = 5
    <2>1. PICK e \in -5..5 : e = (ballY - y) \div 8
      BY <1>2, <1>4, SpinNearAnEdge
    <2>2. yMotion' = W10(e)
      BY <1>2, <2>1, Zenon DEF Spin
    <2> QED BY <2>1, <2>2, StoredSpeed
  <1> QED BY <1>3, <1>4, <1>5, <1>6

(* The way to the two columns behind the left paddle.                      *)
LEMMA BehindTheLeftPaddle ==
  ASSUME NoDebugKeys, BallTypeOK, TrackInv, InRally,
         NEW key \in KeyCodes, NEW h \in PaddleHeights, Play(key, h),
         MovesRight', ballX' \in {61, 68}
  PROVE  MovesRight /\ ballX = ballX' - 7
  <1>1. \/ MovesRight /\ ballX \in 47..607 /\ ballX' = ballX + 7
        \/ MovesLeft /\ ballX \in 19..565 /\ ballX' = ballX - 7
    <2>1. \/ MovesRight /\ ballX \in 47..607
          \/ MovesLeft /\ ballX \in 19..565
      BY DEF TrackInv
    <2> QED BY <2>1, NextColumn
  <1>2. CASE MovesLeft /\ ballX \in 68..75
    <2>1. ~MissRight /\ ~MissLeft /\ ~Hit1(h[1]) /\ ~Hit2(h[2])
      BY <1>2, Columns DEF MissRight, MissLeft
    <2>2. xMotion' = xMotion
      BY <2>1, MotionOfAFrame
    <2> QED BY <1>2, <2>2, LeftIs1017 DEF MovesRight, MovesLeft, BallXStep
  <1> QED BY <1>1, <1>2

LEMMA FloorPlay ==
  ASSUME NoDebugKeys, HeightsInReach, BallTypeOK, BallTypeOK', TrackInv, RowInv, FloorInv,
         InRally, NEW key \in KeyCodes, NEW h \in PaddleHeights, Play(key, h)
  PROVE  FloorInv'
  <1>1. PICK y \in 1..480, v \in -5..5, b \in 0..63 : y = ballY /\ v = YSpeed /\ b = bedge
    <2>1. bedge \in 0..63
      BY DEF BallTypeOK, LockCount
    <2> QED BY <2>1, RowRange, Zenon
  <1>2. PICK y2 \in Int, v2 \in -5..5, b2 \in 0..63 :
          y2 = ballY' /\ v2 = YSpeed' /\ b2 = bedge'
    <2>1. ballY' \in Int /\ bedge' \in 0..63
      BY DEF BallTypeOK, Word, LockCount
    <2>2. YSpeed' \in -5..5
      BY RowOfAFrame
    <2> QED BY <2>1, <2>2, Zenon
  <1>3. PICK d \in 1..480, s \in -5..5 : d = 481 - y /\ s = 0 - v
    <2>1. 481 - y \in 1..480 /\ 0 - v \in -5..5
      OBVIOUS
    <2> QED BY <2>1, Zenon
  <1>4. PICK d2 \in Int, s2 \in -5..5 : d2 = 481 - y2 /\ s2 = 0 - v2
    <2>1. 481 - y2 \in Int /\ 0 - v2 \in -5..5
      OBVIOUS
    <2> QED BY <2>1, Zenon
  <1>5. /\ FromBottom = d /\ FromBottom' = d2
        /\ YSpeed = 0 - s /\ YSpeed' = 0 - s2
    <2>1. FromBottom = d /\ FromBottom' = d2
      BY <1>1, <1>2, <1>3, <1>4 DEF FromBottom, BallYMin, BallYMax
    <2>2. v = 0 - s /\ v2 = 0 - s2
      BY <1>3, <1>4
    <2> QED BY <1>1, <1>2, <2>1, <2>2, Zenon
  <1>6. /\ d2 = d + s
        /\ APaddleHits(h) => b2 = 0 /\ (d <= 30 => s2 < 0) /\ (s2 = -5 => d % 6 = 3)
        /\ ~APaddleHits(h) =>
             /\ b2 = IF b > 0 THEN IF b = 63 THEN 0 ELSE b + 1 ELSE IF d <= 25 THEN 1 ELSE 0
             /\ b = 0 /\ d <= 25 => s2 = -s
             /\ ~(b = 0 /\ d <= 25) /\ d < 456 => s2 = s
    <2>1. /\ y2 = y + v
          /\ APaddleHits(h) => b2 = 0 /\ (y >= 451 => v2 > 0)
          /\ ~APaddleHits(h) =>
               /\ b2 = IF b > 0 THEN IF b = 63 THEN 0 ELSE b + 1
                       ELSE IF y >= 456 THEN 1 ELSE 0
               /\ v2 = IF (tedge = 0 /\ y <= 25) \/ (b = 0 /\ y >= 456) THEN -v ELSE v
      BY <1>1, <1>2, RowOfAFrame
    <2>2. APaddleHits(h) /\ v2 = 5 => y % 6 = 4
      BY <1>1, <1>2, RowOfASteepHit
    <2> QED BY <1>3, <1>4, <2>1, <2>2
  <1>7. EdgeInv(d, b, s, Hits, HitsBeforeBounce(b))
    <2>1. EdgeInv(FromBottom, bedge, 0 - YSpeed, Hits, HitsBeforeBounce(bedge))
      BY DEF RowInv
    <2>2. 0 - YSpeed = s
      BY <1>1, <1>3
    <2> QED BY <1>1, <1>5, <2>1, <2>2
  <1>8. /\ b > 0 => d >= 2
        /\ b = 0 /\ MovesRight /\ ballX = 61 => d + s >= 7
        /\ b = 0 /\ MovesRight /\ ballX = 68 => d >= 7
    BY <1>1, <1>5 DEF FloorInv
  <1>9. ~APaddleHits(h) => (b2 > 0 => d2 >= 2)
    <2>1. b = 0 => Hits <= 2 \/ d >= 7
      BY <1>8 DEF Hits
    <2>2. PICK hits \in 0..3, before \in 0..3 : hits = Hits /\ before = HitsBeforeBounce(b)
      BY HitsInRange DEF LockCount
    <2>3. EdgeInv(d, b, s, hits, before)
      BY <1>7, <2>2
    <2> QED BY <1>6, <1>8, <2>1, <2>2, <2>3 DEF EdgeInv
  <1>10. b2 > 0 => d2 >= 2
    BY <1>6, <1>9
  <1>11. ASSUME b2 = 0, MovesRight', ballX' = 61 PROVE d2 + s2 >= 7
    <2>1. MovesRight /\ ballX = 54
      BY <1>11, BehindTheLeftPaddle
    <2>2. Hits = 1 /\ HitsBeforeBounce(b) = 1
      BY <2>1 DEF Hits, HitsBeforeBounce
    <2>3. EdgeInv(d, b, s, 1, 1)
      BY <1>7, <2>2
    <2> QED BY <1>6, <1>11, <2>3 DEF EdgeInv
  <1>12. ASSUME b2 = 0, MovesRight', ballX' = 68 PROVE d2 >= 7
    <2>1. MovesRight /\ ballX = 61
      BY <1>12, BehindTheLeftPaddle
    <2>2. HitsBeforeBounce(b) = 1 /\ Hits = 2
      BY <2>1 DEF HitsBeforeBounce, Hits
    <2>3. EdgeInv(d, b, s, 2, 1)
      BY <1>7, <2>2
    <2> QED BY <1>6, <1>8, <1>12, <2>1, <2>3 DEF EdgeInv
  <1>13. d2 + s2 = FromBottom' - YSpeed'
    BY <1>5
  <1> QED BY <1>2, <1>5, <1>10, <1>11, <1>12, <1>13 DEF FloorInv

(* Nothing but play takes the ball from the centre.                        *)
LEMMA FloorAtTheCentre ==
  ASSUME ballX' = BallXCenter, bedge' = 0
  PROVE  FloorInv'
  BY DEF FloorInv, BallXCenter

LEMMA FloorStep ==
  ASSUME NoDebugKeys, HeightsInReach, BallTypeOK, BallTypeOK', RulesInv, TrackInv, RowInv,
         FloorInv, [BallNext]_ballVars
  PROVE  FloorInv'
  <1>1. CASE BallReset
    BY <1>1, FloorAtTheCentre DEF BallReset, Recentre
  <1>2. ASSUME NEW key \in KeyCodes, NEW h \in PaddleHeights, BallFrame(key, h)
        PROVE  FloorInv'
    <2>1. CASE EndScreen(key)
      BY <2>1, FloorAtTheCentre DEF EndScreen, Recentre
    <2>2. CASE Serve
      BY <2>2, FloorAtTheCentre DEF Serve, Recentre
    <2>3. CASE Play(key, h) /\ newGame
      <3>1. /\ ballX = BallXCenter /\ xMotion = 0
            /\ ballY = 240 /\ yMotion = 0 /\ tedge = 0 /\ bedge = 0
        BY <2>3 DEF RulesInv, RowInv, BallYCenter
      <3>2. ~Hit1(h[1]) /\ ~Hit2(h[2]) /\ ~AtBottom
        BY <3>1, CentreIsQuiet, Rows
      <3>3. ballX' = BallXCenter
        BY <2>3, <3>1, W10Fits DEF Play, BallXCenter
      <3>4. bedge' = 0
        BY <2>3, <3>1, <3>2 DEF Play, EdgeCount, BounceBottom
      <3> QED BY <3>3, <3>4, FloorAtTheCentre
    <2>4. CASE Play(key, h) /\ ~newGame
      <3>1. InRally
        BY <2>4 DEF Play, InRally
      <3> QED BY <2>4, <3>1, FloorPlay
    <2> QED BY <1>2, <2>1, <2>2, <2>3, <2>4 DEF BallFrame
  <1>3. CASE UNCHANGED ballVars
    BY <1>3 DEF ballVars, motionVars, edgeVars, FloorInv, YSpeed, FromBottom, MovesRight
  <1> QED BY <1>1, <1>2, <1>3 DEF BallNext, Frame

LEMMA FloorHolds ==
  NoDebugKeys /\ HeightsInReach /\ BallSpec => [](BallTypeOK /\ TrackInv /\ RowInv /\ FloorInv)
  <1> SUFFICES ASSUME NoDebugKeys, HeightsInReach
               PROVE  BallSpec => [](BallTypeOK /\ TrackInv /\ RowInv /\ FloorInv)
    OBVIOUS
  <1>1. BallInit => FloorInv
    BY DEF BallInit, FloorInv, BallXCenter
  <1>2. BallTypeOK /\ TrackInv /\ [BallNext]_ballVars => TrackInv'
    BY TrackStep
  <1>3. /\ BallTypeOK /\ BallTypeOK' /\ RulesInv /\ TrackInv /\ RowInv
        /\ [BallNext]_ballVars
        => RowInv'
    BY RowStep
  <1>4. /\ BallTypeOK /\ BallTypeOK' /\ RulesInv /\ TrackInv /\ RowInv /\ FloorInv
        /\ [BallNext]_ballVars
        => FloorInv'
    BY FloorStep
  <1> QED BY BallTypeInit, BallTypeStep, RulesInvInit, RulesStep, TrackBegin, RowBegin,
             <1>1, <1>2, <1>3, <1>4, PTL DEF BallSpec

(* The pixels of a paddle, without the wrap of its 10-bit comparisons.     *)
LEMMA PaddlePixels ==
  ASSUME NEW y \in PaddleReach, NEW px \in Int, NEW py \in Int
  PROVE  /\ PaddleOn(1, y, px, py) <=> px \in 58..62 /\ py - y \in -35..35
         /\ PaddleOn(2, y, px, py) <=> px \in 563..567 /\ py - y \in -35..35
  <1>1. y \in 48..438
    BY DEF PaddleReach
  <1>2. /\ W10(MinHeight(y)) = y - 35 /\ W10(MaxHeight(y)) = y + 35
        /\ W10(MinWidth(1)) = 58 /\ W10(MaxWidth(1)) = 62
        /\ W10(MinWidth(2)) = 563 /\ W10(MaxWidth(2)) = 567
    BY <1>1, W10Fits
       DEF MinHeight, MaxHeight, PaddleLength, MinWidth, MaxWidth, PaddleX, PaddleWidth
  <1> QED BY <1>1, <1>2 DEF PaddleOn

InDisc(e, f) == e * e + f * f <= BallSize * BallSize

(* The pixel e columns right of the centre of the ball and f rows below it. *)
LEMMA PixelOfTheBall ==
  ASSUME ballX \in Int, ballY \in Int, NEW e \in -5..5, NEW f \in -5..5,
         InDisc(e, f)
  PROVE  <<ballX + e, ballY + f>> \in BallPixels
  <1>1. PICK x \in Int, y \in Int : x = ballX /\ y = ballY
    OBVIOUS
  <1>2. (x + e) - x = e /\ (y + f) - y = f
    OBVIOUS
  <1>3. BallOn(ballX + e, ballY + f)
    BY <1>1, <1>2 DEF BallOn, InDisc
  <1> QED BY <1>1, <1>3 DEF BallPixels, BallSize

(* Boxes that overlap are what ball.sv tests.                              *)
LEMMA OverlapInNumbers ==
  ASSUME ballY \in 1..480, NEW y \in PaddleReach
  PROVE  Overlaps(y) <=> ballY - y \in -40..40
  <1>1. y \in 48..438
    BY DEF PaddleReach
  <1> QED BY <1>1 DEF Overlaps, UnsignedLe, MaxHeight, MinHeight, PaddleLength, BallSize

(* A ball drawn on a paddle is in its columns and overlaps it.             *)
LEMMA DrawnOnAPaddle ==
  ASSUME ballX \in 19..607, ballY \in 1..480, NEW y \in PaddleReach
  PROVE  /\ Touches(1, y, 0) => Hit1(y)
         /\ ballX = 558 /\ Touches(2, y, 0) => Hit2(y)
  <1>1. ASSUME NEW p \in Side, Touches(p, y, 0)
        PROVE  Overlaps(y) /\ (p = 1 => ballX \in 53..67)
    <2>1. PICK b \in BallPixels : PaddleOn(p, y, b[1], b[2])
      <3>1. \E b \in BallPixels, dx, dy \in -0..0 : PaddleOn(p, y, b[1] + dx, b[2] + dy)
        BY <1>1, Zenon DEF Touches
      <3>2. PICK b \in BallPixels, dx \in -0..0, dy \in -0..0 :
              PaddleOn(p, y, b[1] + dx, b[2] + dy)
        BY <3>1, Zenon
      <3>3. b[1] + dx = b[1] /\ b[2] + dy = b[2]
        BY DEF BallPixels, BallSize
      <3> QED BY <3>2, <3>3
    <2>2. b[1] - ballX \in -5..5 /\ b[2] - ballY \in -5..5 /\ b[1] \in Int /\ b[2] \in Int
      BY DEF BallPixels, BallSize
    <2>3. PICK px \in Int, py \in Int : px = b[1] /\ py = b[2]
      BY <2>2
    <2>4. PaddleOn(p, y, px, py)
      BY <2>1, <2>3
    <2>5. py - y \in -35..35 /\ (p = 1 => px \in 58..62)
      BY <2>4, PaddlePixels DEF Side
    <2>6. y \in 48..438
      BY DEF PaddleReach
    <2>7. ballY - y \in -40..40 /\ (p = 1 => ballX \in 53..67)
      BY <2>2, <2>3, <2>5, <2>6
    <2> QED BY <2>7, OverlapInNumbers
  <1>2. ASSUME Overlaps(y), ballX \in 53..67 PROVE Hit1(y)
    BY <1>2 DEF Hit1, UnsignedLe, MinWidth, MaxWidth, PaddleX, PaddleWidth, BallSize
  <1>3. ASSUME Overlaps(y), ballX = 558 PROVE Hit2(y)
    BY <1>3 DEF Hit2, UnsignedLe, MinWidth, PaddleX, PaddleWidth, BallSize
  <1> QED BY <1>1, <1>2, <1>3 DEF Side

(* What shows that a paddle is at most 2 pixels away: a pixel of the ball, *)
(* and the way from it to the paddle.                                      *)
WayToPaddle(p, y, e, f, dx, dy) ==
  /\ e \in -5..5 /\ f \in -5..5 /\ InDisc(e, f)
  /\ dx \in -2..2 /\ dy \in -2..2
  /\ \/ p = 1 /\ ballX + e + dx \in 58..62
     \/ p = 2 /\ ballX + e + dx \in 563..567
  /\ ballY - y + f + dy \in -35..35

LEMMA NextToAPaddle ==
  ASSUME ballX \in 19..607, ballY \in 1..480, NEW y \in PaddleReach, NEW p \in Side,
         NEW e, NEW f, NEW dx, NEW dy, WayToPaddle(p, y, e, f, dx, dy)
  PROVE  Touches(p, y, 2)
  <1>1. y \in 48..438
    BY DEF PaddleReach
  <1>2. PICK px \in Int, py \in Int : px = ballX + e /\ py = ballY + f
    BY DEF WayToPaddle
  <1>3. <<px, py>> \in BallPixels
    <2>1. ballX \in Int /\ ballY \in Int
      OBVIOUS
    <2>2. e \in -5..5 /\ f \in -5..5 /\ InDisc(e, f)
      BY Zenon DEF WayToPaddle
    <2> QED BY <1>2, <2>1, <2>2, PixelOfTheBall
  <1>4. px + dx \in Int /\ py + dy \in Int /\ py + dy - y \in -35..35
    BY <1>1, <1>2 DEF WayToPaddle
  <1>5. \/ p = 1 /\ px + dx \in 58..62
        \/ p = 2 /\ px + dx \in 563..567
    BY <1>2 DEF WayToPaddle
  <1>6. PaddleOn(p, y, px + dx, py + dy)
    <2>1. PICK qx \in Int, qy \in Int : qx = px + dx /\ qy = py + dy
      <3>1. px + dx \in Int /\ py + dy \in Int
        BY <1>4
      <3> QED BY <3>1, Zenon
    <2>2. \/ p = 1 /\ qx \in 58..62
          \/ p = 2 /\ qx \in 563..567
      BY <1>5, <2>1
    <2>3. qy - y \in -35..35
      <3>1. dy \in Int
        BY DEF WayToPaddle
      <3> QED BY <1>1, <1>4, <2>1, <3>1
    <2>4. PaddleOn(p, y, qx, qy)
      BY <2>2, <2>3, PaddlePixels
    <2> QED BY <2>1, <2>4
  <1>7. \E b \in BallPixels, i, j \in -2..2 : PaddleOn(p, y, b[1] + i, b[2] + j)
    <2>1. <<px, py>>[1] = px /\ <<px, py>>[2] = py
      OBVIOUS
    <2>2. dx \in -2..2 /\ dy \in -2..2
      BY Zenon DEF WayToPaddle
    <2> QED BY <1>3, <1>6, <2>1, <2>2, Zenon
  <1>8. /\ ballX + BallSize + 2 >= MinWidth(p)
        /\ ballX - BallSize - 2 <= MaxWidth(p)
    BY <1>2, <1>5 DEF WayToPaddle, MinWidth, MaxWidth, PaddleX, PaddleWidth, BallSize
  <1> QED BY <1>7, <1>8, Zenon DEF Touches

(* The ways: straight on to the columns 5 to the right of the centre, or,  *)
(* past the end of the paddle, from a pixel of the disc on its diagonal;   *)
(* and straight up or down where the ball is in the columns of the paddle. *)
LEMMA Ways ==
  ASSUME NEW c \in -40..40
  PROVE  /\ \E e, f \in -5..5, dx, dy \in -2..2 :
              InDisc(e, f) /\ e + dx = 5 /\ c + f + dy \in -35..35
         /\ \E e, f \in -5..5, dx, dy \in -2..2 :
              InDisc(e, f) /\ e + dx = 0 /\ c + f + dy \in -35..35
  <1> DEFINE Way(n, e, f, dx, dy) ==
        /\ e \in -5..5 /\ f \in -5..5 /\ dx \in -2..2 /\ dy \in -2..2
        /\ InDisc(e, f) /\ e + dx = n /\ c + f + dy \in -35..35
  <1>1. CASE c \in -35..35
    <2>1. Way(5, 5, 0, 0, 0) /\ Way(0, 0, 0, 0, 0)
      BY <1>1 DEF InDisc, BallSize
    <2> QED BY <2>1, Zenon
  <1>2. CASE c > 35
    <2>1. Way(5, 3, -4, 2, -2) /\ Way(0, 0, -5, 0, 0)
      BY <1>2 DEF InDisc, BallSize
    <2> QED BY <2>1, Zenon
  <1>3. CASE c < -35
    <2>1. Way(5, 3, 4, 2, 2) /\ Way(0, 0, 5, 0, 0)
      BY <1>3 DEF InDisc, BallSize
    <2> QED BY <2>1, Zenon
  <1>4. c \in -35..35 \/ c > 35 \/ c < -35
    OBVIOUS
  <1> QED BY <1>1, <1>2, <1>3, <1>4, Zenon

(* No paddle hits a ball that is drawn further away. The corner of the box *)
(* ball.sv tests is not in the disc; the disc comes 2 pixels close.        *)
LEMMA HitsAreClose ==
  ASSUME ballX \in 19..607, ballX \in Track, ballY \in 1..480, NEW y \in PaddleReach
  PROVE  /\ Hit1(y) => Touches(1, y, 2)
         /\ Hit2(y) => Touches(2, y, 2)
  <1>1. ASSUME Hit1(y) PROVE ballX \in {54, 61} /\ Overlaps(y)
    <2>1. ballX \in 53..67 /\ Overlaps(y)
      BY <1>1, Columns DEF Hit1
    <2> QED BY <2>1 DEF Track
  <1>2. ASSUME Hit2(y) PROVE ballX = 558 /\ Overlaps(y)
    BY <1>2, Columns DEF Hit2
  <1>3. SUFFICES ASSUME NEW p \in Side, Overlaps(y),
                        \/ p = 1 /\ ballX \in {54, 61}
                        \/ p = 2 /\ ballX = 558
                 PROVE  Touches(p, y, 2)
    <2>1. 1 \in Side /\ 2 \in Side
      BY DEF Side
    <2> QED BY <1>1, <1>2, <2>1
  <1>4. PICK c \in -40..40 : c = ballY - y
    <2>1. ballY - y \in -40..40
      BY <1>3, OverlapInNumbers
    <2> QED BY <2>1, ZenonT(60)
  <1>5. PICK d \in {0, 5} : d = IF ballX = 61 THEN 0 ELSE 5
    OBVIOUS
  <1>6. PICK e \in -5..5, f \in -5..5, dx \in -2..2, dy \in -2..2 :
          InDisc(e, f) /\ e + dx = d /\ c + f + dy \in -35..35
    <2>1. CASE d = 0
      <3>1. \E e, f \in -5..5, dx, dy \in -2..2 :
               InDisc(e, f) /\ e + dx = 0 /\ c + f + dy \in -35..35
        BY Ways, ZenonT(60)
      <3> QED BY <2>1, <3>1, Zenon
    <2>2. CASE d = 5
      <3>1. \E e, f \in -5..5, dx, dy \in -2..2 :
               InDisc(e, f) /\ e + dx = 5 /\ c + f + dy \in -35..35
        BY Ways, ZenonT(60)
      <3> QED BY <2>2, <3>1, Zenon
    <2> QED BY <2>1, <2>2
  <1>7. \/ p = 1 /\ ballX + e + dx \in 58..62
        \/ p = 2 /\ ballX + e + dx \in 563..567
    BY <1>3, <1>5, <1>6
  <1>8. ballY - y + f + dy \in -35..35
    BY <1>4, <1>6
  <1>9. WayToPaddle(p, y, e, f, dx, dy)
    BY <1>6, <1>7, <1>8 DEF WayToPaddle
  <1> QED BY <1>9, NextToAPaddle, Zenon

(* The centre of the ball is a row above the bottom of the screen at most. *)
LEMMA CentreOnScreen ==
  ASSUME BallTypeOK, TrackInv, RowInv, FloorInv, InRally
  PROVE  /\ ballX \in 19..607 /\ ballX \in Track
         /\ ballY \in 1..479
  <1>1. ballX \in 19..607 /\ ballX \in Track
    BY DEF TrackInv
  <1>2. ballY \in 1..480 /\ (bedge = 0 => ballY <= 475)
    BY RowRange
  <1>3. bedge > 0 => 481 - ballY >= 2
    <2>1. FromBottom = 481 - ballY
      BY <1>2 DEF FromBottom, BallYMin, BallYMax
    <2> QED BY <2>1 DEF FloorInv
  <1>4. bedge \in 0..63
    BY DEF BallTypeOK, LockCount
  <1> QED BY <1>1, <1>2, <1>3, <1>4

LEMMA PictureMatches ==
  ASSUME HeightsInReach, BallTypeOK, TrackInv, RowInv, FloorInv
  PROVE  HitsMatchThePicture
  <1> SUFFICES ASSUME InRally, NEW h \in PaddleHeights
               PROVE  /\ Touches(1, h[1], 0) => Hit1(h[1])
                      /\ ballX = 558 /\ Touches(2, h[2], 0) => Hit2(h[2])
                      /\ Hit1(h[1]) => Touches(1, h[1], 2)
                      /\ Hit2(h[2]) => Touches(2, h[2], 2)
    BY Zenon DEF HitsMatchThePicture
  <1>1. h[1] \in PaddleReach /\ h[2] \in PaddleReach
    BY DEF HeightsInReach
  <1>2. ballX \in 19..607 /\ ballX \in Track /\ ballY \in 1..480
    BY CentreOnScreen
  <1>3. \A y \in PaddleReach :
          /\ Touches(1, y, 0) => Hit1(y)
          /\ ballX = 558 /\ Touches(2, y, 0) => Hit2(y)
          /\ Hit1(y) => Touches(1, y, 2)
          /\ Hit2(y) => Touches(2, y, 2)
    BY <1>2, DrawnOnAPaddle, HitsAreClose
  <1>4. PICK l \in PaddleReach, r \in PaddleReach : l = h[1] /\ r = h[2]
    BY <1>1, Zenon
  <1>5. /\ Touches(1, l, 0) => Hit1(l)
        /\ Hit1(l) => Touches(1, l, 2)
    BY <1>3, Zenon
  <1>6. /\ ballX = 558 /\ Touches(2, r, 0) => Hit2(r)
        /\ Hit2(r) => Touches(2, r, 2)
    BY <1>3, Zenon
  <1> QED BY <1>4, <1>5, <1>6

(* A pixel of the ball that no paddle covers: its centre, or, where that   *)
(* is in the columns of a paddle, its rightmost pixel.                     *)
LEMMA UncoveredPixel ==
  ASSUME HeightsInReach, ballX \in 19..607, ballX \in Track, ballY \in 1..479,
         InRally, NEW h \in PaddleHeights
  PROVE  \E b \in BallPixels : Layer(h, b[1], b[2]) = "ball"
  <1>1. h[1] \in PaddleReach /\ h[2] \in PaddleReach
    BY DEF HeightsInReach
  <1>2. PICK e \in {0, 5} : ballX + e \notin 58..62 /\ ballX + e \notin 563..567
    <2>1. CASE ballX \in 58..62 \/ ballX \in 563..567
      <3>1. ballX \in {61, 565}
        BY <2>1 DEF Track
      <3>2. 5 \in {0, 5} /\ ballX + 5 \notin 58..62 /\ ballX + 5 \notin 563..567
        BY <3>1
      <3> QED BY <3>2, ZenonT(60)
    <2>2. CASE ballX \notin 58..62 /\ ballX \notin 563..567
      <3>1. 0 \in {0, 5} /\ ballX + 0 \notin 58..62 /\ ballX + 0 \notin 563..567
        BY <2>2
      <3> QED BY <3>1, ZenonT(60)
    <2> QED BY <2>1, <2>2
  <1>3. e \in -5..5 /\ 0 \in -5..5 /\ InDisc(e, 0)
    BY DEF InDisc, BallSize
  <1>4. <<ballX + e, ballY + 0>> \in BallPixels
    <2>1. ballX \in Int /\ ballY \in Int
      OBVIOUS
    <2> QED BY <1>3, <2>1, PixelOfTheBall
  <1>5. PICK px \in ScreenColumns, py \in ScreenRows : px = ballX + e /\ py = ballY + 0
    <2>1. ballX + e \in ScreenColumns /\ ballY + 0 \in ScreenRows
      BY <1>3 DEF ScreenColumns, ScreenRows
    <2> QED BY <2>1, Zenon
  <1>6. px \in Int /\ py \in Int
    BY DEF ScreenColumns, ScreenRows
  <1>7. ~PaddleOn(1, h[1], px, py) /\ ~PaddleOn(2, h[2], px, py)
    BY <1>1, <1>2, <1>5, <1>6, PaddlePixels
  <1>8. <<px, py>> \in BallPixels
    BY <1>4, <1>5
  <1>9. BallOn(px, py)
    BY <1>8 DEF BallPixels
  <1>10. OnScreen(px, py) /\ ~newGame /\ ~endGame
    BY DEF OnScreen, InRally
  <1>11. Layer(h, px, py) = "ball"
    BY <1>7, <1>9, <1>10 DEF Layer
  <1>12. <<px, py>>[1] = px /\ <<px, py>>[2] = py
    OBVIOUS
  <1> QED BY <1>8, <1>11, <1>12

LEMMA PictureShowsTheBall ==
  ASSUME HeightsInReach, BallTypeOK, TrackInv, RowInv, FloorInv
  PROVE  BallIsSeen
  <1> SUFFICES ASSUME InRally PROVE BallIsSeen
    BY DEF BallIsSeen
  <1>1. ballX \in 19..607 /\ ballX \in Track /\ ballY \in 1..479
    BY CentreOnScreen
  <1>2. OnScreen(ballX, ballY)
    BY <1>1 DEF OnScreen, ScreenColumns, ScreenRows
  <1>3. \A h \in PaddleHeights : \E b \in BallPixels : Layer(h, b[1], b[2]) = "ball"
    BY <1>1, UncoveredPixel
  <1> QED BY <1>2, <1>3, Zenon DEF BallIsSeen

(* With the debugging keys away and the paddles where paddle.sv keeps      *)
(* them: what ball.sv decides is what color.sv shows (ball.sv:185-229,     *)
(* color.sv:57-99) ...                                                     *)
THEOREM ThePictureTellsTheHits ==
  NoDebugKeys /\ HeightsInReach /\ BallSpec => []HitsMatchThePicture
  <1> SUFFICES ASSUME NoDebugKeys, HeightsInReach PROVE BallSpec => []HitsMatchThePicture
    OBVIOUS
  <1>1. BallTypeOK /\ TrackInv /\ RowInv /\ FloorInv => HitsMatchThePicture
    BY PictureMatches
  <1> QED BY FloorHolds, <1>1, PTL

(* ... and the players see the ball in every frame of a rally: its centre  *)
(* is on the screen, and a pixel of it is drawn (ball.sv:120-146, 236-237, *)
(* color.sv:66-78, 187-240).                                               *)
THEOREM TheBallIsSeen ==
  NoDebugKeys /\ HeightsInReach /\ BallSpec => []BallIsSeen
  <1> SUFFICES ASSUME NoDebugKeys, HeightsInReach PROVE BallSpec => []BallIsSeen
    OBVIOUS
  <1>1. BallTypeOK /\ TrackInv /\ RowInv /\ FloorInv => BallIsSeen
    BY PictureShowsTheBall
  <1> QED BY FloorHolds, <1>1, PTL

=============================================================================
