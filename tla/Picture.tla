------------------------------ MODULE Picture ------------------------------
(***************************************************************************)
(* color.sv: the picture of a frame, as a function of the registers of the *)
(* ball and of the heights of the paddles. Of a pixel, the module keeps    *)
(* which part of the picture it shows; whether a pixel of a glyph or of a  *)
(* screen image is lit is data of the ROMs.                                *)
(***************************************************************************)
EXTENDS Ball

ScreenColumns == 0..639
ScreenRows == 0..479
OnScreen(px, py) == px \in ScreenColumns /\ py \in ScreenRows

(* The distances are 32-bit ints, so this one is right on both sides.      *)
BallOn(px, py) ==
  (px - ballX) * (px - ballX) + (py - ballY) * (py - ballY) <= BallSize * BallSize

(* The comparisons of the paddles are 10 bits wide: a paddle less than its *)
(* length from the top would not be drawn at all.                          *)
PaddleOn(p, y, px, py) ==
  /\ px \in W10(MinWidth(p))..W10(MaxWidth(p))
  /\ py \in W10(MinHeight(y))..W10(MaxHeight(y))

ScoreColumn(p) == IF p = 1 THEN 203 ELSE 405
ScoreOn(p, px, py) ==
  py \in 60..123 /\ px \in ScoreColumn(p)..ScoreColumn(p) + 31

(* The last of the assignments of RGB_Display that apply to a pixel.       *)
Layer(h, px, py) ==
  CASE ~OnScreen(px, py) -> "black"
    [] OnScreen(px, py) /\ ~newGame /\ ~endGame ->
         IF PaddleOn(2, h[2], px, py) THEN "paddle2"
         ELSE IF PaddleOn(1, h[1], px, py) THEN "paddle1"
         ELSE IF BallOn(px, py) THEN "ball"
         ELSE IF ScoreOn(2, px, py) THEN "score2"
         ELSE IF ScoreOn(1, px, py) THEN "score1"
         ELSE "background"
    [] OnScreen(px, py) /\ endGame /\ ~newGame ->
         IF ScoreOn(2, px, py) THEN "score2"
         ELSE IF ScoreOn(1, px, py) THEN "score1"
         ELSE "end screen"
    [] OTHER -> IF endGame THEN "end screen" ELSE "title screen"

(***************************************************************************)
(* Properties                                                              *)
(***************************************************************************)
BallPixels ==
  {p \in (ballX - BallSize..ballX + BallSize) \X (ballY - BallSize..ballY + BallSize) :
     BallOn(p[1], p[2])}

(* Some pixel of the ball is at most `gap` away from paddle p at height y. *)
Touches(p, y, gap) ==
  /\ ballX + BallSize + gap >= MinWidth(p)
  /\ ballX - BallSize - gap <= MaxWidth(p)
  /\ \E b \in BallPixels, dx, dy \in -gap..gap : PaddleOn(p, y, b[1] + dx, b[2] + dy)

(* What ball.sv decides is what color.sv shows, though the one compares    *)
(* boxes in 32 bits and the other discs in 32 and paddles in 10: a ball    *)
(* drawn on the left paddle, or on the right one where ball.sv looks for   *)
(* it, is hit, and no paddle hits a ball that is drawn more than 2 pixels  *)
(* away from it (ball.sv:185-229, color.sv:57-99).                         *)
HitsMatchThePicture ==
  InRally => \A h \in PaddleHeights :
    /\ Touches(1, h[1], 0) => Hit1(h[1])
    /\ ballX = 558 /\ Touches(2, h[2], 0) => Hit2(h[2])
    /\ Hit1(h[1]) => Touches(1, h[1], 2)
    /\ Hit2(h[2]) => Touches(2, h[2], 2)

(* In a rally the players see the ball: its centre stays on the screen and *)
(* neither the border, where color.sv draws black, nor a paddle, which it  *)
(* draws over the ball, hides all of it (ball.sv:120-146, 236-237,         *)
(* color.sv:66-78, 187-240).                                               *)
BallIsSeen ==
  InRally =>
    LET pixels == BallPixels IN
    /\ OnScreen(ballX, ballY)
    /\ \A h \in PaddleHeights : \E b \in pixels : Layer(h, b[1], b[2]) = "ball"

=============================================================================
