------------------------------- MODULE MCBall -------------------------------
(* The ball alone, against paddles that may be at any of a few heights in  *)
(* every frame. The ball is near one paddle at most, so giving both the    *)
(* same height loses nothing.                                              *)
EXTENDS Picture

(* No key, and the key the players of the left side use to go up.          *)
PlayingKeys == {0, 26}

(* The two debugging keys as well.                                         *)
AllKeys == {0, 4, 20, 26}

(* Hits by paddles at 48 and 54, or at 420 and 432, in frames that follow  *)
(* one another send the ball as far up, and within two rows as far down,   *)
(* as paddles at any heights can; 222 and 342 are there to aim it.         *)
ChosenHeights == {<<y, y>> : y \in {48, 54, 222, 342, 420, 432}}

(* Paddles that meet the served ball head on, or miss it.                  *)
HeadOnHeights == {<<240, 240>>, <<48, 48>>}

=============================================================================
