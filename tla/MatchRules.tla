----------------------------- MODULE MatchRules -----------------------------
(***************************************************************************)
(* What ball.sv promises of a match, with no ball in it: a title screen, a *)
(* serve before every rally, a rally that ends with one point for one      *)
(* side, and a game that is over as soon as a side has WinScore points.    *)
(***************************************************************************)
EXTENDS Naturals

CONSTANT WinScore

VARIABLES phase, left, right

rulesVars == <<phase, left, right>>

Phases == {"title", "serve", "rally", "over"}

RulesInit == phase = "title" /\ left = 0 /\ right = 0

Won == left = WinScore \/ right = WinScore

StartGame ==
  /\ phase = "title"
  /\ phase' = "serve"
  /\ UNCHANGED <<left, right>>

ServeBall ==
  /\ phase = "serve"
  /\ phase' = "rally"
  /\ UNCHANGED <<left, right>>

PointLeft ==
  /\ phase = "rally" /\ ~Won
  /\ phase' = "serve"
  /\ left' = left + 1
  /\ UNCHANGED right

PointRight ==
  /\ phase = "rally" /\ ~Won
  /\ phase' = "serve"
  /\ right' = right + 1
  /\ UNCHANGED left

GameOver ==
  /\ phase = "rally" /\ Won
  /\ phase' = "over"
  /\ UNCHANGED <<left, right>>

Rematch ==
  /\ phase = "over"
  /\ phase' = "serve"
  /\ left' = 0 /\ right' = 0

BackToTitle == phase' = "title" /\ left' = 0 /\ right' = 0

RulesNext ==
  \/ StartGame \/ ServeBall \/ PointLeft \/ PointRight
  \/ GameOver \/ Rematch \/ BackToTitle

RulesSpec == RulesInit /\ [][RulesNext]_rulesVars

(* A serve is always taken and a won game is always declared.              *)
RulesFairSpec ==
  /\ RulesSpec
  /\ WF_rulesVars(ServeBall)
  /\ WF_rulesVars(GameOver)

=============================================================================
