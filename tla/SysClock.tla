------------------------------ MODULE SysClock ------------------------------
(***************************************************************************)
(* The system clock of the board support package: the timer interrupt      *)
(* counts ticks in a word that wraps round (alt_tick.c) and runs the       *)
(* alarms.  The program has one, which the driver of the console starts    *)
(* (alt_alarm_start.c) and whose callback asks for the same interval each  *)
(* time.                                                                   *)
(***************************************************************************)
EXTENDS Integers

CONSTANTS
  Word,        \* ticks are counted modulo this: 2^32
  Interval     \* alt_ticks_per_second(): what the callback returns

ASSUME ClockAssumption ==
  /\ Word \in Nat /\ Interval \in Nat
  /\ 0 < Interval /\ Interval < Word - 1

VARIABLES
  nticks,      \* _alt_nticks
  started,     \* the alarm is in alt_alarm_list
  time,        \* its time,
  rollover,    \* which is in the next round of nticks
  rang         \* its callback ran in the last tick

alarmVars == <<started, time, rollover, rang>>
clockVars == <<nticks, alarmVars>>

Wrap(x) == IF x < Word THEN x ELSE x - Word

ClockInit ==
  /\ nticks = 0 /\ started = FALSE
  /\ time = 0 /\ rollover = FALSE /\ rang = FALSE

(* alt_alarm_start, with interrupts disabled.                              *)
AlarmStart ==
  /\ ~started
  /\ started' = TRUE
  /\ time' = Wrap(nticks + Interval + 1)
  /\ rollover' = (time' < nticks)
  /\ UNCHANGED <<nticks, rang>>

(* In the tick that wraps the counter round the flag has done its work.    *)
StillOver == rollover /\ nticks' # 0

(* Slip: the flag is not looked at.                                        *)
DueSlip == started /\ time <= nticks'

Due == started /\ time <= nticks' /\ ~StillOver

(* alt_tick, in the timer interrupt.                                       *)
Tick ==
  /\ nticks' = Wrap(nticks + 1)
  /\ IF Due
     THEN time' = Wrap(time + Interval) /\ rollover' = (time' < nticks') /\ rang' = TRUE
     ELSE time' = time /\ rollover' = StillOver /\ rang' = FALSE
  /\ UNCHANGED started

ClockNext == AlarmStart \/ Tick

ClockSpec == ClockInit /\ [][ClockNext]_clockVars

(***************************************************************************)
(* Properties                                                              *)
(***************************************************************************)

ClockTypeOK ==
  /\ nticks \in 0..(Word - 1) /\ time \in 0..(Word - 1)
  /\ started \in BOOLEAN /\ rollover \in BOOLEAN /\ rang \in BOOLEAN

(* An alarm lies ahead, in this round or, with the flag, in the next.      *)
AlarmAhead ==
  started => IF rollover THEN time < nticks /\ nticks - time > Word - Interval - 2
                         ELSE time > nticks /\ time - nticks <= Interval + 1

Alarm == INSTANCE Countdown WITH
  left <- IF ~started THEN 0 ELSE IF rollover THEN time + Word - nticks ELSE time - nticks,
  rings <- rang

(* The alarm comes when it was asked for, however often the tick counter   *)
(* wraps round between: it is neither taken as past when its time lies in  *)
(* the next round, nor missed (alt_tick.c:96-139, alt_alarm_start.c:80-95).*)
AlarmsComeInTime == Alarm!CountdownSpec

=============================================================================
