---------------------------- MODULE HealthdCommon ----------------------------
(***************************************************************************)
(* The state of health/healthd_common.cpp that every caller of             *)
(* Health::update() shares: the wake alarm and the epoll timeout derived   *)
(* from it.  Health.tla (the callback registry and its handler threads)    *)
(* and HealthLoop.tla (start-up and main loop) both run Update.            *)
(***************************************************************************)
EXTENDS Integers

CONSTANTS
  IntervalFast,   \* healthd_config.periodic_chores_interval_fast, seconds
  IntervalSlow    \* healthd_config.periodic_chores_interval_slow, seconds

\* -1 switches periodic work off; any other interval is a length of time.
ASSUME IntervalAssumption ==
  /\ IntervalFast \in Nat \cup {-1}
  /\ IntervalSlow \in Nat \cup {-1}

VARIABLES
  healthd_mode_ops,         \* TRUE once main() has installed the ops table
  wakealarm_fd,             \* "unset" (static zero), "none" (-1) or "open"
  wakealarm_wake_interval,  \* the interval the service believes is armed
  awake_poll_interval,      \* epoll timeout in milliseconds, -1 for none
  timer,                    \* external: period the kernel timer runs with, 0 = disarmed
  phase                     \* external: changes whenever a timerfd_settime starts the
                            \* period anew, and so puts the next expiry off

alarmVars ==
  <<healthd_mode_ops, wakealarm_fd, wakealarm_wake_interval,
    awake_poll_interval, timer, phase>>

FdState == {"unset", "none", "open"}

AlarmTypeOK ==
  /\ healthd_mode_ops \in BOOLEAN
  /\ wakealarm_fd \in FdState
  /\ wakealarm_wake_interval \in {IntervalFast, IntervalSlow}
  /\ awake_poll_interval \in {-1, IntervalFast * 1000}
  /\ timer \in {0, IntervalFast, IntervalSlow}
  /\ phase \in 0..1

\* The static initialisers, before main() runs.
AlarmInit ==
  /\ healthd_mode_ops = FALSE
  /\ wakealarm_fd = "unset"
  /\ wakealarm_wake_interval = IntervalFast
  /\ awake_poll_interval = -1
  /\ timer = 0 /\ phase = 0

\* What timerfd_settime is asked for: -1 disarms the timer.
TimerValue(interval) == IF interval = -1 THEN 0 ELSE interval

(***************************************************************************)
(* wakealarm_set_interval(interval) on the descriptor fd.  The belief is   *)
(* stored before the system call, and a failed timerfd_settime is only     *)
(* logged: the timer then runs on as it was.                               *)
(***************************************************************************)
SetInterval(fd, interval) ==
  IF fd = "none"
  THEN UNCHANGED <<wakealarm_wake_interval, timer, phase>>
  ELSE /\ wakealarm_wake_interval' = interval
       /\ \/ timer' = TimerValue(interval) /\ phase' = 1 - phase
          \/ UNCHANGED <<timer, phase>>

\* The poll interval that goes with a wake interval.
PollInterval(wake_interval) ==
  IF IntervalFast = -1 \/ wake_interval = IntervalFast THEN -1 ELSE IntervalFast * 1000

\* The wake interval for a charger state.
NewWakeInterval(charger_online) == IF charger_online THEN IntervalFast ELSE IntervalSlow

\* Mutant: the alarm is set on every update, changed or not.
BatteryUpdateRearms(charger_online) ==
  /\ SetInterval(wakealarm_fd, NewWakeInterval(charger_online))
  /\ awake_poll_interval' = PollInterval(NewWakeInterval(charger_online))
  /\ UNCHANGED <<healthd_mode_ops, wakealarm_fd>>

(***************************************************************************)
(* healthd_battery_update_internal(charger_online).  The globals are       *)
(* written without a lock; racing callers write the same values, because   *)
(* update() passes the same charger state every time.                      *)
(***************************************************************************)
BatteryUpdateInternal(charger_online) ==
  LET new_wake_interval == NewWakeInterval(charger_online)
  IN  /\ IF new_wake_interval # wakealarm_wake_interval
         THEN SetInterval(wakealarm_fd, new_wake_interval)
         ELSE UNCHANGED <<wakealarm_wake_interval, timer, phase>>
      /\ awake_poll_interval' = PollInterval(new_wake_interval)
      /\ UNCHANGED <<healthd_mode_ops, wakealarm_fd>>

\* Mutant: the charger is reported offline.
ChargerOffline == FALSE

\* chargerOnline in Health::update(): a virtual machine is always on mains.
ChargerOnline == TRUE

\* Health::update(): refused with Result::UNKNOWN until the ops are installed.
Update ==
  IF healthd_mode_ops
  THEN BatteryUpdateInternal(ChargerOnline)
  ELSE UNCHANGED alarmVars
==============================================================================
