-------------------------- MODULE HealthLoopProofs --------------------------
(***************************************************************************)
(* Proofs of safety properties of HealthLoop.tla, for every number of      *)
(* failures, queued uevents and waiting calls.                             *)
(***************************************************************************)
EXTENDS HealthLoop, FiniteSetTheorems, TLAPS

\* What the start-up has set up by the time it reaches a stage.
StartedUp ==
  /\ pc \notin {"main", "exited"} => healthd_mode_ops
  /\ pc \notin {"main", "init", "mode_init", "exited"} => instance_

\* The alarm is registered only once it was created, and if it could be set it
\* runs at the fast rate, which is also what the service believes.
AlarmRuns ==
  /\ wakealarm_wake_interval = IntervalFast
  /\ pc \in {"main", "init", "mode_init", "wakealarm_init", "exited"} => "alarm" \notin registered
  /\ "alarm" \in registered /\ "timerfd_settime" \notin failed => timer = TimerValue(IntervalFast)

\* The inductive invariant.
Inv == StartedUp /\ AlarmRuns

\* The static initialisers satisfy the invariant.
LEMMA InitInv == Init => Inv
BY DEF Init, AlarmInit, Inv, StartedUp, AlarmRuns

\* The charger is always online, so update() leaves the alarm as it is.
LEMMA UpdateKeepsAlarm ==
  ASSUME AlarmRuns, Update
  PROVE  UNCHANGED <<healthd_mode_ops, wakealarm_fd, wakealarm_wake_interval, timer>>
BY DEF AlarmRuns, Update, BatteryUpdateInternal, NewWakeInterval, ChargerOnline, alarmVars

\* A process that exits leaves the static initialisers to the next one.
LEMMA ExitInv ==
  ASSUME Exit
  PROVE  Inv'
BY DEF Exit, Inv, StartedUp, AlarmRuns

\* The steps of the start-up.
LEMMA StartUpInv ==
  ASSUME Inv, StartUp
  PROVE  Inv'
<1> USE DEF Inv, StartedUp, AlarmRuns, serviceVars, loopVars, kernelVars, faultVars, alarmVars
<1>1. CASE Main
  BY <1>1 DEF Main
<1>2. CASE HealthdInit
  BY <1>2, ExitInv DEF HealthdInit, Fail
<1>3. CASE ModeInit
  <2>1. CASE Exit
    BY <2>1, ExitInv
  <2>2. ASSUME NEW F, Fail(F), RegisterIfOpen("binder", gBinderFd', F), instance_' = TRUE,
               pc = "mode_init", pc' = "wakealarm_init", UNCHANGED alarmVars
        PROVE  Inv'
    BY <2>2 DEF Fail, RegisterIfOpen, RegisterEvent
  <2> QED BY <1>3, <2>1, <2>2 DEF ModeInit
<1>4. CASE WakealarmInit
  BY <1>4 DEF WakealarmInit, Fail, RegisterIfOpen, RegisterEvent, SetInterval, Opened
<1>5. CASE UeventInit
  BY <1>5 DEF UeventInit, Fail, RegisterIfOpen, RegisterEvent
<1> QED BY <1>1, <1>2, <1>3, <1>4, <1>5 DEF StartUp

\* The steps of the main loop and of its handlers.
LEMMA MainloopInv ==
  ASSUME Inv, Mainloop
  PROVE  Inv'
<1>u. ASSUME HealthdBatteryUpdate
      PROVE  UNCHANGED <<healthd_mode_ops, wakealarm_wake_interval, timer>>
  BY <1>u, UpdateKeepsAlarm DEF Inv, HealthdBatteryUpdate
<1> USE DEF Inv, StartedUp, AlarmRuns, serviceVars, loopVars, kernelVars, faultVars, alarmVars
<1>1. CASE LoopTop
  BY <1>1, <1>u DEF LoopTop
<1>2. CASE WaitReturns
  BY <1>2 DEF WaitReturns, EpollReturns
<1>3. CASE WaitInterrupted
  BY <1>3 DEF WaitInterrupted, Fail
<1>4. CASE WaitFails
  BY <1>4, ExitInv DEF WaitFails
<1>5. CASE BinderEvent
  BY <1>5, <1>u DEF BinderEvent, Dispatched
<1>6. CASE WakealarmEvent
  <2>1. UNCHANGED <<healthd_mode_ops, wakealarm_wake_interval, timer>>
    BY <1>6, <1>u DEF WakealarmEvent
  <2>2. failed \subseteq failed' /\ UNCHANGED <<pc, instance_, registered>>
    BY <1>6 DEF WakealarmEvent, Dispatched, Fail
  <2> QED BY <2>1, <2>2
<1>7. CASE UeventEvent
  <2>1. UNCHANGED <<healthd_mode_ops, wakealarm_wake_interval, timer>>
    BY <1>7, <1>u DEF UeventEvent
  <2>2. failed \subseteq failed' /\ UNCHANGED <<pc, instance_, registered>>
    BY <1>7 DEF UeventEvent, Dispatched, Fail
  <2> QED BY <2>1, <2>2
<1>8. CASE DispatchDone
  BY <1>8 DEF DispatchDone
<1> QED BY <1>1, <1>2, <1>3, <1>4, <1>5, <1>6, <1>7, <1>8 DEF Mainloop

\* Every step keeps the invariant.
LEMMA NextInv == Inv /\ [Next]_vars => Inv'
<1> SUFFICES ASSUME Inv, [Next]_vars PROVE Inv'
  OBVIOUS
<1>1. CASE StartUp
  BY <1>1, StartUpInv
<1>2. CASE Mainloop
  BY <1>2, MainloopInv
<1> USE DEF Inv, StartedUp, AlarmRuns, serviceVars, loopVars, kernelVars, faultVars, alarmVars
<1>3. CASE Restart
  BY <1>3 DEF Restart
<1>4. CASE TimerExpire
  BY <1>4 DEF TimerExpire
<1>5. CASE BinderArrive
  BY <1>5 DEF BinderArrive
<1>6. ASSUME NEW m \in Message, UeventArrive(m) PROVE Inv'
  BY <1>6 DEF UeventArrive
<1>7. CASE UNCHANGED vars
  BY <1>7 DEF vars
<1> QED BY <1>1, <1>2, <1>3, <1>4, <1>5, <1>6, <1>7 DEF Next

\* The invariant holds in every reachable state.
THEOREM Invariance == Spec => []Inv
BY InitInv, NextInv, PTL DEF Spec

(***************************************************************************)
(* The loop never uses a null healthd_mode_ops and never fails the CHECK   *)
(* of getImplementation, whatever failed during the start-up.              *)
(***************************************************************************)
THEOREM SingletonAlwaysReady == Spec => []SingletonReady
<1>1. Inv => SingletonReady
  BY DEF Inv, StartedUp, SingletonReady, InLoop
<1> QED BY <1>1, Invariance, PTL

(***************************************************************************)
(* Reading the timeout before the chores is harmless as long as the        *)
(* charger is always online: an alarm that could be set never waits longer *)
(* than the fast interval.                                                 *)
(***************************************************************************)
THEOREM TimeoutAlwaysFits == Spec => []TimeoutFitsAlarm
<1>1. Inv => TimeoutFitsAlarm
  BY DEF Inv, AlarmRuns, TimeoutFitsAlarm, FastRate
<1> QED BY <1>1, Invariance, PTL

-----------------------------------------------------------------------------
(***************************************************************************)
(* Type correctness                                                        *)
(*                                                                         *)
(* It rests on two facts about the epoll set: eventct is the number of     *)
(* descriptors that are registered, and uevent_event runs only when there  *)
(* is a message to read.                                                   *)
(***************************************************************************)

\* eventct counts what is registered, and the start-up registers one source
\* after the other.
EventsCounted ==
  /\ eventct = Cardinality(registered)
  /\ pc \in {"main", "init", "mode_init", "exited"} => registered = {}
  /\ pc = "wakealarm_init" => registered \subseteq {"binder"}
  /\ pc = "uevent_init" => registered \subseteq {"binder", "alarm"}

\* The socket of a uevent event still has a message.
UeventWaits == "uevent" \in events => uevents # <<>>

\* The inductive invariant of the types.
TypeInv == TypeOK /\ EventsCounted /\ UeventWaits

\* A set of one, two or three elements is finite.
LEMMA SmallSets ==
  ASSUME NEW a, NEW b, NEW c
  PROVE  IsFiniteSet({a}) /\ IsFiniteSet({a, b}) /\ IsFiniteSet({a, b, c})
<1>1. IsFiniteSet({a})
  BY FS_Singleton
<1>2. IsFiniteSet({a} \cup {b})
  BY <1>1, FS_AddElement
<1>3. IsFiniteSet(({a} \cup {b}) \cup {c})
  BY <1>2, FS_AddElement
<1>4. {a} \cup {b} = {a, b} /\ ({a} \cup {b}) \cup {c} = {a, b, c}
  OBVIOUS
<1> QED BY <1>1, <1>2, <1>3, <1>4

\* There are three event sources at most.
LEMMA SourceCount ==
  ASSUME NEW S \in SUBSET Source
  PROVE  IsFiniteSet(S) /\ Cardinality(S) \in 0..3
<1>1. IsFiniteSet({"binder"}) /\ Cardinality({"binder"}) = 1
  BY FS_Singleton
<1>2. IsFiniteSet({"binder"} \cup {"alarm"}) /\ Cardinality({"binder"} \cup {"alarm"}) = 2
  BY <1>1, FS_AddElement
<1>3. /\ IsFiniteSet(({"binder"} \cup {"alarm"}) \cup {"uevent"})
      /\ Cardinality(({"binder"} \cup {"alarm"}) \cup {"uevent"}) = 3
  BY <1>2, FS_AddElement
<1>4. Source = ({"binder"} \cup {"alarm"}) \cup {"uevent"}
  BY DEF Source
<1>5. IsFiniteSet(S) /\ Cardinality(S) <= 3
  BY <1>3, <1>4, FS_Subset
<1> QED BY <1>5, FS_CardinalityType

\* The failures stay within their bound.
LEMMA FailType ==
  ASSUME TypeOK, NEW F, IsFiniteSet(F), F \subseteq SystemCall, Fail(F)
  PROVE  faults' \in 0..MaxFault /\ failed' \subseteq SystemCall
<1>1. Cardinality(F) \in Nat
  BY FS_CardinalityType
<1> QED BY <1>1, LoopAssumption DEF TypeOK, Fail

\* No failure.
LEMMA NoFailType ==
  ASSUME TypeOK, Fail({})
  PROVE  faults' \in 0..MaxFault /\ failed' \subseteq SystemCall
BY FS_EmptySet, FailType

\* update() keeps the alarm in its type.
LEMMA UpdateType ==
  ASSUME AlarmTypeOK, Update
  PROVE  AlarmTypeOK'
<1>1. CASE ~healthd_mode_ops
  BY <1>1 DEF Update, AlarmTypeOK, alarmVars
<1>2. CASE healthd_mode_ops
  BY <1>2, IntervalAssumption
     DEF Update, BatteryUpdateInternal, NewWakeInterval, PollInterval, SetInterval,
         TimerValue, ChargerOnline, AlarmTypeOK, FdState
<1> QED BY <1>1, <1>2

\* A registration keeps the count.
LEMMA RegisterType ==
  ASSUME TypeOK, EventsCounted, NEW s \in Source, s \notin registered, NEW fd, NEW F,
         RegisterIfOpen(s, fd, F)
  PROVE  /\ registered' \subseteq Source /\ registered' \in {registered, registered \cup {s}}
         /\ eventct' = Cardinality(registered') /\ eventct' \in 0..3
<1>1. IsFiniteSet(registered)
  BY SourceCount DEF TypeOK
<1>2. Cardinality(registered \cup {s}) = Cardinality(registered) + 1
  BY <1>1, FS_AddElement
<1>3. registered' \in {registered, registered \cup {s}} /\ eventct' = Cardinality(registered')
  BY <1>2 DEF RegisterIfOpen, RegisterEvent, EventsCounted
<1>4. registered' \subseteq Source
  BY <1>3 DEF TypeOK
<1> QED BY <1>3, <1>4, SourceCount

\* The static initialisers have their types.
LEMMA InitType == Init => TypeInv
<1> SUFFICES ASSUME Init PROVE TypeInv
  OBVIOUS
<1>1. Len(<<>>) = 0 /\ <<>> \in Seq(Message)
  OBVIOUS
<1>2. TypeOK
  <2>1. uevents = <<>>
    BY DEF Init
  <2>2. uevents \in Seq(Message) /\ Len(uevents) <= MaxUevent
    BY <1>1, <2>1, LoopAssumption
  <2>3. AlarmTypeOK
    <3>1. phase \in 0..1
      BY DEF Init, AlarmInit
    <3> QED BY <3>1, Zenon DEF Init, AlarmInit, AlarmTypeOK, FdState
  <2>4. /\ pc \in Stage /\ gBinderFd \in {"none", "open"} /\ uevent_fd \in FdState
        /\ instance_ \in BOOLEAN /\ published \in BOOLEAN /\ expired \in BOOLEAN
        /\ events \subseteq Source /\ registered \subseteq Source
        /\ due \subseteq {"alarm", "power"} /\ failed \subseteq SystemCall
    BY DEF Init, FdState, Stage
  <2>5. /\ eventct \in 0..3 /\ timeout \in {-1, IntervalFast * 1000} /\ nevents \in -1..3
        /\ calls \in 0..MaxCall /\ faults \in 0..MaxFault
    BY LoopAssumption DEF Init
  <2> QED BY <2>2, <2>3, <2>4, <2>5 DEF TypeOK
<1>3. EventsCounted /\ UeventWaits
  BY FS_EmptySet DEF Init, EventsCounted, UeventWaits
<1> QED BY <1>2, <1>3 DEF TypeInv

\* A process that exits.
LEMMA ExitType ==
  ASSUME TypeInv, NEW F, IsFiniteSet(F), F \subseteq SystemCall, Fail(F), Exit
  PROVE  TypeInv'
<1>1. Len(<<>>) = 0 /\ <<>> \in Seq(Message)
  OBVIOUS
<1>2. faults' \in 0..MaxFault /\ failed' \subseteq SystemCall
  BY FailType DEF TypeInv
<1>3. TypeOK'
  <2>1. uevents' = <<>>
    BY DEF Exit
  <2>2. uevents' \in Seq(Message) /\ Len(uevents') <= MaxUevent
    BY <1>1, <2>1, LoopAssumption
  <2>3. AlarmTypeOK'
    <3>1. phase' \in 0..1
      BY DEF Exit
    <3> QED BY <3>1, Zenon DEF Exit, AlarmTypeOK, FdState
  <2>4. /\ pc' \in Stage /\ gBinderFd' \in {"none", "open"} /\ uevent_fd' \in FdState
        /\ instance_' \in BOOLEAN /\ published' \in BOOLEAN /\ expired' \in BOOLEAN
        /\ events' \subseteq Source /\ registered' \subseteq Source
        /\ due' \subseteq {"alarm", "power"}
    BY DEF Exit, FdState, Stage
  <2>5. /\ eventct' \in 0..3 /\ timeout' \in {-1, IntervalFast * 1000} /\ nevents' \in -1..3
        /\ calls' \in 0..MaxCall
    BY LoopAssumption DEF Exit
  <2> QED BY <1>2, <2>2, <2>3, <2>4, <2>5 DEF TypeOK
<1>4. EventsCounted' /\ UeventWaits'
  BY FS_EmptySet DEF Exit, EventsCounted, UeventWaits
<1> QED BY <1>3, <1>4 DEF TypeInv

\* The steps of the start-up.
LEMMA StartUpType ==
  ASSUME TypeInv, StartUp
  PROVE  TypeInv'
<1> USE DEF TypeInv, serviceVars, loopVars, kernelVars
<1>1. CASE Main
  BY <1>1 DEF Main, TypeOK, AlarmTypeOK, Stage, EventsCounted, UeventWaits, faultVars
<1>2. CASE HealthdInit
  <2>1. CASE Fail({"epoll_create"}) /\ Exit
    BY <2>1, SmallSets, ExitType DEF SystemCall
  <2>2. CASE Fail({}) /\ pc' = "mode_init"
               /\ UNCHANGED <<alarmVars, serviceVars, loopVars, kernelVars, due>>
    <3>1. faults' \in 0..MaxFault /\ failed' \subseteq SystemCall
      BY <2>2, NoFailType
    <3>2. TypeOK'
      BY <2>2, <3>1 DEF TypeOK, AlarmTypeOK, alarmVars, Stage
    <3>3. EventsCounted' /\ UeventWaits'
      BY <1>2, <2>2 DEF HealthdInit, EventsCounted, UeventWaits
    <3> QED BY <3>2, <3>3
  <2> QED BY <1>2, <2>1, <2>2 DEF HealthdInit
<1>3. CASE ModeInit
  <2>1. CASE Fail({"registerAsService"}) /\ Exit
    BY <2>1, SmallSets, ExitType DEF SystemCall
  <2>2. ASSUME NEW F \in SUBSET {"setupTransportPolling", "epoll_ctl"},
               Fail(F), gBinderFd' = Opened("setupTransportPolling", F),
               RegisterIfOpen("binder", gBinderFd', F), instance_' = TRUE, published' = TRUE,
               pc' = "wakealarm_init", pc = "mode_init",
               UNCHANGED <<alarmVars, uevent_fd, loopVars, expired, uevents, calls, due>>
        PROVE  TypeInv'
    <3>1. faults' \in 0..MaxFault /\ failed' \subseteq SystemCall
      <4>1. IsFiniteSet(F)
        BY SmallSets, FS_Subset
      <4> QED BY <2>2, <4>1, FailType DEF SystemCall
    <3>2. "binder" \in Source /\ registered = {}
      BY <2>2 DEF EventsCounted, Source
    <3>3. /\ registered' \subseteq {"binder"} /\ registered' \subseteq Source
          /\ eventct' = Cardinality(registered') /\ eventct' \in 0..3
      BY <2>2, <3>2, RegisterType
    <3>4. TypeOK'
      BY <2>2, <3>1, <3>3 DEF TypeOK, AlarmTypeOK, alarmVars, Stage, Opened
    <3>5. EventsCounted' /\ UeventWaits'
      BY <2>2, <3>3 DEF EventsCounted, UeventWaits
    <3> QED BY <3>4, <3>5
  <2> QED BY <1>3, <2>1, <2>2 DEF ModeInit
<1>4. CASE WakealarmInit
  <2>1. PICK F \in SUBSET {"timerfd_create", "epoll_ctl", "timerfd_settime"} :
          /\ Fail(F)
          /\ wakealarm_fd' = Opened("timerfd_create", F)
          /\ RegisterIfOpen("alarm", wakealarm_fd', F)
          /\ SetInterval(wakealarm_fd', IntervalFast)
    BY <1>4 DEF WakealarmInit
  <2>2. faults' \in 0..MaxFault /\ failed' \subseteq SystemCall
    <3>1. IsFiniteSet(F)
      BY SmallSets, FS_Subset
    <3> QED BY <2>1, <3>1, FailType DEF SystemCall
  <2>3. "alarm" \in Source /\ registered \subseteq {"binder"} /\ "alarm" \notin registered
    BY <1>4 DEF WakealarmInit, EventsCounted, Source
  <2>4. /\ registered' \subseteq {"binder", "alarm"} /\ registered' \subseteq Source
        /\ eventct' = Cardinality(registered') /\ eventct' \in 0..3
    BY <2>1, <2>3, RegisterType
  <2>5. AlarmTypeOK'
    BY <1>4, <2>1, IntervalAssumption
       DEF WakealarmInit, TypeOK, AlarmTypeOK, SetInterval, TimerValue, Opened, FdState
  <2>6. TypeOK'
    BY <1>4, <2>2, <2>4, <2>5 DEF WakealarmInit, TypeOK, Stage
  <2>7. EventsCounted' /\ UeventWaits'
    BY <1>4, <2>4 DEF WakealarmInit, EventsCounted, UeventWaits
  <2> QED BY <2>6, <2>7
<1>5. CASE UeventInit
  <2>1. PICK F \in SUBSET {"uevent_open_socket", "epoll_ctl"} :
          /\ Fail(F)
          /\ uevent_fd' = Opened("uevent_open_socket", F)
          /\ RegisterIfOpen("uevent", uevent_fd', F)
    BY <1>5 DEF UeventInit
  <2>2. faults' \in 0..MaxFault /\ failed' \subseteq SystemCall
    <3>1. IsFiniteSet(F)
      BY SmallSets, FS_Subset
    <3> QED BY <2>1, <3>1, FailType DEF SystemCall
  <2>3. "uevent" \in Source /\ "uevent" \notin registered
    BY <1>5 DEF UeventInit, EventsCounted, Source
  <2>4. /\ registered' \subseteq Source
        /\ eventct' = Cardinality(registered') /\ eventct' \in 0..3
    BY <2>1, <2>3, RegisterType
  <2>5. uevent_fd' \in FdState
    BY <2>1 DEF Opened, FdState
  <2>6. TypeOK'
    BY <1>5, <2>2, <2>4, <2>5 DEF UeventInit, TypeOK, AlarmTypeOK, alarmVars, Stage
  <2>7. EventsCounted' /\ UeventWaits'
    BY <1>5, <2>4 DEF UeventInit, EventsCounted, UeventWaits
  <2> QED BY <2>6, <2>7
<1> QED BY <1>1, <1>2, <1>3, <1>4, <1>5 DEF StartUp

\* An update is in the types of the alarm and of due.
LEMMA BatteryUpdateType ==
  ASSUME TypeOK, HealthdBatteryUpdate \/ UNCHANGED <<alarmVars, due>>
  PROVE  AlarmTypeOK' /\ due' \subseteq {"alarm", "power"}
<1>1. CASE HealthdBatteryUpdate
  BY <1>1, UpdateType DEF HealthdBatteryUpdate, TypeOK
<1>2. CASE UNCHANGED <<alarmVars, due>>
  BY <1>2 DEF TypeOK, AlarmTypeOK, alarmVars
<1> QED BY <1>1, <1>2

\* The steps of the main loop and of its handlers.
LEMMA MainloopType ==
  ASSUME TypeInv, Mainloop
  PROVE  TypeInv'
<1> USE DEF TypeInv, serviceVars, loopVars, kernelVars
<1>1. CASE LoopTop
  <2>1. AlarmTypeOK' /\ due' \subseteq {"alarm", "power"}
    BY <1>1, BatteryUpdateType DEF LoopTop
  <2>2. timeout' \in {-1, IntervalFast * 1000}
    BY <1>1 DEF LoopTop, TypeOK, AlarmTypeOK, Preparetowait
  <2> QED BY <1>1, <2>1, <2>2 DEF LoopTop, TypeOK, EventsCounted, UeventWaits, faultVars, Stage
<1>2. CASE WaitReturns
  <2>1. Ready \subseteq Source /\ ("uevent" \in Ready => uevents # <<>>)
    BY DEF Ready, TypeOK
  <2>2. Cardinality(Ready) \in -1..3
    BY <2>1, SourceCount
  <2> QED BY <1>2, <2>1, <2>2 DEF WaitReturns, EpollReturns, TypeOK, AlarmTypeOK, alarmVars,
                                  EventsCounted, UeventWaits, faultVars, Stage
<1>3. CASE WaitInterrupted
  <2>1. faults' \in 0..MaxFault /\ failed' \subseteq SystemCall
    BY <1>3, SmallSets, FailType DEF WaitInterrupted, SystemCall
  <2> QED BY <1>3, <2>1 DEF WaitInterrupted, TypeOK, AlarmTypeOK, alarmVars, EventsCounted,
                            UeventWaits, Stage
<1>4. CASE WaitFails
  <2>1. Exit /\ (Fail({}) \/ Fail({"epoll_wait"}))
    BY <1>4 DEF WaitFails
  <2> QED BY <2>1, FS_EmptySet, SmallSets, ExitType DEF SystemCall
<1>5. CASE BinderEvent
  <2>1. AlarmTypeOK' /\ due' \subseteq {"alarm", "power"}
    BY <1>5, BatteryUpdateType DEF BinderEvent
  <2>2. calls' \in 0..MaxCall
    BY <1>5, LoopAssumption DEF BinderEvent, TypeOK
  <2> QED BY <1>5, <2>1, <2>2 DEF BinderEvent, Dispatched, TypeOK, EventsCounted, UeventWaits,
                                  faultVars
<1>6. CASE WakealarmEvent
  <2>1. AlarmTypeOK' /\ due' \subseteq {"alarm", "power"}
    BY <1>6, BatteryUpdateType DEF WakealarmEvent
  <2>2. faults' \in 0..MaxFault /\ failed' \subseteq SystemCall
    BY <1>6, SmallSets, FailType, NoFailType DEF WakealarmEvent, SystemCall
  <2>3. expired' \in BOOLEAN
    BY <1>6 DEF WakealarmEvent, TypeOK
  <2> QED BY <1>6, <2>1, <2>2, <2>3 DEF WakealarmEvent, Dispatched, TypeOK, EventsCounted,
                                        UeventWaits
<1>7. CASE UeventEvent
  <2>1. AlarmTypeOK' /\ due' \subseteq {"alarm", "power"}
    BY <1>7, BatteryUpdateType DEF UeventEvent
  <2>2. faults' \in 0..MaxFault /\ failed' \subseteq SystemCall
    BY <1>7, SmallSets, FailType, NoFailType DEF UeventEvent, SystemCall
  <2>3. uevents' \in Seq(Message) /\ Len(uevents') <= MaxUevent
    <3>1. uevents \in Seq(Message) /\ uevents # <<>> /\ Len(uevents) <= MaxUevent
      BY <1>7 DEF UeventEvent, Dispatched, TypeOK, UeventWaits
    <3>2. Tail(uevents) \in Seq(Message) /\ Len(Tail(uevents)) = Len(uevents) - 1
      BY <3>1
    <3>3. uevents' \in {uevents, Tail(uevents)}
      BY <1>7 DEF UeventEvent
    <3> QED BY <3>1, <3>2, <3>3, LoopAssumption
  <2> QED BY <1>7, <2>1, <2>2, <2>3 DEF UeventEvent, Dispatched, TypeOK, EventsCounted, UeventWaits
<1>8. CASE DispatchDone
  BY <1>8 DEF DispatchDone, TypeOK, AlarmTypeOK, alarmVars, EventsCounted, UeventWaits, faultVars,
              Stage
<1> QED BY <1>1, <1>2, <1>3, <1>4, <1>5, <1>6, <1>7, <1>8 DEF Mainloop

\* Every step keeps the types.
LEMMA NextType == TypeInv /\ [Next]_vars => TypeInv'
<1> SUFFICES ASSUME TypeInv, [Next]_vars PROVE TypeInv'
  OBVIOUS
<1> USE DEF TypeInv, serviceVars, loopVars, kernelVars
<1>1. CASE StartUp \/ Mainloop
  BY <1>1, StartUpType, MainloopType
<1>2. CASE Restart
  BY <1>2 DEF Restart, TypeOK, AlarmTypeOK, alarmVars, EventsCounted, UeventWaits, Stage
<1>3. CASE TimerExpire
  BY <1>3 DEF TimerExpire, TypeOK, AlarmTypeOK, alarmVars, EventsCounted, UeventWaits, faultVars
<1>4. CASE BinderArrive
  BY <1>4, LoopAssumption DEF BinderArrive, TypeOK, AlarmTypeOK, alarmVars, EventsCounted,
                              UeventWaits, faultVars
<1>5. ASSUME NEW m \in Message, UeventArrive(m) PROVE TypeInv'
  <2>1. /\ uevents' \in Seq(Message) /\ Len(uevents') <= MaxUevent
        /\ uevents # <<>> => uevents' # <<>>
    <3>1. uevents \in Seq(Message) /\ Len(uevents) <= MaxUevent
      BY DEF TypeOK
    <3>2. /\ Append(uevents, m) \in Seq(Message) /\ Len(Append(uevents, m)) = Len(uevents) + 1
          /\ Append(uevents, m) # <<>>
      BY <3>1
    <3> QED BY <1>5, <3>1, <3>2, LoopAssumption DEF UeventArrive
  <2> QED BY <1>5, <2>1 DEF UeventArrive, TypeOK, AlarmTypeOK, alarmVars, EventsCounted,
                            UeventWaits, faultVars
<1>6. CASE UNCHANGED vars
  BY <1>6 DEF vars, TypeOK, AlarmTypeOK, alarmVars, EventsCounted, UeventWaits, faultVars
<1> QED BY <1>1, <1>2, <1>3, <1>4, <1>5, <1>6 DEF Next

(***************************************************************************)
(* Type correctness of the start-up and the main loop: in particular       *)
(* eventct, which sizes the events array, is the number of registered      *)
(* descriptors, and uevent_event never reads an empty socket.              *)
(***************************************************************************)
THEOREM TypeInvariance == Spec => []TypeInv
BY InitType, NextType, PTL DEF Spec

\* The part of it that a run checks: every variable of the loop keeps its type.
THEOREM TypeCorrect == Spec => []TypeOK
<1>1. TypeInv => TypeOK
  BY DEF TypeInv
<1> QED BY <1>1, TypeInvariance, PTL
==============================================================================
