----------------------------- MODULE HealthLoop -----------------------------
(***************************************************************************)
(* Start-up and main loop of the health service: main(), healthd_main,     *)
(* healthd_init, healthd_mode_service_2_0_init, wakealarm_init,            *)
(* uevent_init, healthd_mainloop and the three event handlers, and init,   *)
(* which starts the service again when it exits.                           *)
(*                                                                         *)
(* The kernel is the environment: the wake alarm expires, uevents and      *)
(* binder calls arrive and are readable until they are read (EPOLLIN is    *)
(* level-triggered), and any system call may fail.  MaxFault bounds the    *)
(* failures of a behaviour.                                                *)
(***************************************************************************)
EXTENDS HealthdCommon, Sequences, FiniteSets

CONSTANTS
  MaxFault,   \* bound: failed system calls in a behaviour
  MaxUevent,  \* bound: uevents the socket buffer holds
  MaxCall     \* bound: binder calls that wait in the driver

ASSUME LoopAssumption ==
  /\ MaxFault \in Nat
  /\ MaxUevent \in Nat \ {0}
  /\ MaxCall \in Nat \ {0}

VARIABLES
  pc,          \* where the service is
  gBinderFd,   \* "none" (-1) or "open"
  uevent_fd,   \* "unset" (static zero), "none" (negative) or "open"
  instance_,   \* TRUE once Health::initInstance has made the singleton
  eventct,     \* descriptors the service believes it has registered
  timeout,     \* local of healthd_mainloop
  nevents,     \* local of healthd_mainloop
  events,      \* the part of the batch of epoll_wait still to be dispatched
  registered,  \* external: descriptors in the epoll set
  published,   \* external: known to hwservicemanager
  expired,     \* external: the alarm has expired since it was last read
  uevents,     \* external: messages in the uevent socket, oldest first
  calls,       \* external: binder calls that wait for the service
  due,         \* history: reasons for a battery update that has not run yet
  failed,      \* history: system calls that failed since the service started
  faults       \* history: number of failures so far

serviceVars == <<gBinderFd, uevent_fd, instance_, eventct>>
loopVars    == <<timeout, nevents, events>>
kernelVars  == <<registered, published, expired, uevents, calls>>
faultVars   == <<failed, faults>>
vars == <<alarmVars, pc, serviceVars, loopVars, kernelVars, due, faultVars>>

Source == {"binder", "alarm", "uevent"}

\* power: SUBSYSTEM=power_supply; other: any other subsystem; unusable: as long
\* as the buffer, or rejected by uevent_kernel_multicast_recv.
Message == {"power", "other", "unusable"}

SystemCall ==
  {"epoll_create", "epoll_ctl", "setupTransportPolling", "registerAsService",
   "timerfd_create", "timerfd_settime", "uevent_open_socket", "epoll_wait",
   "EINTR", "read", "recv"}

Stage == {"main", "init", "mode_init", "wakealarm_init", "uevent_init",
          "loop", "wait", "dispatch", "exited"}

TypeOK ==
  /\ AlarmTypeOK
  /\ pc \in Stage
  /\ gBinderFd \in {"none", "open"}
  /\ uevent_fd \in FdState
  /\ instance_ \in BOOLEAN
  /\ eventct \in 0..3
  /\ timeout \in {-1, IntervalFast * 1000}
  /\ nevents \in -1..3
  /\ events \subseteq Source
  /\ registered \subseteq Source
  /\ published \in BOOLEAN
  /\ expired \in BOOLEAN
  /\ uevents \in Seq(Message) /\ Len(uevents) <= MaxUevent
  /\ calls \in 0..MaxCall
  /\ due \subseteq {"alarm", "power"}
  /\ failed \subseteq SystemCall
  /\ faults \in 0..MaxFault

Init ==
  /\ AlarmInit
  /\ pc = "main"
  /\ gBinderFd = "none" /\ uevent_fd = "unset"
  /\ instance_ = FALSE
  /\ eventct = 0
  /\ timeout = -1 /\ nevents = 0 /\ events = {}
  /\ registered = {}
  /\ published = FALSE /\ expired = FALSE
  /\ uevents = <<>> /\ calls = 0
  /\ due = {}
  /\ failed = {} /\ faults = 0

-----------------------------------------------------------------------------
(***************************************************************************)
(* Failures and exits                                                      *)
(***************************************************************************)

\* The system calls F fail in this step.
Fail(F) ==
  /\ faults + Cardinality(F) <= MaxFault
  /\ faults' = faults + Cardinality(F)
  /\ failed' = failed \cup F

\* The process is gone: the kernel closes its descriptors, callers that wait
\* get an error, and the next process starts from the static initialisers.
Exit ==
  /\ pc' = "exited"
  /\ healthd_mode_ops' = FALSE /\ wakealarm_fd' = "unset"
  /\ wakealarm_wake_interval' = IntervalFast
  /\ awake_poll_interval' = -1
  /\ timer' = 0 /\ phase' = 0
  /\ gBinderFd' = "none" /\ uevent_fd' = "unset"
  /\ instance_' = FALSE /\ eventct' = 0
  /\ timeout' = -1 /\ nevents' = 0 /\ events' = {}
  /\ registered' = {} /\ published' = FALSE
  /\ expired' = FALSE /\ uevents' = <<>> /\ calls' = 0
  /\ due' = {}

\* init restarts a service of class hal that is not oneshot.
Restart ==
  /\ pc = "exited"
  /\ pc' = "main"
  /\ failed' = {}
  /\ UNCHANGED <<alarmVars, serviceVars, loopVars, kernelVars, due, faults>>

-----------------------------------------------------------------------------
(***************************************************************************)
(* Start-up                                                                *)
(***************************************************************************)

\* main() installs the ops; healthd_main() finds them.
Main ==
  /\ pc = "main"
  /\ healthd_mode_ops' = TRUE
  /\ pc' = "init"
  /\ UNCHANGED <<wakealarm_fd, wakealarm_wake_interval, awake_poll_interval, timer, phase,
                 serviceVars, loopVars, kernelVars, due, faultVars>>

\* Mutant: healthd_mode_ops->init is not called.
HealthdInitSkipsMode ==
  /\ pc = "init"
  /\ Fail({})
  /\ pc' = "wakealarm_init"
  /\ UNCHANGED <<alarmVars, serviceVars, loopVars, kernelVars, due>>

\* healthd_init: epoll_create, whose failure is exit(2); the three
\* initialisations follow.
HealthdInit ==
  /\ pc = "init"
  /\ \/ /\ Fail({"epoll_create"})
        /\ Exit
     \/ /\ Fail({})
        /\ pc' = "mode_init"
        /\ UNCHANGED <<alarmVars, serviceVars, loopVars, kernelVars, due>>

\* Mutant: eventct++ before epoll_ctl.
CountThenAdd(source, ok) ==
  /\ registered' = IF ok THEN registered \cup {source} ELSE registered
  /\ eventct' = eventct + 1

\* healthd_register_event: epoll_ctl, then eventct++.
RegisterEvent(source, ok) ==
  /\ registered' = IF ok THEN registered \cup {source} ELSE registered
  /\ eventct' = IF ok THEN eventct + 1 ELSE eventct

\* Only an open descriptor is registered; epoll_ctl may be among the calls F
\* that fail.
RegisterIfOpen(source, fd, F) ==
  IF fd = "open"
  THEN RegisterEvent(source, "epoll_ctl" \notin F)
  ELSE "epoll_ctl" \notin F /\ UNCHANGED <<registered, eventct>>

\* What opening a descriptor with the given call returns.
Opened(call, F) == IF call \in F THEN "none" ELSE "open"

\* healthd_mode_service_2_0_init: binder descriptor, singleton, registration.
\* A refused registerAsService fails the CHECK and aborts the process.
ModeInit ==
  /\ pc = "mode_init"
  /\ \/ /\ Fail({"registerAsService"})
        /\ Exit
     \/ \E F \in SUBSET {"setupTransportPolling", "epoll_ctl"} :
          /\ Fail(F)
          /\ gBinderFd' = Opened("setupTransportPolling", F)
          /\ RegisterIfOpen("binder", gBinderFd', F)
          /\ instance_' = TRUE
          /\ published' = TRUE
          /\ pc' = "wakealarm_init"
          /\ UNCHANGED <<alarmVars, uevent_fd, loopVars, expired, uevents, calls, due>>

\* wakealarm_init: a failed timerfd_create ends it; a failed registration does
\* not keep it from setting the alarm.
WakealarmInit ==
  /\ pc = "wakealarm_init"
  /\ \E F \in SUBSET {"timerfd_create", "epoll_ctl", "timerfd_settime"} :
       /\ Fail(F)
       /\ wakealarm_fd' = Opened("timerfd_create", F)
       /\ RegisterIfOpen("alarm", wakealarm_fd', F)
       /\ SetInterval(wakealarm_fd', IntervalFast)
       /\ "timerfd_settime" \in F <=> wakealarm_fd' = "open" /\ phase' = phase
  /\ pc' = "uevent_init"
  /\ UNCHANGED <<healthd_mode_ops, awake_poll_interval, gBinderFd, uevent_fd,
                 instance_, loopVars, published, expired, uevents, calls, due>>

\* uevent_init: neither failure stops the start-up.
UeventInit ==
  /\ pc = "uevent_init"
  /\ \E F \in SUBSET {"uevent_open_socket", "epoll_ctl"} :
       /\ Fail(F)
       /\ uevent_fd' = Opened("uevent_open_socket", F)
       /\ RegisterIfOpen("uevent", uevent_fd', F)
  /\ pc' = "loop"
  /\ UNCHANGED <<alarmVars, gBinderFd, instance_, loopVars, published, expired,
                 uevents, calls, due>>

-----------------------------------------------------------------------------
(***************************************************************************)
(* healthd_mainloop                                                        *)
(***************************************************************************)

\* healthd_battery_update, reached through periodic_chores too: whatever asked
\* for an update is satisfied by it.
HealthdBatteryUpdate == Update /\ due' = {}

\* Mutant: the mode asks to be woken every second.
PreparetowaitSecond == 1000

\* healthd_mode_service_2_0_preparetowait
Preparetowait == -1

\* The top of an iteration: the timeout is read before the chores, which run
\* in the first iteration and after a timeout; heartbeat does nothing.
LoopTop ==
  /\ pc = "loop"
  /\ timeout' =
       IF awake_poll_interval < 0 \/ (Preparetowait > 0 /\ Preparetowait < awake_poll_interval)
       THEN Preparetowait ELSE awake_poll_interval
  /\ IF nevents = 0 THEN HealthdBatteryUpdate ELSE UNCHANGED <<alarmVars, due>>
  /\ pc' = "wait"
  /\ UNCHANGED <<serviceVars, nevents, events, kernelVars, faultVars>>

\* external: the registered descriptors epoll_wait finds readable.
Ready ==
  {s \in registered :
     \/ s = "binder" /\ calls > 0
     \/ s = "alarm" /\ expired
     \/ s = "uevent" /\ uevents # <<>>}

\* epoll_wait returns the batch, or nothing when a timeout is set and over.
EpollReturns(batch) ==
  /\ pc = "wait"
  /\ eventct > 0
  /\ Ready # {} \/ timeout >= 0
  /\ events' = batch
  /\ nevents' = Cardinality(batch)
  /\ pc' = "dispatch"
  /\ UNCHANGED <<alarmVars, serviceVars, timeout, kernelVars, due, faultVars>>

\* Mutant: the events array has room for one event.
WaitReturnsOne == \E s \in Ready : EpollReturns({s})

\* The events array has room for all that is registered.
WaitReturns == EpollReturns(Ready)

\* EINTR goes round the loop with nevents = -1.
WaitInterrupted ==
  /\ pc = "wait"
  /\ eventct > 0
  /\ Fail({"EINTR"})
  /\ nevents' = -1
  /\ pc' = "loop"
  /\ UNCHANGED <<alarmVars, serviceVars, timeout, events, kernelVars, due>>

\* Any other error leaves the loop and healthd_main returns 3; epoll_wait
\* rejects an empty events array with EINVAL.
WaitFails ==
  /\ pc = "wait"
  /\ Fail(IF eventct = 0 THEN {} ELSE {"epoll_wait"})
  /\ Exit

\* The handler of one event of the batch is over.
Dispatched(s) ==
  /\ pc = "dispatch"
  /\ s \in events
  /\ events' = events \ {s}
  /\ UNCHANGED <<pc, serviceVars, timeout, nevents, registered, published>>

\* Mutant: the test of gBinderFd is inverted.
BinderEventInverted ==
  /\ Dispatched("binder")
  /\ calls' = IF gBinderFd = "none" THEN 0 ELSE calls
  /\ UNCHANGED <<alarmVars, due, expired, uevents, faultVars>>

\* binder_event: handleTransportPoll runs one or more of the calls that wait;
\* some of them (update, getHealthInfo, registerCallback) run update().
BinderEvent ==
  /\ Dispatched("binder")
  /\ IF gBinderFd = "open"
     THEN /\ calls' \in 0..calls - 1
          /\ HealthdBatteryUpdate \/ UNCHANGED <<alarmVars, due>>
     ELSE UNCHANGED <<alarmVars, due, calls>>
  /\ UNCHANGED <<expired, uevents, faultVars>>

\* Mutant: the alarm handler only reads the descriptor.
WakealarmEventNoChores ==
  /\ Dispatched("alarm")
  /\ expired' = FALSE
  /\ UNCHANGED <<alarmVars, due, uevents, calls, faultVars>>

\* wakealarm_event: no chores if the read fails.
WakealarmEvent ==
  /\ Dispatched("alarm")
  /\ \/ /\ Fail({})
        /\ expired' = FALSE
        /\ HealthdBatteryUpdate
     \/ /\ Fail({"read"})
        /\ UNCHANGED <<alarmVars, due, expired>>
  /\ UNCHANGED <<uevents, calls>>

\* uevent_event: one message is taken from the socket; a power_supply message
\* runs an update, everything else is dropped.
UeventEvent ==
  /\ Dispatched("uevent")
  /\ \/ /\ Fail({})
        /\ uevents' = Tail(uevents)
        /\ IF Head(uevents) = "power" THEN HealthdBatteryUpdate
           ELSE UNCHANGED <<alarmVars, due>>
     \/ /\ Fail({"recv"})
        /\ UNCHANGED <<alarmVars, due, uevents>>
  /\ UNCHANGED <<expired, calls>>

DispatchDone ==
  /\ pc = "dispatch"
  /\ events = {}
  /\ pc' = "loop"
  /\ UNCHANGED <<alarmVars, serviceVars, loopVars, kernelVars, due, faultVars>>

-----------------------------------------------------------------------------
(***************************************************************************)
(* Environment                                                             *)
(***************************************************************************)

\* external: the armed alarm expires, once per period; expiries that nobody
\* has read merge into one.
TimerExpire ==
  /\ timer > 0 /\ ~expired
  /\ expired' = TRUE
  /\ due' = due \cup {"alarm"}
  /\ UNCHANGED <<alarmVars, pc, serviceVars, loopVars, registered, published,
                 uevents, calls, faultVars>>

\* external: a message reaches the open socket; a full buffer loses it.
UeventArrive(m) ==
  /\ uevent_fd = "open"
  /\ uevents' = IF Len(uevents) < MaxUevent THEN Append(uevents, m) ELSE uevents
  /\ due' = IF m = "power" THEN due \cup {"power"} ELSE due
  /\ UNCHANGED <<alarmVars, pc, serviceVars, loopVars, registered, published,
                 expired, calls, faultVars>>

\* external: a client calls the published service.
BinderArrive ==
  /\ published
  /\ calls < MaxCall
  /\ calls' = calls + 1
  /\ UNCHANGED <<alarmVars, pc, serviceVars, loopVars, registered, published,
                 expired, uevents, due, faultVars>>

-----------------------------------------------------------------------------
StartUp == Main \/ HealthdInit \/ ModeInit \/ WakealarmInit \/ UeventInit

Mainloop ==
  \/ LoopTop
  \/ WaitReturns \/ WaitInterrupted \/ WaitFails
  \/ BinderEvent \/ WakealarmEvent \/ UeventEvent \/ DispatchDone

Next ==
  \/ StartUp \/ Mainloop \/ Restart
  \/ TimerExpire \/ BinderArrive
  \/ \E m \in Message : UeventArrive(m)

Spec == Init /\ [][Next]_vars

(***************************************************************************)
(* The process is scheduled, init restarts it, and an armed timer expires. *)
(* Uevents and calls need never come, and a failure is never forced:       *)
(* fairness is that of the steps in which no system call fails.            *)
(***************************************************************************)
Progress == (StartUp \/ Mainloop \/ Restart) /\ faults' = faults

FairSpec == Spec /\ WF_vars(Progress) /\ WF_vars(TimerExpire)

-----------------------------------------------------------------------------
(***************************************************************************)
(* Properties                                                              *)
(***************************************************************************)

InLoop == pc \in {"loop", "wait", "dispatch"}

(***************************************************************************)
(* Whatever failed during start-up, the loop never dereferences a null     *)
(* healthd_mode_ops and never trips the CHECK of Health::getImplementation.*)
(***************************************************************************)
SingletonReady == InLoop => healthd_mode_ops /\ instance_

\* The wait ends after the fast interval at the latest.
FastRate ==
  \/ "alarm" \in registered /\ timer = TimerValue(IntervalFast)
  \/ timeout = IntervalFast * 1000

(***************************************************************************)
(* The timeout that epoll_wait gets is read before the chores that may     *)
(* change the alarm: it still fits the alarm that is running.  With an     *)
(* alarm that could be created, registered and set, no wait is longer than *)
(* the fast interval.                                                      *)
(***************************************************************************)
TimeoutFitsAlarm ==
  pc = "wait" /\ "alarm" \in registered /\ "timerfd_settime" \notin failed => FastRate

(***************************************************************************)
(* What the comment in healthd_battery_update_internal says: "During awake *)
(* periods poll at fast rate", by the alarm if it is set at that rate and  *)
(* else by the timeout.  The code takes the alarm for set when it could    *)
(* not be created, registered or armed; the run shows a wait without end.  *)
(***************************************************************************)
PollsAtFastRate == pc = "wait" => FastRate

(***************************************************************************)
(* A due battery update happens: an expired alarm and a power_supply       *)
(* uevent, also one that a full socket buffer lost, lead to an update, if  *)
(* the alarm runs (the next periodic chores make up for what was lost).    *)
(* A service that exits owes nothing: its successor begins with an update. *)
(***************************************************************************)
UpdateHappens ==
  (due # {} /\ "alarm" \in registered /\ timer > 0) ~> (due = {})

\* A call on a binder descriptor that could be registered is answered: the
\* service serves it, or exits and the caller gets an error.  (A queue that
\* holds one call tells when it is answered; HealthService.tla has longer ones.)
CallsAnswered == ("binder" \in registered /\ calls > 0) ~> (calls = 0)

(***************************************************************************)
(* With finitely many failures the service always gets to wait on at least *)
(* one event source: one that could register nothing does not wait for     *)
(* ever, it exits (epoll_wait rejects eventct = 0) and is restarted.       *)
(***************************************************************************)
ComesUp == []<>(pc = "wait" /\ registered # {})
==============================================================================
