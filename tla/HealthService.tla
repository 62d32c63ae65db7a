---------------------------- MODULE HealthService ----------------------------
(***************************************************************************)
(* The health service as one process: the main loop of HealthLoop.tla runs *)
(* the handlers of Health.tla.  The service never starts a binder thread   *)
(* pool, so the thread of the main loop is the only one: binder_event      *)
(* takes one piece of work from the driver and runs its handler, and       *)
(* nothing else is dispatched until the handler has returned.              *)
(*                                                                         *)
(* The driver's queue holds the calls of clients and the obituaries, in    *)
(* the order they came.  A process that exits takes the registry, the      *)
(* death links and the queue with it; the next one starts with an empty    *)
(* registry.                                                               *)
(***************************************************************************)
EXTENDS HealthdCommon, Sequences, FiniteSets

CONSTANTS
  MaxFault, MaxUevent,     \* as in HealthLoop
  MaxCall,                 \* bound: calls of clients in the driver's queue
  Client, MaxReg,          \* as in Health
  NullCallback, NoThread,
  Looper                   \* the thread of main()

ASSUME ServiceAssumption ==
  /\ MaxFault \in Nat /\ MaxReg \in Nat
  /\ MaxUevent \in Nat \ {0} /\ MaxCall \in Nat \ {0}
  /\ NullCallback \notin Client /\ NoThread # Looper

VARIABLES
  lpc, gBinderFd, uevent_fd, instance_, eventct, timeout, nevents, events,
  registered, published, expired, uevents, due, failed, faults,
  callbacks_, callbacks_lock_, hpc, arg, reg, it, nextReg,
  alive, links, obits, linkFailed, heard, gone,
  work         \* external: the queue of the binder driver

\* The main loop sees of the queue how many pieces of work it holds.
Loop == INSTANCE HealthLoop WITH
          pc <- lpc, calls <- Len(work), MaxCall <- MaxCall + MaxReg

\* Nothing in the repository calls the battery_update hook.
Registry == INSTANCE Health WITH
              pc <- hpc, Thread <- {Looper}, HookCalled <- FALSE

registryVars == <<callbacks_, callbacks_lock_, hpc, arg, reg, it, nextReg,
                  alive, links, obits, linkFailed, heard, gone>>
idleLoopVars == <<lpc, gBinderFd, uevent_fd, instance_, eventct, timeout, nevents,
                  registered, published, expired, uevents, failed, faults>>
vars == <<alarmVars, idleLoopVars, events, due, registryVars, work>>

\* A call that carries a callback names it.  Update stands for update() and the
\* calls that run it, a query for a call that leaves no trace: a getter, or
\* registerCallback(nullptr).
CallItem == [op : {"register", "unregister"}, cb : Client, n : {0}]
              \cup [op : {"update", "query"}, cb : {NullCallback}, n : {0}]
Obituary(e) == [op |-> "died", cb |-> e.cb, n |-> e.n]

Queued(S) == {i \in DOMAIN work : work[i] \in S}

Init ==
  /\ work = <<>>
  /\ Loop!Init
  /\ callbacks_ = {} /\ callbacks_lock_ = NoThread
  /\ hpc = [t \in {Looper} |-> "idle"]
  /\ arg = [t \in {Looper} |-> NullCallback]
  /\ reg = [t \in {Looper} |-> Registry!NoReg]
  /\ it = [t \in {Looper} |-> 0]
  /\ nextReg = 1
  /\ alive = Client
  /\ links = {} /\ obits = {} /\ linkFailed = {}
  /\ heard = {} /\ gone = {}

-----------------------------------------------------------------------------
(***************************************************************************)
(* The main loop outside binder_event                                      *)
(***************************************************************************)

\* What a process that exits takes with it.
Forget ==
  /\ callbacks_' = {} /\ links' = {} /\ obits' = {} /\ linkFailed' = {}
  /\ nextReg' = 1
  /\ UNCHANGED <<callbacks_lock_, hpc, arg, reg, it, alive, heard, gone>>

\* A step of the main loop in which no binder handler runs.
OutsideBinder(A) ==
  /\ work' \in {work, <<>>}
  /\ A
  /\ IF lpc' = "exited" /\ lpc # "exited" THEN Forget ELSE UNCHANGED registryVars

-----------------------------------------------------------------------------
(***************************************************************************)
(* binder_event                                                            *)
(***************************************************************************)

InBinderEvent ==
  /\ lpc = "dispatch"
  /\ "binder" \in events
  /\ gBinderFd = "open"

NoHandler == UNCHANGED <<alarmVars, registryVars>>

\* The handler of the work at the head of the queue starts.  An obituary that
\* unlinkToDeath took back after it was queued calls nobody.
Start(w) ==
  /\ hpc[Looper] = "idle"
  /\ \/ w.op = "register" /\ Registry!RegisterCallback(Looper, w.cb)
     \/ w.op = "unregister" /\ Registry!UnregisterCallback(Looper, w.cb)
     \/ w.op = "update" /\ Registry!CallUpdate(Looper)
     \/ w.op = "query" /\ NoHandler
     \/ /\ w.op = "died"
        /\ \E e \in Registry!Reg :
             /\ w = Obituary(e)
             /\ Registry!ServiceDied(Looper, e) \/ (e \notin obits /\ NoHandler)

\* Mutant: binder_event goes on as long as the driver has work.
BinderStepDrains ==
  /\ InBinderEvent
  /\ Start(Head(work)) \/ Registry!Handle(Looper)
  /\ IF hpc'[Looper] = "idle"
     THEN work' = Tail(work) /\ events' = IF Len(work) > 1 THEN events ELSE events \ {"binder"}
     ELSE UNCHANGED <<work, events>>
  /\ due' = IF hpc[Looper] = "update" THEN {} ELSE due
  /\ UNCHANGED idleLoopVars

\* Mutant: an obituary gives way to the calls behind it.
BinderStepDefers ==
  /\ InBinderEvent
  /\ IF hpc[Looper] = "idle" /\ Head(work).op = "died" /\ Len(work) > 1
     THEN NoHandler /\ work' = Append(Tail(work), Head(work)) /\ events' = events \ {"binder"}
     ELSE /\ Start(Head(work)) \/ Registry!Handle(Looper)
          /\ IF hpc'[Looper] = "idle"
             THEN work' = Tail(work) /\ events' = events \ {"binder"}
             ELSE UNCHANGED <<work, events>>
  /\ due' = IF hpc[Looper] = "update" THEN {} ELSE due
  /\ UNCHANGED idleLoopVars

\* One step of the handler; when it returns, so do handleTransportPoll and
\* binder_event.
BinderStep ==
  /\ InBinderEvent
  /\ Start(Head(work)) \/ Registry!Handle(Looper)
  /\ IF hpc'[Looper] = "idle"
     THEN work' = Tail(work) /\ events' = events \ {"binder"}
     ELSE UNCHANGED <<work, events>>
  /\ due' = IF hpc[Looper] = "update" THEN {} ELSE due
  /\ UNCHANGED idleLoopVars

-----------------------------------------------------------------------------
(***************************************************************************)
(* Environment                                                             *)
(***************************************************************************)

\* external: the published service is called.  A callback is passed on by the
\* living process it belongs to; anybody may call without one, also when every
\* client with a callback is dead.
ClientCall(w) ==
  /\ published
  /\ w.cb \in alive \cup {NullCallback}
  /\ w.op = "register" => nextReg + Cardinality(Queued([op : {"register"}, cb : Client, n : {0}])) <= MaxReg
  /\ Cardinality(Queued(CallItem)) < MaxCall
  /\ work' = Append(work, w)
  /\ UNCHANGED <<alarmVars, idleLoopVars, events, due, registryVars>>

\* external: the driver queues the obituary of a dead client's link.
QueueObituary(e) ==
  /\ e \in obits
  /\ Queued({Obituary(e)}) = {}
  /\ work' = Append(work, Obituary(e))
  /\ UNCHANGED <<alarmVars, idleLoopVars, events, due, registryVars>>

Die(c) ==
  /\ Registry!Die(c)
  /\ UNCHANGED <<idleLoopVars, events, due, work>>

-----------------------------------------------------------------------------
LoopStep ==
  \/ OutsideBinder(Loop!StartUp)
  \/ OutsideBinder(Loop!LoopTop)
  \/ OutsideBinder(Loop!WaitReturns \/ Loop!WaitInterrupted \/ Loop!WaitFails)
  \/ OutsideBinder(Loop!WakealarmEvent \/ Loop!UeventEvent \/ Loop!DispatchDone)
  \/ OutsideBinder(Loop!Restart)

\* The looper is in one handler at a time.
ServiceStep == BinderStep \/ (hpc[Looper] = "idle" /\ LoopStep)

TimerExpire == OutsideBinder(Loop!TimerExpire)

Next ==
  \/ ServiceStep
  \/ TimerExpire
  \/ \E m \in Loop!Message : OutsideBinder(Loop!UeventArrive(m))
  \/ \E w \in CallItem : ClientCall(w)
  \/ \E e \in Registry!Reg : QueueObituary(e)
  \/ \E c \in Client : Die(c)

Spec == Init /\ [][Next]_vars

(***************************************************************************)
(* One thread is scheduled, init restarts it, an armed timer expires, and  *)
(* the driver queues the obituaries.  Unlike Health!Fairness nothing is    *)
(* assumed of the mutex or of the order in which work is handed out.       *)
(***************************************************************************)
Progress == ServiceStep /\ faults' = faults

FairSpec ==
  /\ Spec
  /\ WF_vars(Progress)
  /\ WF_vars(TimerExpire)
  /\ \A e \in Registry!Reg : WF_vars(QueueObituary(e))

-----------------------------------------------------------------------------
(***************************************************************************)
(* Properties                                                              *)
(***************************************************************************)

(***************************************************************************)
(* The service with its handlers is an implementation of HealthLoop: what  *)
(* the loop's runs and theorems say of BinderEvent holds of the steps the  *)
(* handlers really take.                                                   *)
(***************************************************************************)
ImplementsLoop == Loop!Spec

(***************************************************************************)
(* The looper never waits in epoll_wait, and never starts another event,   *)
(* with callbacks_lock_ held or a handler half done: the mutex is not      *)
(* recursive, and the thread would wait for itself for ever.               *)
(***************************************************************************)
LockFreeBetweenEvents ==
  hpc[Looper] = "idle" \/ ~InBinderEvent
    => callbacks_lock_ = NoThread /\ hpc[Looper] = "idle"

(***************************************************************************)
(* Also across restarts no registration of a dead client stays for ever:   *)
(* its obituary waits its turn behind the calls of others that never stop  *)
(* coming, alarms and uevents, is served, or the process exits.  A refused *)
(* linkToDeath and a binder descriptor that could not be registered, both  *)
(* ignored by the code, alone keep it.                                     *)
(***************************************************************************)
DeadDropped ==
  \A e \in Registry!Reg :
    (e \in callbacks_ /\ e.cb \notin alive)
      ~> (e \notin callbacks_ \/ e \in linkFailed \/ "binder" \notin registered)

(***************************************************************************)
(* A due battery update happens although clients keep calling: all ready   *)
(* events are dispatched in one round, so the alarm is not starved by the  *)
(* binder descriptor.                                                      *)
(***************************************************************************)
UpdateNotStarved ==
  (due # {} /\ "alarm" \in registered /\ timer > 0) ~> (due = {})
==============================================================================
