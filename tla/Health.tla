------------------------------- MODULE Health -------------------------------
(***************************************************************************)
(* The callback registry of the IHealth 2.0 service (health/Health.cpp):   *)
(* registerCallback, unregisterCallback, update, getHealthInfo, serviceDied*)
(* and notifyListeners, run by a set of handler threads that share         *)
(* callbacks_ under callbacks_lock_.  Clients and the binder driver are    *)
(* the environment: a client process may die at any moment, a link to      *)
(* death may be refused, and obituaries arrive late and in any order.      *)
(*                                                                         *)
(* The vector callbacks_ is the set of registrations it holds; a           *)
(* registration carries the number of the push_back that made it, so the   *)
(* order of the vector is the order of the numbers.  Each registration     *)
(* has a proxy of its own, and its death link is named by the registration.*)
(***************************************************************************)
EXTENDS HealthdCommon, FiniteSets

CONSTANTS
  Thread,        \* threads that run handlers (the main looper, binder threads)
  Client,        \* callback objects (interfacesEqual compares these)
  MaxReg,        \* bound: number of registerCallback calls that push
  HookCalled,    \* external: does anything call healthd_mode_ops->battery_update?
  NullCallback,  \* nullptr
  NoThread       \* callbacks_lock_ is free

ASSUME HealthAssumption ==
  /\ MaxReg \in Nat
  /\ HookCalled \in BOOLEAN
  /\ NullCallback \notin Client
  /\ NoThread \notin Thread

VARIABLES
  callbacks_,       \* set of registrations in the vector
  callbacks_lock_,  \* the thread that holds the mutex, or NoThread
  pc,               \* what each thread does next
  arg,              \* the callback its handler was called with
  reg,              \* the registration its handler works for, or NoReg
  it,               \* position of the iterator of notifyListeners
  nextReg,          \* number of the next push_back
  alive,            \* external: clients whose process lives
  links,            \* external: registrations with a death link in place
  obits,            \* external: obituaries not yet delivered
  linkFailed,       \* history: registrations in the vector whose linkToDeath was refused
  heard,            \* history: registrations called in the current or latest pass
  gone              \* history: clients unregistered and not registered since

registryVars == <<callbacks_, callbacks_lock_, nextReg>>
threadVars   == <<pc, arg, reg, it>>
linkVars     == <<alive, links, obits, linkFailed>>
vars == <<alarmVars, registryVars, threadVars, linkVars, heard, gone>>

Reg == [n : 1..MaxReg, cb : Client]
NoReg == [n |-> 0, cb |-> NullCallback]

Stage == {"idle", "push", "link", "update", "erase", "unlink", "notify", "call"}

RegsOf(S, c) == {e \in S : e.cb = c}

TypeOK ==
  /\ AlarmTypeOK
  /\ callbacks_ \subseteq Reg
  /\ callbacks_lock_ \in Thread \cup {NoThread}
  /\ pc \in [Thread -> Stage]
  /\ arg \in [Thread -> Client \cup {NullCallback}]
  /\ reg \in [Thread -> Reg \cup {NoReg}]
  /\ it \in [Thread -> 0..MaxReg + 1]
  /\ nextReg \in 1..MaxReg + 1
  /\ alive \subseteq Client
  /\ links \subseteq Reg
  /\ obits \subseteq Reg
  /\ linkFailed \subseteq Reg
  /\ heard \subseteq Reg
  /\ gone \subseteq Client

\* Handlers run once the main loop has started: the ops are installed and the
\* alarm is armed (HealthLoop.tla has the start-ups that fail).
Init ==
  /\ healthd_mode_ops = TRUE
  /\ wakealarm_fd = "open"
  /\ wakealarm_wake_interval = IntervalFast
  /\ awake_poll_interval = -1
  /\ timer = TimerValue(IntervalFast) /\ phase = 0
  /\ callbacks_ = {}
  /\ callbacks_lock_ = NoThread
  /\ pc = [t \in Thread |-> "idle"]
  /\ arg = [t \in Thread |-> NullCallback]
  /\ reg = [t \in Thread |-> NoReg]
  /\ it = [t \in Thread |-> 0]
  /\ nextReg = 1
  /\ alive = Client
  /\ links = {}
  /\ obits = {}
  /\ linkFailed = {}
  /\ heard = {}
  /\ gone = {}

-----------------------------------------------------------------------------
(***************************************************************************)
(* Thread control                                                          *)
(***************************************************************************)

Goto(t, stage) == pc' = [pc EXCEPT ![t] = stage]

\* Thread t is idle and starts a handler at the given stage.
Enter(t, stage, c, e) ==
  /\ pc[t] = "idle"
  /\ Goto(t, stage)
  /\ arg' = [arg EXCEPT ![t] = c]
  /\ reg' = [reg EXCEPT ![t] = e]
  /\ UNCHANGED it

\* The handler of t returns; its Result code goes to the caller and leaves no
\* trace in the service.
Return(t) ==
  /\ Goto(t, "idle")
  /\ arg' = [arg EXCEPT ![t] = NullCallback]
  /\ reg' = [reg EXCEPT ![t] = NoReg]
  /\ it' = [it EXCEPT ![t] = 0]

LockFree == callbacks_lock_ = NoThread

-----------------------------------------------------------------------------
(***************************************************************************)
(* registerCallback(callback)                                              *)
(***************************************************************************)

\* Bound: every call on its way to push_back still finds a number.
RegistrationsLeft == nextReg + Cardinality({t \in Thread : pc[t] = "push"}) <= MaxReg

\* Mutant: the null check is missing.
RegisterNoNullCheck(t, c) ==
  /\ RegistrationsLeft /\ Enter(t, "push", c, NoReg)
  /\ gone' = gone \ {c}
  /\ UNCHANGED <<alarmVars, registryVars, linkVars, heard>>

\* A null callback is accepted and ignored.
RegisterCallback(t, c) ==
  /\ IF c = NullCallback
     THEN pc[t] = "idle" /\ Return(t)
     ELSE RegistrationsLeft /\ Enter(t, "push", c, NoReg)
  /\ gone' = gone \ {c}
  /\ UNCHANGED <<alarmVars, registryVars, linkVars, heard>>

\* callbacks_.push_back(callback)
PushBack(t) ==
  /\ pc[t] = "push"
  /\ nextReg <= MaxReg
  /\ LET e == [n |-> nextReg, cb |-> arg[t]]
     IN  /\ callbacks_' = callbacks_ \cup {e}
         /\ reg' = [reg EXCEPT ![t] = e]
  /\ nextReg' = nextReg + 1
  /\ Goto(t, "link")
  /\ UNCHANGED <<alarmVars, callbacks_lock_, arg, it, linkVars, heard, gone>>

\* Mutant: push_back outside the scope of the lock_guard.
RegisterPushUnlocked(t) == PushBack(t)

\* lock; push_back; unlock.
RegisterPush(t) == LockFree /\ PushBack(t)

\* linkToDeath, with no lock held.  A dead client is refused, or its obituary
\* is queued at once; an error is ignored.
RegisterLink(t) ==
  /\ pc[t] = "link"
  /\ \/ /\ arg[t] \in alive
        /\ links' = links \cup {reg[t]}
        /\ UNCHANGED <<obits, linkFailed>>
     \/ /\ arg[t] \notin alive
        /\ obits' = obits \cup {reg[t]}
        /\ UNCHANGED <<links, linkFailed>>
     \/ /\ linkFailed' = linkFailed \cup ({reg[t]} \cap callbacks_)
        /\ UNCHANGED <<links, obits>>
  /\ Goto(t, "update")
  /\ UNCHANGED <<alarmVars, registryVars, arg, reg, it, alive, heard, gone>>

-----------------------------------------------------------------------------
(***************************************************************************)
(* update(), which registerCallback runs too.                              *)
(***************************************************************************)

\* A client calls update(), getHealthInfo() or debug(), or the main loop runs
\* its chores.
CallUpdate(t) ==
  /\ Enter(t, "update", NullCallback, NoReg)
  /\ UNCHANGED <<alarmVars, registryVars, linkVars, heard, gone>>

\* Mutant: update() calls getHealthInfo(), which calls update().
RunUpdateRecurses(t) ==
  /\ pc[t] = "update"
  /\ Update
  /\ UNCHANGED <<threadVars, registryVars, linkVars, heard, gone>>

\* Only the wake alarm is adjusted; battery_update is not called.
RunUpdate(t) ==
  /\ pc[t] = "update"
  /\ Update
  /\ Return(t)
  /\ UNCHANGED <<registryVars, linkVars, heard, gone>>

-----------------------------------------------------------------------------
(***************************************************************************)
(* unregisterCallback(callback), serviceDied(cookie, who) and the          *)
(* unregisterCallbackInternal they share.                                  *)
(***************************************************************************)

\* A null callback is accepted and ignored.
UnregisterCallback(t, c) ==
  /\ IF c = NullCallback
     THEN pc[t] = "idle" /\ Return(t)
     ELSE Enter(t, "erase", c, NoReg)
  /\ UNCHANGED <<alarmVars, registryVars, linkVars, heard, gone>>

\* Mutant: serviceDied does not unregister.
ServiceDiedIgnored(t, e) ==
  /\ e \in obits
  /\ obits' = obits \ {e}
  /\ pc[t] = "idle"
  /\ UNCHANGED <<alarmVars, registryVars, threadVars, alive, links, linkFailed, heard, gone>>

\* who.promote() succeeds while the vector holds the proxy; a proxy nobody
\* holds may be gone, and unregisterCallbackInternal(nullptr) does nothing.
ServiceDied(t, e) ==
  /\ e \in obits
  /\ obits' = obits \ {e}
  /\ \/ Enter(t, "erase", e.cb, e)
     \/ /\ pc[t] = "idle"
        /\ e \notin callbacks_
        /\ UNCHANGED threadVars
  /\ UNCHANGED <<alarmVars, registryVars, alive, links, linkFailed, heard, gone>>

\* Thread t takes the lock, erases the registrations S and keeps the lock.
EraseSet(t, S) ==
  /\ pc[t] = "erase"
  /\ callbacks_lock_' = t
  /\ callbacks_' = callbacks_ \ S
  /\ linkFailed' = linkFailed \ S
  /\ Goto(t, "unlink")
  /\ UNCHANGED <<alarmVars, nextReg, arg, reg, it, alive, links, obits, heard, gone>>

\* Mutant: unregisterCallbackInternal without its lock_guard.
EraseUnlocked(t) == EraseSet(t, RegsOf(callbacks_, arg[t]))

\* Mutant: the loop stops at the first match.
EraseFirst(t) ==
  /\ LockFree
  /\ EraseSet(t, {e \in RegsOf(callbacks_, arg[t]) :
                    \A f \in RegsOf(callbacks_, arg[t]) : e.n <= f.n})

\* lock; erase every registration of the callback.
Erase(t) == LockFree /\ EraseSet(t, RegsOf(callbacks_, arg[t]))

\* A registerCallback(c) is on its way to push_back.
Registering(c) == \E t \in Thread : pc[t] = "push" /\ arg[t] = c

\* Mutant: the mutex is locked and never unlocked.
UnlinkKeepsLock(t) ==
  /\ pc[t] = "unlink"
  /\ gone' = IF Registering(arg[t]) THEN gone ELSE gone \cup {arg[t]}
  /\ Return(t)
  /\ UNCHANGED <<alarmVars, registryVars, alive, links, obits, linkFailed, heard>>

\* unlinkToDeath takes back one link of the callback, or none (errors are
\* ignored), still under the lock, which the return releases.
Unlink(t) ==
  /\ pc[t] = "unlink"
  /\ \E S \in {{}} \cup {{e} : e \in RegsOf(links \cup obits, arg[t])} :
       links' = links \ S /\ obits' = obits \ S
  /\ callbacks_lock_' = NoThread
  /\ gone' = IF Registering(arg[t]) THEN gone ELSE gone \cup {arg[t]}
  /\ Return(t)
  /\ UNCHANGED <<alarmVars, callbacks_, nextReg, alive, linkFailed, heard>>

-----------------------------------------------------------------------------
(***************************************************************************)
(* healthd_mode_service_2_0_battery_update and notifyListeners             *)
(***************************************************************************)

\* external: the battery monitor library calls the hook.
BatteryUpdate(t) ==
  /\ HookCalled
  /\ Enter(t, "notify", NullCallback, NoReg)
  /\ UNCHANGED <<alarmVars, registryVars, linkVars, heard, gone>>

\* The HealthInfo is assembled, then lock; it = begin().
NotifyLock(t) ==
  /\ pc[t] = "notify"
  /\ LockFree
  /\ callbacks_lock_' = t
  /\ it' = [it EXCEPT ![t] = 1]
  /\ heard' = {}
  /\ Goto(t, "call")
  /\ UNCHANGED <<alarmVars, callbacks_, nextReg, arg, reg, linkVars, gone>>

\* What the iterator at position n has still to visit.
Ahead(n) == {e \in callbacks_ : e.n >= n}

\* (*it)->healthInfoChanged: a dead object is erased, any other outcome keeps
\* the registration; the iterator moves to the next one, and skip further if
\* it erased one.
CallNext(t, skip) ==
  /\ pc[t] = "call"
  /\ \E e \in Ahead(it[t]) :
       /\ \A f \in Ahead(it[t]) : e.n <= f.n
       /\ heard' = heard \cup {e}
       /\ IF e.cb \in alive
          THEN /\ it' = [it EXCEPT ![t] = e.n + 1]
               /\ UNCHANGED <<callbacks_, linkFailed>>
          ELSE /\ it' = [it EXCEPT ![t] = e.n + 1 + skip]
               /\ callbacks_' = callbacks_ \ {e}
               /\ linkFailed' = linkFailed \ {e}
  /\ UNCHANGED <<alarmVars, callbacks_lock_, nextReg, pc, arg, reg, alive, links, obits, gone>>

\* Mutant: ++it after it = erase(it).
NotifyCallSkips(t) == CallNext(t, 1)

\* One turn of the loop of notifyListeners.
NotifyCall(t) == CallNext(t, 0)

\* it == end(): unlock and return.
NotifyDone(t) ==
  /\ pc[t] = "call"
  /\ Ahead(it[t]) = {}
  /\ callbacks_lock_' = NoThread
  /\ Return(t)
  /\ UNCHANGED <<alarmVars, callbacks_, nextReg, linkVars, heard, gone>>

-----------------------------------------------------------------------------
(***************************************************************************)
(* Environment: the process of client c dies; the driver turns its death   *)
(* links into obituaries.                                                  *)
(***************************************************************************)
Die(c) ==
  /\ c \in alive
  /\ alive' = alive \ {c}
  /\ obits' = obits \cup RegsOf(links, c)
  /\ links' = links \ RegsOf(links, c)
  /\ UNCHANGED <<alarmVars, registryVars, threadVars, linkFailed, heard, gone>>

-----------------------------------------------------------------------------
Call(t) ==
  \/ \E c \in Client \cup {NullCallback} : RegisterCallback(t, c)
  \/ \E c \in Client \cup {NullCallback} : UnregisterCallback(t, c)
  \/ CallUpdate(t)
  \/ BatteryUpdate(t)

Handle(t) ==
  \/ RegisterPush(t) \/ RegisterLink(t) \/ RunUpdate(t)
  \/ Erase(t) \/ Unlink(t)
  \/ NotifyLock(t) \/ NotifyCall(t) \/ NotifyDone(t)

Next ==
  \/ \E t \in Thread : Call(t) \/ Handle(t)
  \/ \E t \in Thread, e \in Reg : ServiceDied(t, e)
  \/ \E c \in Client : Die(c)

Spec == Init /\ [][Next]_vars

(***************************************************************************)
(* A running handler is scheduled again (WF), gets the mutex if it is free *)
(* over and over (SF: the operating system does not starve a waiter), and  *)
(* threads that keep becoming idle take obituaries from the driver (SF),   *)
(* in whichever order.  Nothing is assumed of clients.                     *)
(***************************************************************************)
Fairness ==
  /\ \A t \in Thread : SF_vars(Handle(t))
  /\ SF_vars(\E t \in Thread, e \in Reg : ServiceDied(t, e))

FairSpec == Spec /\ Fairness

-----------------------------------------------------------------------------
(***************************************************************************)
(* Properties                                                              *)
(***************************************************************************)

\* A thread is between taking registration e in hand and acting on it: about
\* to link it to death (registerCallback) or to erase it (serviceDied).
InHand(e) == \E t \in Thread : reg[t] = e /\ pc[t] \in {"link", "erase"}

(***************************************************************************)
(* No registration is forgotten: as long as callbacks_ holds it, a death   *)
(* link is in place (its client lives), or its obituary is queued or being *)
(* handled, or its link is still being made; the only exception is a       *)
(* linkToDeath that returned an error, which registerCallback ignores.     *)
(* Rests on unlinkToDeath running under callbacks_lock_ after every        *)
(* registration of the callback is erased.                                 *)
(***************************************************************************)
EveryEntryWatched ==
  \A e \in callbacks_ :
    \/ e \in links /\ e.cb \in alive
    \/ e \in obits \cup linkFailed
    \/ InHand(e)

(***************************************************************************)
(* Once unregisterCallback (or serviceDied) has returned and nobody has    *)
(* called registerCallback with that callback since, the vector holds no   *)
(* registration of it, however often it had been registered.               *)
(***************************************************************************)
UnregisterSticks == \A c \in gone : RegsOf(callbacks_, c) = {}

(***************************************************************************)
(* The iterator of notifyListeners stays valid across the calls into       *)
(* clients: while a pass is under way only the pass changes callbacks_.    *)
(***************************************************************************)
IteratorStaysValid ==
  [][\A t \in Thread :
       pc[t] = "call" /\ it'[t] = it[t] /\ pc'[t] = "call"
         => callbacks_' = callbacks_]_vars

(***************************************************************************)
(* notifyListeners misses nobody: a registration the iterator has passed   *)
(* and left in the vector was called in this pass, also when the one       *)
(* before it was erased as a dead object.                                  *)
(***************************************************************************)
NotifyReachesAll ==
  \A t \in Thread : pc[t] = "call" =>
    \A e \in callbacks_ : e.n < it[t] => e \in heard

(***************************************************************************)
(* After a client's death the vector holds, in the end, no registration of *)
(* a dead client whose death link was not refused: serviceDied is          *)
(* delivered and erases all of them, also those a late registerCallback    *)
(* pushed after the death.                                                 *)
(***************************************************************************)
DeadDropped ==
  alive # Client ~> \A e \in callbacks_ \ linkFailed : e.cb \in alive

\* Every handler returns: no thread waits for callbacks_lock_ for ever.
HandlersReturn == \A t \in Thread : pc[t] # "idle" ~> pc[t] = "idle"

(***************************************************************************)
(* What the comment in Health::update() says: update() calls               *)
(* battery_update, which calls notifyListeners.  So when a registerCallback*)
(* has returned, its callback has received the health info.  The code does *)
(* not do this; the run that checks it shows the counterexample.           *)
(***************************************************************************)
RegisterDelivers ==
  \A e \in callbacks_ :
    (\A t \in Thread : reg[t] # e) => e \in heard
==============================================================================
