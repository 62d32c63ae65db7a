---------------------------- MODULE HealthProofs ----------------------------
(***************************************************************************)
(* Proofs of the safety properties of Health.tla, for any number of        *)
(* threads, clients and registrations.                                     *)
(***************************************************************************)
EXTENDS Health, HealthQueries, TLAPS

\* A thread is inside the critical section exactly when it holds the mutex.
LockHeld ==
  \A t \in Thread : pc[t] \in {"unlink", "call"} <=> callbacks_lock_ = t

\* The handlers that work for a callback have a real one, and a handler that
\* works for a registration works for that registration's callback.
ArgsMatch ==
  \A t \in Thread :
    /\ pc[t] \in {"push", "link", "erase", "unlink"} => arg[t] \in Client
    /\ pc[t] = "link" => reg[t] \in Reg /\ arg[t] = reg[t].cb
    /\ pc[t] = "erase" /\ reg[t] # NoReg => arg[t] = reg[t].cb

\* When unlinkToDeath runs, no registration of the callback is left.
ErasedBeforeUnlink ==
  \A t \in Thread : pc[t] = "unlink" => \A e \in callbacks_ : e.cb # arg[t]

\* An unregistered client has no registration and none on its way.
GoneMeansGone ==
  \A c \in gone :
    /\ \A e \in callbacks_ : e.cb # c
    /\ \A t \in Thread : pc[t] = "push" => arg[t] # c

\* push_back numbers the registrations: no number is used twice.
Numbered ==
  /\ \A e \in callbacks_ : e.n < nextReg
  /\ \A e, f \in callbacks_ : e.n = f.n => e = f

\* The inductive invariant.
Inv ==
  /\ TypeOK
  /\ LockHeld
  /\ ArgsMatch
  /\ ErasedBeforeUnlink
  /\ GoneMeansGone
  /\ Numbered
  /\ NotifyReachesAll
  /\ EveryEntryWatched

-----------------------------------------------------------------------------
\* Update keeps the alarm state in its type and touches nothing else.
LEMMA UpdateType ==
  ASSUME AlarmTypeOK, Update
  PROVE  AlarmTypeOK'
<1>1. CASE ~healthd_mode_ops
  BY <1>1 DEF Update, AlarmTypeOK, alarmVars
<1>2. CASE healthd_mode_ops
  BY <1>2, IntervalAssumption
     DEF Update, BatteryUpdateInternal, NewWakeInterval, PollInterval, SetInterval,
         TimerValue, ChargerOnline, AlarmTypeOK, FdState
<1> QED BY <1>1, <1>2

\* The initial state satisfies the inductive invariant.
LEMMA InitInv == Init => Inv
<1> SUFFICES ASSUME Init PROVE Inv
  OBVIOUS
<1> USE DEF Init
<1>1. TypeOK
  BY HealthAssumption, IntervalAssumption
     DEF TypeOK, AlarmTypeOK, FdState, TimerValue, Stage, Reg, NoReg
<1>2. LockHeld /\ ArgsMatch /\ ErasedBeforeUnlink
  BY HealthAssumption DEF LockHeld, ArgsMatch, ErasedBeforeUnlink
<1>3. GoneMeansGone /\ Numbered /\ NotifyReachesAll /\ EveryEntryWatched
  BY DEF GoneMeansGone, Numbered, NotifyReachesAll, EveryEntryWatched
<1> QED BY <1>1, <1>2, <1>3 DEF Inv

\* registerCallback, up to the lock.
LEMMA RegisterCallbackInv ==
  ASSUME Inv, NEW t \in Thread, NEW c \in Client \cup {NullCallback}, RegisterCallback(t, c)
  PROVE  Inv'
<1> USE HealthAssumption
    DEF Inv, RegisterCallback, Enter, Return, Goto,
        alarmVars, registryVars, threadVars, linkVars
<1>1. TypeOK'
  BY DEF TypeOK, AlarmTypeOK, Stage, Reg, NoReg, ArgsMatch
<1>2. LockHeld' /\ ArgsMatch' /\ ErasedBeforeUnlink'
  BY DEF LockHeld, ArgsMatch, ErasedBeforeUnlink, TypeOK, Reg, NoReg
<1>3. GoneMeansGone' /\ Numbered'
  BY DEF GoneMeansGone, Numbered, ErasedBeforeUnlink, ArgsMatch, TypeOK, Reg
<1>4. NotifyReachesAll'
  BY DEF NotifyReachesAll, LockHeld, Numbered, TypeOK, Reg
<1>5. EveryEntryWatched'
  BY DEF EveryEntryWatched, InHand, ErasedBeforeUnlink, ArgsMatch, TypeOK, Reg, NoReg
<1> QED BY <1>1, <1>2, <1>3, <1>4, <1>5

\* unregisterCallback, up to the lock.
LEMMA UnregisterCallbackInv ==
  ASSUME Inv, NEW t \in Thread, NEW c \in Client \cup {NullCallback}, UnregisterCallback(t, c)
  PROVE  Inv'
<1> USE HealthAssumption
    DEF Inv, UnregisterCallback, Enter, Return, Goto,
        alarmVars, registryVars, threadVars, linkVars
<1>1. TypeOK'
  BY DEF TypeOK, AlarmTypeOK, Stage, Reg, NoReg, ArgsMatch
<1>2. LockHeld' /\ ArgsMatch' /\ ErasedBeforeUnlink'
  BY DEF LockHeld, ArgsMatch, ErasedBeforeUnlink, TypeOK, Reg, NoReg
<1>3. GoneMeansGone' /\ Numbered'
  BY DEF GoneMeansGone, Numbered, ErasedBeforeUnlink, ArgsMatch, TypeOK, Reg
<1>4. NotifyReachesAll'
  BY DEF NotifyReachesAll, LockHeld, Numbered, TypeOK, Reg
<1>5. EveryEntryWatched'
  BY DEF EveryEntryWatched, InHand, ErasedBeforeUnlink, ArgsMatch, TypeOK, Reg, NoReg
<1> QED BY <1>1, <1>2, <1>3, <1>4, <1>5

\* A call of update().
LEMMA CallUpdateInv ==
  ASSUME Inv, NEW t \in Thread, CallUpdate(t)
  PROVE  Inv'
<1> USE HealthAssumption
    DEF Inv, CallUpdate, Enter, Goto,
        alarmVars, registryVars, threadVars, linkVars
<1>1. TypeOK'
  BY DEF TypeOK, AlarmTypeOK, Stage, Reg, NoReg, ArgsMatch
<1>2. LockHeld' /\ ArgsMatch' /\ ErasedBeforeUnlink'
  BY DEF LockHeld, ArgsMatch, ErasedBeforeUnlink, TypeOK, Reg, NoReg
<1>3. GoneMeansGone' /\ Numbered'
  BY DEF GoneMeansGone, Numbered, ErasedBeforeUnlink, ArgsMatch, TypeOK, Reg
<1>4. NotifyReachesAll'
  BY DEF NotifyReachesAll, LockHeld, Numbered, TypeOK, Reg
<1>5. EveryEntryWatched'
  BY DEF EveryEntryWatched, InHand, ErasedBeforeUnlink, ArgsMatch, TypeOK, Reg, NoReg
<1> QED BY <1>1, <1>2, <1>3, <1>4, <1>5

\* A call of the battery_update hook.
LEMMA BatteryUpdateInv ==
  ASSUME Inv, NEW t \in Thread, BatteryUpdate(t)
  PROVE  Inv'
<1> USE HealthAssumption
    DEF Inv, BatteryUpdate, Enter, Goto,
        alarmVars, registryVars, threadVars, linkVars
<1>1. TypeOK'
  BY DEF TypeOK, AlarmTypeOK, Stage, Reg, NoReg, ArgsMatch
<1>2. LockHeld' /\ ArgsMatch' /\ ErasedBeforeUnlink'
  BY DEF LockHeld, ArgsMatch, ErasedBeforeUnlink, TypeOK, Reg, NoReg
<1>3. GoneMeansGone' /\ Numbered'
  BY DEF GoneMeansGone, Numbered, ErasedBeforeUnlink, ArgsMatch, TypeOK, Reg
<1>4. NotifyReachesAll'
  BY DEF NotifyReachesAll, LockHeld, Numbered, TypeOK, Reg
<1>5. EveryEntryWatched'
  BY DEF EveryEntryWatched, InHand, ErasedBeforeUnlink, ArgsMatch, TypeOK, Reg, NoReg
<1> QED BY <1>1, <1>2, <1>3, <1>4, <1>5

\* push_back under the lock.
LEMMA RegisterPushInv ==
  ASSUME Inv, NEW t \in Thread, RegisterPush(t)
  PROVE  Inv'
<1> USE HealthAssumption
    DEF Inv, RegisterPush, PushBack, LockFree, Goto,
        alarmVars, registryVars, threadVars, linkVars
<1>1. TypeOK'
  BY DEF TypeOK, AlarmTypeOK, Stage, Reg, NoReg, ArgsMatch
<1>2. LockHeld' /\ ArgsMatch' /\ ErasedBeforeUnlink'
  BY DEF LockHeld, ArgsMatch, ErasedBeforeUnlink, TypeOK, Reg, NoReg
<1>3. GoneMeansGone' /\ Numbered'
  BY DEF GoneMeansGone, Numbered, ErasedBeforeUnlink, ArgsMatch, TypeOK, Reg
<1>4. NotifyReachesAll'
  BY DEF NotifyReachesAll, LockHeld, Numbered, TypeOK, Reg
<1>5. EveryEntryWatched'
  BY DEF EveryEntryWatched, InHand, ErasedBeforeUnlink, ArgsMatch, TypeOK, Reg, NoReg
<1> QED BY <1>1, <1>2, <1>3, <1>4, <1>5

\* linkToDeath.
LEMMA RegisterLinkInv ==
  ASSUME Inv, NEW t \in Thread, RegisterLink(t)
  PROVE  Inv'
<1> USE HealthAssumption
    DEF Inv, RegisterLink, Goto,
        alarmVars, registryVars, threadVars, linkVars
<1>1. TypeOK'
  BY DEF TypeOK, AlarmTypeOK, Stage, Reg, NoReg, ArgsMatch
<1>2. LockHeld' /\ ArgsMatch' /\ ErasedBeforeUnlink'
  BY DEF LockHeld, ArgsMatch, ErasedBeforeUnlink, TypeOK, Reg, NoReg
<1>3. GoneMeansGone' /\ Numbered'
  BY DEF GoneMeansGone, Numbered, ErasedBeforeUnlink, ArgsMatch, TypeOK, Reg
<1>4. NotifyReachesAll'
  BY DEF NotifyReachesAll, LockHeld, Numbered, TypeOK, Reg
<1>5. EveryEntryWatched'
  BY DEF EveryEntryWatched, InHand, ErasedBeforeUnlink, ArgsMatch, TypeOK, Reg, NoReg
<1> QED BY <1>1, <1>2, <1>3, <1>4, <1>5

\* The body of update().
LEMMA RunUpdateInv ==
  ASSUME Inv, NEW t \in Thread, RunUpdate(t)
  PROVE  Inv'
<1> USE HealthAssumption
    DEF Inv, RunUpdate, Return, Goto,
        alarmVars, registryVars, threadVars, linkVars
<1>1. TypeOK'
  <2>1. AlarmTypeOK'
    BY UpdateType DEF TypeOK
  <2> QED BY <2>1 DEF TypeOK, Stage, Reg, NoReg
<1>2. LockHeld' /\ ArgsMatch' /\ ErasedBeforeUnlink'
  BY DEF LockHeld, ArgsMatch, ErasedBeforeUnlink, TypeOK, Reg, NoReg
<1>3. GoneMeansGone' /\ Numbered'
  BY DEF GoneMeansGone, Numbered, ErasedBeforeUnlink, ArgsMatch, TypeOK, Reg
<1>4. NotifyReachesAll'
  BY DEF NotifyReachesAll, LockHeld, Numbered, TypeOK, Reg
<1>5. EveryEntryWatched'
  BY DEF EveryEntryWatched, InHand, ErasedBeforeUnlink, ArgsMatch, TypeOK, Reg, NoReg
<1> QED BY <1>1, <1>2, <1>3, <1>4, <1>5

\* The loop of unregisterCallbackInternal.
LEMMA EraseInv ==
  ASSUME Inv, NEW t \in Thread, Erase(t)
  PROVE  Inv'
<1> USE HealthAssumption
    DEF Inv, Erase, EraseSet, RegsOf, LockFree, Goto,
        alarmVars, registryVars, threadVars, linkVars
<1>1. TypeOK'
  BY DEF TypeOK, AlarmTypeOK, Stage, Reg, NoReg, ArgsMatch
<1>2. LockHeld' /\ ArgsMatch' /\ ErasedBeforeUnlink'
  BY DEF LockHeld, ArgsMatch, ErasedBeforeUnlink, TypeOK, Reg, NoReg
<1>3. GoneMeansGone' /\ Numbered'
  BY DEF GoneMeansGone, Numbered, ErasedBeforeUnlink, ArgsMatch, TypeOK, Reg
<1>4. NotifyReachesAll'
  BY DEF NotifyReachesAll, LockHeld, Numbered, TypeOK, Reg
<1>5. EveryEntryWatched'
  BY DEF EveryEntryWatched, InHand, ErasedBeforeUnlink, ArgsMatch, TypeOK, Reg, NoReg
<1> QED BY <1>1, <1>2, <1>3, <1>4, <1>5

\* unlinkToDeath and the return.
LEMMA UnlinkInv ==
  ASSUME Inv, NEW t \in Thread, Unlink(t)
  PROVE  Inv'
<1> USE HealthAssumption
    DEF Inv, Unlink, RegsOf, Registering, Return, Goto,
        alarmVars, registryVars, threadVars, linkVars
<1>1. TypeOK'
  BY DEF TypeOK, AlarmTypeOK, Stage, Reg, NoReg, ArgsMatch
<1>2. LockHeld' /\ ArgsMatch' /\ ErasedBeforeUnlink'
  BY DEF LockHeld, ArgsMatch, ErasedBeforeUnlink, TypeOK, Reg, NoReg
<1>3. GoneMeansGone' /\ Numbered'
  BY DEF GoneMeansGone, Numbered, ErasedBeforeUnlink, ArgsMatch, TypeOK, Reg
<1>4. NotifyReachesAll'
  BY DEF NotifyReachesAll, LockHeld, Numbered, TypeOK, Reg
<1>5. EveryEntryWatched'
  BY DEF EveryEntryWatched, InHand, ErasedBeforeUnlink, ArgsMatch, TypeOK, Reg, NoReg
<1> QED BY <1>1, <1>2, <1>3, <1>4, <1>5

\* notifyListeners takes the lock.
LEMMA NotifyLockInv ==
  ASSUME Inv, NEW t \in Thread, NotifyLock(t)
  PROVE  Inv'
<1> USE HealthAssumption
    DEF Inv, NotifyLock, LockFree, Goto,
        alarmVars, registryVars, threadVars, linkVars
<1>1. TypeOK'
  BY DEF TypeOK, AlarmTypeOK, Stage, Reg, NoReg, ArgsMatch
<1>2. LockHeld' /\ ArgsMatch' /\ ErasedBeforeUnlink'
  BY DEF LockHeld, ArgsMatch, ErasedBeforeUnlink, TypeOK, Reg, NoReg
<1>3. GoneMeansGone' /\ Numbered'
  BY DEF GoneMeansGone, Numbered, ErasedBeforeUnlink, ArgsMatch, TypeOK, Reg
<1>4. NotifyReachesAll'
  BY DEF NotifyReachesAll, LockHeld, Numbered, TypeOK, Reg
<1>5. EveryEntryWatched'
  BY DEF EveryEntryWatched, InHand, ErasedBeforeUnlink, ArgsMatch, TypeOK, Reg, NoReg
<1> QED BY <1>1, <1>2, <1>3, <1>4, <1>5

\* One turn of the loop of notifyListeners.
LEMMA NotifyCallInv ==
  ASSUME Inv, NEW t \in Thread, NotifyCall(t)
  PROVE  Inv'
<1> USE HealthAssumption
    DEF Inv, NotifyCall, CallNext, Ahead,
        alarmVars, registryVars, threadVars, linkVars
<1>1. TypeOK'
  BY DEF TypeOK, AlarmTypeOK, Stage, Reg, NoReg, ArgsMatch
<1>2. LockHeld' /\ ArgsMatch' /\ ErasedBeforeUnlink'
  BY DEF LockHeld, ArgsMatch, ErasedBeforeUnlink, TypeOK, Reg, NoReg
<1>3. GoneMeansGone' /\ Numbered'
  BY DEF GoneMeansGone, Numbered, ErasedBeforeUnlink, ArgsMatch, TypeOK, Reg
<1>4. NotifyReachesAll'
  BY DEF NotifyReachesAll, LockHeld, Numbered, TypeOK, Reg
<1>5. EveryEntryWatched'
  BY DEF EveryEntryWatched, InHand, ErasedBeforeUnlink, ArgsMatch, TypeOK, Reg, NoReg
<1> QED BY <1>1, <1>2, <1>3, <1>4, <1>5

\* notifyListeners returns.
LEMMA NotifyDoneInv ==
  ASSUME Inv, NEW t \in Thread, NotifyDone(t)
  PROVE  Inv'
<1> USE HealthAssumption
    DEF Inv, NotifyDone, Return, Goto,
        alarmVars, registryVars, threadVars, linkVars
<1>1. TypeOK'
  BY DEF TypeOK, AlarmTypeOK, Stage, Reg, NoReg, ArgsMatch
<1>2. LockHeld' /\ ArgsMatch' /\ ErasedBeforeUnlink'
  BY DEF LockHeld, ArgsMatch, ErasedBeforeUnlink, TypeOK, Reg, NoReg
<1>3. GoneMeansGone' /\ Numbered'
  BY DEF GoneMeansGone, Numbered, ErasedBeforeUnlink, ArgsMatch, TypeOK, Reg
<1>4. NotifyReachesAll'
  BY DEF NotifyReachesAll, LockHeld, Numbered, TypeOK, Reg
<1>5. EveryEntryWatched'
  BY DEF EveryEntryWatched, InHand, ErasedBeforeUnlink, ArgsMatch, TypeOK, Reg, NoReg
<1> QED BY <1>1, <1>2, <1>3, <1>4, <1>5

\* An obituary is delivered.
LEMMA ServiceDiedInv ==
  ASSUME Inv, NEW t \in Thread, NEW e \in Reg, ServiceDied(t, e)
  PROVE  Inv'
<1> USE HealthAssumption
    DEF Inv, ServiceDied, Enter, Goto,
        alarmVars, registryVars, threadVars, linkVars
<1>1. TypeOK'
  BY DEF TypeOK, AlarmTypeOK, Stage, Reg, NoReg, ArgsMatch
<1>2. LockHeld' /\ ArgsMatch' /\ ErasedBeforeUnlink'
  BY DEF LockHeld, ArgsMatch, ErasedBeforeUnlink, TypeOK, Reg, NoReg
<1>3. GoneMeansGone' /\ Numbered'
  BY DEF GoneMeansGone, Numbered, ErasedBeforeUnlink, ArgsMatch, TypeOK, Reg
<1>4. NotifyReachesAll'
  BY DEF NotifyReachesAll, LockHeld, Numbered, TypeOK, Reg
<1>5. EveryEntryWatched'
  BY DEF EveryEntryWatched, InHand, ErasedBeforeUnlink, ArgsMatch, TypeOK, Reg, NoReg
<1> QED BY <1>1, <1>2, <1>3, <1>4, <1>5

\* A client process dies.
LEMMA DieInv ==
  ASSUME Inv, NEW c \in Client, Die(c)
  PROVE  Inv'
<1> USE HealthAssumption
    DEF Inv, Die, RegsOf,
        alarmVars, registryVars, threadVars, linkVars
<1>1. TypeOK'
  BY DEF TypeOK, AlarmTypeOK, Stage, Reg, NoReg, ArgsMatch
<1>2. LockHeld' /\ ArgsMatch' /\ ErasedBeforeUnlink'
  BY DEF LockHeld, ArgsMatch, ErasedBeforeUnlink, TypeOK, Reg, NoReg
<1>3. GoneMeansGone' /\ Numbered'
  BY DEF GoneMeansGone, Numbered, ErasedBeforeUnlink, ArgsMatch, TypeOK, Reg
<1>4. NotifyReachesAll'
  BY DEF NotifyReachesAll, LockHeld, Numbered, TypeOK, Reg
<1>5. EveryEntryWatched'
  BY DEF EveryEntryWatched, InHand, ErasedBeforeUnlink, ArgsMatch, TypeOK, Reg, NoReg
<1> QED BY <1>1, <1>2, <1>3, <1>4, <1>5

-----------------------------------------------------------------------------
\* Every step keeps the inductive invariant.
LEMMA NextInv == Inv /\ [Next]_vars => Inv'
<1> SUFFICES ASSUME Inv, [Next]_vars PROVE Inv'
  OBVIOUS
<1>1. ASSUME NEW t \in Thread, Call(t) PROVE Inv'
  BY <1>1, RegisterCallbackInv, UnregisterCallbackInv, CallUpdateInv,
     BatteryUpdateInv DEF Call
<1>2. ASSUME NEW t \in Thread, Handle(t) PROVE Inv'
  BY <1>2, RegisterPushInv, RegisterLinkInv, RunUpdateInv, EraseInv, UnlinkInv,
     NotifyLockInv, NotifyCallInv, NotifyDoneInv DEF Handle
<1>3. CASE UNCHANGED vars
  <2> USE <1>3 DEF Inv, vars, alarmVars, registryVars, threadVars, linkVars
  <2>1. TypeOK' /\ LockHeld' /\ ArgsMatch'
    BY DEF TypeOK, AlarmTypeOK, LockHeld, ArgsMatch
  <2>2. ErasedBeforeUnlink' /\ GoneMeansGone' /\ Numbered'
    BY DEF ErasedBeforeUnlink, GoneMeansGone, Numbered
  <2>3. NotifyReachesAll' /\ EveryEntryWatched'
    BY DEF NotifyReachesAll, EveryEntryWatched, InHand
  <2> QED BY <2>1, <2>2, <2>3
<1> QED BY <1>1, <1>2, <1>3, ServiceDiedInv, DieInv DEF Next

(***************************************************************************)
(* The type invariant, and with it the facts about the mutex and the       *)
(* handlers, hold in every reachable state.                                *)
(***************************************************************************)
THEOREM Invariance == Spec => []Inv
BY InitInv, NextInv, PTL DEF Spec

\* Every variable of the health service keeps its type.
THEOREM TypeCorrect == Spec => []TypeOK
<1>1. Inv => TypeOK
  BY DEF Inv
<1> QED BY <1>1, Invariance, PTL

(***************************************************************************)
(* No registration is forgotten by registerCallback, unregisterCallback,   *)
(* serviceDied and notifyListeners, in whatever order their steps          *)
(* interleave with each other and with the deaths of clients.              *)
(***************************************************************************)
THEOREM EntriesStayWatched == Spec => []EveryEntryWatched
<1>1. Inv => EveryEntryWatched
  BY DEF Inv
<1> QED BY <1>1, Invariance, PTL

\* unregisterCallback is final: nothing it erased comes back by itself.
THEOREM UnregisterIsFinal == Spec => []UnregisterSticks
<1>1. Inv => UnregisterSticks
  BY DEF Inv, GoneMeansGone, UnregisterSticks, RegsOf
<1> QED BY <1>1, Invariance, PTL

\* notifyListeners reaches every registration that stays in the vector.
THEOREM NotifyIsComplete == Spec => []NotifyReachesAll
<1>1. Inv => NotifyReachesAll
  BY DEF Inv
<1> QED BY <1>1, Invariance, PTL

(***************************************************************************)
(* The iterator of notifyListeners is never invalidated: of the actions    *)
(* that change the vector, push_back and erase wait for the mutex, and a   *)
(* turn of the loop moves its own iterator.                                *)
(***************************************************************************)
THEOREM IteratorSafe == Spec => IteratorStaysValid
<1> DEFINE P == \A t \in Thread :
                  pc[t] = "call" /\ it'[t] = it[t] /\ pc'[t] = "call"
                    => callbacks_' = callbacks_
<1>1. ASSUME Inv, [Next]_vars PROVE [P]_vars
  <2> SUFFICES ASSUME NEW t \in Thread,
                      pc[t] = "call", it'[t] = it[t], pc'[t] = "call"
               PROVE  callbacks_' = callbacks_
    OBVIOUS
  <2>1. callbacks_lock_ = t /\ callbacks_lock_ # NoThread
    BY <1>1, HealthAssumption DEF Inv, LockHeld
  <2> USE DEF alarmVars, registryVars, threadVars, linkVars
  <2>2. CASE UNCHANGED vars
    BY <2>2 DEF vars
  <2>3. ASSUME NEW u \in Thread, Call(u) PROVE callbacks_' = callbacks_
    BY <2>3 DEF Call, RegisterCallback, UnregisterCallback, CallUpdate, BatteryUpdate
  <2>4. ASSUME NEW u \in Thread, Handle(u) PROVE callbacks_' = callbacks_
    <3>1. CASE NotifyCall(u)
      <4>1. u = t
        BY <1>1, <2>1, <3>1 DEF NotifyCall, CallNext, Inv, LockHeld
      <4> QED BY <1>1, <3>1, <4>1 DEF NotifyCall, CallNext, Ahead, Inv, TypeOK, Reg
    <3>2. CASE RegisterPush(u) \/ Erase(u)
      BY <2>1, <3>2 DEF RegisterPush, Erase, LockFree
    <3>3. CASE \/ RegisterLink(u) \/ RunUpdate(u) \/ Unlink(u)
               \/ NotifyLock(u) \/ NotifyDone(u)
      BY <3>3 DEF RegisterLink, RunUpdate, Unlink, NotifyLock, NotifyDone
    <3> QED BY <2>4, <3>1, <3>2, <3>3 DEF Handle
  <2>5. ASSUME NEW u \in Thread, NEW e \in Reg, ServiceDied(u, e)
        PROVE  callbacks_' = callbacks_
    BY <2>5 DEF ServiceDied
  <2>6. ASSUME NEW c \in Client, Die(c) PROVE callbacks_' = callbacks_
    BY <2>6 DEF Die
  <2> QED BY <1>1, <2>2, <2>3, <2>4, <2>5, <2>6 DEF Next
<1> QED BY <1>1, Invariance, PTL DEF Spec, IteratorStaysValid

-----------------------------------------------------------------------------
(***************************************************************************)
(* The queries                                                             *)
(*                                                                         *)
(* HealthQueries.tla models what the same service answers, over the alarm  *)
(* of HealthdCommon.tla: for any width of an int32_t and any readings of   *)
(* the battery monitor.                                                    *)
(***************************************************************************)

\* What getHealthInfo and debug answer, and notifyListeners sends.
ReportOf(a) == [result |-> "SUCCESS", value |-> GetHealthInfoRecord(a)]

\* The alarm as the main loop finds it: armed at the fast rate, no poll timeout.
AlarmAtFastRate ==
  /\ healthd_mode_ops = TRUE
  /\ wakealarm_wake_interval = IntervalFast
  /\ awake_poll_interval = -1
  /\ AlarmTypeOK

\* Every answer given is one the code assembles.
AnswersGiven ==
  /\ DOMAIN answer = Query
  /\ \A id \in Getter : answer[id] \in {NotYet, GetProperty(id)}
  /\ \A l \in List : answer[l] \in {NotYet, ListAnswer(l)}
  /\ \A q \in Report :
       answer[q] = NotYet \/ \E a \in Int32 : answer[q] = ReportOf(a)

\* A report made since the monitor's last change has the reading there is.
ReportsCurrent ==
  /\ current \subseteq Report
  /\ \A q \in current : \E a \in GetCurrentAvg : answer[q] = ReportOf(a)

\* The inductive invariant of the queries.
QueriesInv ==
  /\ AlarmAtFastRate
  /\ average \in Average \cup {Refused}
  /\ AnswersGiven
  /\ ReportsCurrent

\* static_cast<int32_t> of any reading is an int32_t.
LEMMA CurrentAvgType ==
  ASSUME average \in Average \cup {Refused}
  PROVE  GetCurrentAvg \subseteq Int32
<1>1. IntHalf \in Nat \ {0} /\ Average \subseteq Int
  BY QueriesAssumption
<1>2. \A v \in Int : ToInt32(v) \in Int32
  BY <1>1 DEF ToInt32, Int32
<1>3. 0 \in Int32
  BY <1>1 DEF Int32
<1> QED BY <1>1, <1>2, <1>3 DEF GetCurrentAvg

\* The field of a report that QueriesTypeOK is about.
LEMMA ReportAverage ==
  ASSUME NEW a
  PROVE  ReportOf(a).value.batteryCurrentAverage = a
BY DEF ReportOf, GetHealthInfoRecord

\* The copy in notifyListeners reads the average and fills in every field as the
\* copy in getHealthInfo does.
LEMMA CopiesAgree ==
  /\ NotifyCurrentAvg = GetCurrentAvg
  /\ \A a : NotifyHealthInfo(a) = GetHealthInfoRecord(a)
<1>1. NotifyCurrentAvg = GetCurrentAvg
  BY DEF NotifyCurrentAvg, GetCurrentAvg
<1>2. \A a : NotifyHealthInfo(a) = GetHealthInfoRecord(a)
  BY DEF NotifyHealthInfo, GetHealthInfoRecord
<1> QED BY <1>1, <1>2

\* At the fast rate update() changes nothing: the charger is always online.
LEMMA QueryKeepsAlarm ==
  ASSUME AlarmAtFastRate, Update
  PROVE  UNCHANGED alarmVars
BY DEF AlarmAtFastRate, Update, BatteryUpdateInternal, ChargerOnline,
       NewWakeInterval, PollInterval, alarmVars

\* The three kinds of query are different ones.
LEMMA QueryKinds ==
  /\ \A id \in Getter : id \notin List \cup Report
  /\ \A l \in List : l \notin Getter \cup Report
  /\ \A q \in Report : q \notin Getter \cup List
BY DEF Getter, List, Report

\* A getter or a list answers.
LEMMA GetInv ==
  ASSUME QueriesInv, NEW q, NEW a, Answer(q, a), UNCHANGED alarmVars,
         \/ q \in Getter /\ a = GetProperty(q)
         \/ q \in List /\ a = ListAnswer(q)
  PROVE  QueriesInv'
<1> USE DEF Answer
<1>1. AlarmAtFastRate' /\ average' \in Average \cup {Refused}
  BY DEF QueriesInv, AlarmAtFastRate, alarmVars, AlarmTypeOK
<1>2. q \notin Report /\ current' = current
  BY QueryKinds
<1>3. AnswersGiven'
  BY <1>2, QueryKinds DEF QueriesInv, AnswersGiven, Query, ReportOf
<1>4. ReportsCurrent'
  BY <1>2 DEF QueriesInv, ReportsCurrent, AnswersGiven, GetCurrentAvg
<1> QED BY <1>1, <1>3, <1>4 DEF QueriesInv

\* A report is assembled from the reading of the moment.
LEMMA ReportInv ==
  ASSUME QueriesInv, NEW q \in Report,
         NEW a \in GetCurrentAvg, Answer(q, ReportOf(a)),
         UNCHANGED alarmVars
  PROVE  QueriesInv'
<1> USE DEF Answer
<1>1. AlarmAtFastRate' /\ average' = average
  BY DEF QueriesInv, AlarmAtFastRate, alarmVars, AlarmTypeOK
<1>2. a \in Int32 /\ q \in DOMAIN answer /\ current' = current \cup {q}
  BY CurrentAvgType DEF QueriesInv, AnswersGiven, Query
<1>3. AnswersGiven'
  BY <1>2, QueryKinds DEF QueriesInv, AnswersGiven
<1>4. ReportsCurrent'
  <2>1. GetCurrentAvg' = GetCurrentAvg
    BY <1>1 DEF GetCurrentAvg
  <2>2. ASSUME NEW r \in current' PROVE \E b \in GetCurrentAvg : answer'[r] = ReportOf(b)
    <3>1. CASE r = q
      BY <1>2, <3>1
    <3>2. CASE r # q
      BY <1>2, <3>2 DEF QueriesInv, ReportsCurrent, AnswersGiven, Query
    <3> QED BY <3>1, <3>2
  <2> QED BY <1>2, <2>1, <2>2 DEF QueriesInv, ReportsCurrent, ReportOf
<1> QED BY <1>1, <1>3, <1>4 DEF QueriesInv

\* Every step keeps the invariant and the alarm.
LEMMA QueryStep ==
  ASSUME QueriesInv, [QueriesNext]_queryVars
  PROVE  QueriesInv' /\ UNCHANGED alarmVars
<1>1. ASSUME NEW id \in Getter, Get(id)
      PROVE  QueriesInv' /\ UNCHANGED alarmVars
  BY <1>1, GetInv DEF Get
<1>2. ASSUME NEW l \in List, GetListOf(l)
      PROVE  QueriesInv' /\ UNCHANGED alarmVars
  BY <1>2, GetInv DEF GetListOf
<1>3. ASSUME NEW q \in Report, GetHealthInfo(q)
      PROVE  QueriesInv' /\ UNCHANGED alarmVars
  <2>1. UNCHANGED alarmVars
    BY <1>3, QueryKeepsAlarm DEF GetHealthInfo, QueriesInv
  <2>2. PICK a \in GetCurrentAvg : Answer(q, ReportOf(a))
    BY <1>3 DEF GetHealthInfo, ReportOf
  <2> QED BY <2>1, <2>2, ReportInv
<1>4. CASE NotifyListeners
  <2>1. PICK a \in GetCurrentAvg : Answer("notifyListeners", ReportOf(a))
    BY <1>4, CopiesAgree DEF NotifyListeners, ReportOf
  <2>2. "notifyListeners" \in Report /\ UNCHANGED alarmVars
    BY <1>4 DEF NotifyListeners, Report
  <2> QED BY <2>1, <2>2, ReportInv
<1>5. CASE UNCHANGED queryVars
  BY <1>5 DEF queryVars, alarmVars, QueriesInv, AlarmAtFastRate, AlarmTypeOK,
              AnswersGiven, ReportsCurrent, GetCurrentAvg
<1>6. CASE MonitorChange
  <2>1. AlarmAtFastRate' /\ average' \in Average \cup {Refused}
    BY <1>6 DEF MonitorChange, QueriesInv, AlarmAtFastRate, alarmVars,
                AlarmTypeOK
  <2>2. AnswersGiven' /\ ReportsCurrent'
    BY <1>6 DEF MonitorChange, QueriesInv, AnswersGiven, ReportsCurrent
  <2> QED BY <1>6, <2>1, <2>2 DEF QueriesInv, MonitorChange
<1>7. "getHealthInfo" \in Report /\ "debug" \in Report
  BY DEF Report
<1>8. ASSUME NEW n, Debug(n)
      PROVE  GetHealthInfo("debug") \/ UNCHANGED queryVars
  BY <1>8 DEF Debug
<1> QED BY <1>1, <1>2, <1>3, <1>4, <1>5, <1>6, <1>7, <1>8 DEF QueriesNext

\* The initial states satisfy the invariant.
LEMMA QueriesInitInv == QueriesInit => QueriesInv
<1> SUFFICES ASSUME QueriesInit PROVE QueriesInv
  OBVIOUS
<1> USE DEF QueriesInit
<1>1. AlarmAtFastRate
  BY IntervalAssumption DEF AlarmAtFastRate, AlarmTypeOK, FdState, TimerValue
<1>2. AnswersGiven
  BY DEF AnswersGiven, Query
<1> QED BY <1>1, <1>2 DEF QueriesInv, ReportsCurrent

\* The invariant holds in every reachable state.
LEMMA QueriesInvariance == QueriesSpec => []QueriesInv
<1>1. QueriesInv /\ [QueriesNext]_queryVars => QueriesInv'
  BY QueryStep
<1> QED BY <1>1, QueriesInitInv, PTL DEF QueriesSpec

(***************************************************************************)
(* Type correctness: in particular every current average that is reported  *)
(* is an int32_t, also when the monitor refuses.                           *)
(***************************************************************************)
THEOREM QueriesTypeCorrect == QueriesSpec => []QueriesTypeOK
<1>1. QueriesInv => QueriesTypeOK
  <2> SUFFICES ASSUME QueriesInv PROVE QueriesTypeOK
    OBVIOUS
  <2>1. \A q \in Query :
          answer[q] # NotYet => answer[q].result \in {"SUCCESS", "NOT_SUPPORTED"}
    BY DEF QueriesInv, AnswersGiven, Query, GetProperty, ListAnswer, ReportOf
  <2>2. \A q \in Report :
          answer[q] # NotYet => answer[q].value.batteryCurrentAverage \in Int32
    BY ReportAverage DEF QueriesInv, AnswersGiven
  <2> QED BY <2>1, <2>2 DEF QueriesInv, AlarmAtFastRate, ReportsCurrent, QueriesTypeOK
<1> QED BY <1>1, QueriesInvariance, PTL

(***************************************************************************)
(* The two copies of the code that assembles a HealthInfo report the same  *)
(* in every field as long as the monitor's reading stays the same.         *)
(***************************************************************************)
THEOREM ReportsAlwaysAgree == QueriesSpec => []ReportsAgree
<1>1. QueriesInv => ReportsAgree
  BY DEF QueriesInv, ReportsCurrent, ReportsAgree, GetCurrentAvg
<1> QED BY <1>1, QueriesInvariance, PTL

(***************************************************************************)
(* Asking does not disturb the wake alarm: no query, in particular no      *)
(* update() that getHealthInfo runs, changes the alarm.                    *)
(***************************************************************************)
THEOREM QueriesLeaveAlarm == QueriesSpec => QueriesKeepAlarm
<1>1. QueriesInv /\ [QueriesNext]_queryVars => [UNCHANGED alarmVars]_queryVars
  BY QueryStep
<1> QED BY <1>1, QueriesInvariance, PTL DEF QueriesSpec, QueriesKeepAlarm
==============================================================================
