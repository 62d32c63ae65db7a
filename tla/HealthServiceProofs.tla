------------------------- MODULE HealthServiceProofs -------------------------
(***************************************************************************)
(* The health service as one process, for any number of clients,           *)
(* registrations, queued calls and failures: its single thread never waits *)
(* with a handler half done, and the main loop with the real handlers      *)
(* implements HealthLoop.tla.                                              *)
(***************************************************************************)
EXTENDS HealthService, FiniteSetTheorems, TLAPS

\* What the queue of the driver holds.
Obituaries == {Obituary(e) : e \in Registry!Reg}
Item == CallItem \cup Obituaries

\* The stages in which the service is published.
Up == {"wakealarm_init", "uevent_init", "loop", "wait", "dispatch"}

\* The looper has callbacks_lock_ in the critical sections only.
LockHeld == callbacks_lock_ = IF hpc[Looper] \in {"unlink", "call"} THEN Looper ELSE NoThread

\* The locals of the handlers are those of the looper.
OneThread == DOMAIN hpc = {Looper} /\ DOMAIN arg = {Looper} /\ DOMAIN reg = {Looper}

\* A handler runs inside binder_event only, and has the mutex exactly in its
\* critical section.
HandlerInv ==
  /\ OneThread
  /\ hpc[Looper] # "idle" => InBinderEvent
  /\ LockHeld

\* The positions of calls and of obituaries in a queue.
CallsIn(q) == {i \in DOMAIN q : q[i] \in CallItem}
ObituariesIn(q) == {i \in DOMAIN q : q[i] \in Obituaries}

(***************************************************************************)
(* The queue has a bound: the driver takes MaxCall calls, and one obituary *)
(* of each registration.  An event of the binder descriptor that is still  *)
(* to be dispatched finds work.                                            *)
(***************************************************************************)
QueueInv ==
  /\ work \in Seq(Item)
  /\ Cardinality(CallsIn(work)) <= MaxCall
  /\ \A i, j \in ObituariesIn(work) : work[i] = work[j] => i = j
  /\ "binder" \in events => work # <<>>

\* The registrations there are, and those whose obituary is queued as well.
Made == callbacks_ \cup links \cup obits \cup {e \in {reg[Looper]} : hpc[Looper] = "link"}
Mourned == {e \in Registry!Reg : \E i \in DOMAIN work : work[i] = Obituary(e)}

\* Each has the number of the push_back that made it, and a service that is not
\* published has none.
NumbersInv ==
  /\ nextReg \in 1..MaxReg + 1
  /\ \A e \in Made \cup Mourned : e.n \in 1..nextReg - 1
  /\ \A e, f \in Made \cup Mourned : e.n = f.n => e = f
  /\ published <=> lpc \in Up
  /\ Made # {} => published

\* The inductive invariant.
Inv == HandlerInv /\ QueueInv /\ NumbersInv

-----------------------------------------------------------------------------
(***************************************************************************)
(* The queue                                                               *)
(***************************************************************************)

\* A call is no obituary.
LEMMA ItemKinds == CallItem \cap Obituaries = {}
<1>1. \A w \in CallItem : w.op \in {"register", "unregister", "update", "query"}
  BY DEF CallItem
<1>2. \A w \in Obituaries : w.op = "died"
  BY DEF Obituaries, Obituary
<1> QED BY <1>1, <1>2

\* The positions of a queue are finitely many.
LEMMA PositionsFinite ==
  ASSUME NEW q \in Seq(Item)
  PROVE  IsFiniteSet(CallsIn(q)) /\ IsFiniteSet(ObituariesIn(q))
<1>1. IsFiniteSet(1..Len(q)) /\ DOMAIN q = 1..Len(q)
  BY FS_Interval
<1> QED BY <1>1, FS_Subset DEF CallsIn, ObituariesIn

\* A queue with a call for each place and one obituary for each number is bounded.
LEMMA QueueBounded ==
  ASSUME NEW q \in Seq(Item), Cardinality(CallsIn(q)) <= MaxCall,
         \A i, j \in ObituariesIn(q) : q[i].n = q[j].n => i = j
  PROVE  Len(q) <= MaxCall + MaxReg
<1> DEFINE C == CallsIn(q)
           O == ObituariesIn(q)
<1>1. 1..Len(q) = C \cup O /\ Len(q) \in Nat
  <2>1. DOMAIN q = 1..Len(q) /\ Len(q) \in Nat /\ \A i \in 1..Len(q) : q[i] \in Item
    OBVIOUS
  <2> QED BY <2>1 DEF CallsIn, ObituariesIn, Item
<1>2. Cardinality(1..Len(q)) = Len(q)
  <2>1. 1 \in Int /\ Len(q) \in Int
    BY <1>1
  <2>2. Cardinality(1..Len(q)) = IF 1 > Len(q) THEN 0 ELSE Len(q) - 1 + 1
    BY <2>1, FS_Interval
  <2> QED BY <1>1, <2>2
<1>3. IsFiniteSet(C) /\ IsFiniteSet(O) /\ Cardinality(C) \in Nat
  BY PositionsFinite, FS_CardinalityType
<1>4. Cardinality(O) <= MaxReg
  <2> DEFINE f == [i \in O |-> q[i].n]
  <2>1. \A i \in O : q[i].n \in 1..MaxReg
    <3> TAKE i \in O
    <3>1. PICK e \in Registry!Reg : q[i] = Obituary(e)
      BY DEF ObituariesIn, Obituaries
    <3> QED BY <3>1 DEF Obituary, Registry!Reg
  <2>2. f \in Injection(O, 1..MaxReg)
    <3>1. f \in [O -> 1..MaxReg]
      BY <2>1
    <3>2. \A i, j \in DOMAIN f : f[i] = f[j] => i = j
      OBVIOUS
    <3> QED BY <3>1, <3>2 DEF Injection, IsInjective
  <2>3. IsFiniteSet(1..MaxReg) /\ Cardinality(1..MaxReg) = MaxReg
    BY FS_Interval, ServiceAssumption
  <2> QED BY <2>2, <2>3, FS_Injection
<1>5. Cardinality(C \cup O) = Cardinality(C) + Cardinality(O) - Cardinality(C \cap O)
  BY <1>3, FS_Union
<1>6. Cardinality(C \cap O) \in Nat /\ Cardinality(O) \in Nat
  BY <1>3, FS_Intersection, FS_CardinalityType
<1> HIDE DEF C, O
<1>7. Cardinality(C) <= MaxCall
  BY DEF C
<1>8. Len(q) = Cardinality(C) + Cardinality(O) - Cardinality(C \cap O)
  BY <1>1, <1>2, <1>5
<1>9. MaxCall \in Nat /\ MaxReg \in Nat
  BY ServiceAssumption
<1> QED BY <1>1, <1>3, <1>4, <1>6, <1>7, <1>8, <1>9

\* The driver adds a piece of work at the end.
LEMMA QueueAppend ==
  ASSUME QueueInv, NEW w \in Item, work' = Append(work, w), UNCHANGED events,
         \/ w \in CallItem /\ Cardinality(CallsIn(work)) < MaxCall
         \/ w \in Obituaries /\ \A i \in DOMAIN work : work[i] # w
  PROVE  QueueInv' /\ Len(work') = Len(work) + 1
<1>1. /\ work \in Seq(Item) /\ DOMAIN work = 1..Len(work) /\ Len(work) \in Nat
      /\ work' \in Seq(Item) /\ DOMAIN work' = 1..Len(work) + 1 /\ Len(work') = Len(work) + 1
      /\ \A i \in 1..Len(work) : work'[i] = work[i]
      /\ work'[Len(work) + 1] = w
  BY DEF QueueInv
<1>2. Cardinality(CallsIn(work)') <= MaxCall
  <2>1. IsFiniteSet(CallsIn(work)) /\ Cardinality(CallsIn(work)) \in Nat
    BY <1>1, PositionsFinite, FS_CardinalityType
  <2>2. CASE w \in CallItem /\ Cardinality(CallsIn(work)) < MaxCall
    <3>1. CallsIn(work)' = CallsIn(work) \cup {Len(work) + 1} /\ Len(work) + 1 \notin CallsIn(work)
      BY <1>1, <2>2 DEF CallsIn
    <3>2. Cardinality(CallsIn(work)') = Cardinality(CallsIn(work)) + 1
      BY <2>1, <3>1, FS_AddElement
    <3> QED BY <2>1, <2>2, <3>2, ServiceAssumption
  <2>3. CASE w \in Obituaries
    <3>1. CallsIn(work)' = CallsIn(work)
      BY <1>1, <2>3, ItemKinds DEF CallsIn
    <3> QED BY <3>1 DEF QueueInv
  <2> QED BY <2>2, <2>3
<1>3. \A i, j \in ObituariesIn(work)' : work'[i] = work'[j] => i = j
  <2>1. \A i \in ObituariesIn(work)' : i \in ObituariesIn(work) \/ (i = Len(work) + 1 /\ w \in Obituaries)
    BY <1>1 DEF ObituariesIn
  <2>2. \A i \in ObituariesIn(work) : work'[i] = work[i] /\ i \in DOMAIN work
    BY <1>1 DEF ObituariesIn
  <2>3. w \in Obituaries => \A i \in DOMAIN work : work[i] # w
    BY ItemKinds
  <2> QED BY <1>1, <2>1, <2>2, <2>3 DEF QueueInv
<1>4. work' # <<>>
  BY <1>1
<1> QED BY <1>1, <1>2, <1>3, <1>4 DEF QueueInv

\* binder_event takes the piece of work at the front, and its event is over.
LEMMA QueueTail ==
  ASSUME QueueInv, work # <<>>, work' = Tail(work), events' = events \ {"binder"}
  PROVE  QueueInv' /\ Len(work') = Len(work) - 1 /\ Mourned' \subseteq Mourned
<1>1. /\ work \in Seq(Item) /\ DOMAIN work = 1..Len(work) /\ Len(work) \in Nat \ {0}
      /\ work' \in Seq(Item) /\ DOMAIN work' = 1..Len(work) - 1 /\ Len(work') = Len(work) - 1
      /\ \A i \in 1..Len(work) - 1 : i + 1 \in 1..Len(work) /\ work'[i] = work[i + 1]
  BY DEF QueueInv
<1>2. Cardinality(CallsIn(work)') <= MaxCall
  <2> DEFINE S == CallsIn(work)'
             T == CallsIn(work)
             f == [i \in S |-> i + 1]
  <2>1. \A i \in S : i \in Int /\ i + 1 \in T
    BY <1>1 DEF CallsIn
  <2>2. f \in Injection(S, T)
    <3>1. f \in [S -> T]
      BY <2>1
    <3>2. \A i, j \in DOMAIN f : f[i] = f[j] => i = j
      BY <2>1
    <3> QED BY <3>1, <3>2 DEF Injection, IsInjective
  <2>3. IsFiniteSet(S) /\ IsFiniteSet(T)
    BY <1>1, PositionsFinite
  <2>4. Cardinality(S) <= Cardinality(T) /\ Cardinality(S) \in Nat /\ Cardinality(T) \in Nat
    BY <2>2, <2>3, FS_Injection, FS_CardinalityType
  <2> QED BY <2>4, ServiceAssumption DEF QueueInv
<1>3. \A i, j \in ObituariesIn(work)' : work'[i] = work'[j] => i = j
  <2>1. \A i \in ObituariesIn(work)' : i \in Int /\ i + 1 \in ObituariesIn(work) /\ work'[i] = work[i + 1]
    BY <1>1 DEF ObituariesIn
  <2>2. ASSUME NEW i \in ObituariesIn(work)', NEW j \in ObituariesIn(work)', work'[i] = work'[j]
        PROVE  i = j
    <3>1. i + 1 = j + 1
      BY <2>1, <2>2 DEF QueueInv
    <3> QED BY <2>1, <3>1
  <2> QED BY <2>2
<1>4. Mourned' \subseteq Mourned
  BY <1>1 DEF Mourned
<1> QED BY <1>1, <1>2, <1>3, <1>4 DEF QueueInv

\* The queue goes with the process.
LEMMA QueueGone ==
  ASSUME work' = <<>>, events' = {}
  PROVE  QueueInv' /\ Mourned' = {}
<1>1. /\ <<>> \in Seq(Item) /\ DOMAIN <<>> = {}
  OBVIOUS
<1>2. CallsIn(work)' = {} /\ ObituariesIn(work)' = {} /\ Mourned' = {}
  BY <1>1 DEF CallsIn, ObituariesIn, Mourned
<1> QED BY <1>1, <1>2, FS_EmptySet, ServiceAssumption DEF QueueInv
-----------------------------------------------------------------------------
(***************************************************************************)
(* The handlers                                                            *)
(***************************************************************************)

\* A step makes no registration, or one with the next number.
MadeStep ==
  \/ nextReg' = nextReg /\ Made' \subseteq Made
  \/ /\ nextReg <= MaxReg /\ nextReg' = nextReg + 1
     /\ \E e : e.n = nextReg /\ Made' \subseteq Made \cup {e}

\* A handler that returns, and a handler that goes to another stage.
LEMMA ReturnStep ==
  ASSUME OneThread, Registry!Return(Looper)
  PROVE  OneThread' /\ hpc'[Looper] = "idle"
BY DEF OneThread, Registry!Return, Registry!Goto

LEMMA GotoStep ==
  ASSUME OneThread, NEW s, Registry!Goto(Looper, s)
  PROVE  DOMAIN hpc' = {Looper} /\ hpc'[Looper] = s
BY DEF OneThread, Registry!Goto

LEMMA EnterStep ==
  ASSUME OneThread, NEW s, NEW c, NEW e, Registry!Enter(Looper, s, c, e)
  PROVE  OneThread' /\ hpc[Looper] = "idle" /\ hpc'[Looper] = s
BY DEF OneThread, Registry!Enter, Registry!Goto

(***************************************************************************)
(* What a step of a handler does to the thread, the mutex, the alarm and   *)
(* the registrations, whichever handler it is.                             *)
(***************************************************************************)
HandlerStep ==
  /\ OneThread'
  /\ LockHeld'
  /\ \/ hpc[Looper] = "update" /\ hpc'[Looper] = "idle" /\ Registry!Update
     \/ hpc[Looper] # "update" /\ UNCHANGED alarmVars
  /\ MadeStep

\* Also when it only starts.
LEMMA StartStep ==
  ASSUME OneThread, LockHeld, NEW w, Start(w)
  PROVE  HandlerStep
<1> USE DEF Registry!alarmVars, alarmVars, Registry!registryVars, Registry!linkVars
<1>1. hpc[Looper] = "idle"
  BY DEF Start
<1>2. ASSUME NEW s, s \in {"push", "update", "erase"}, NEW c, NEW e, Registry!Enter(Looper, s, c, e),
             UNCHANGED <<alarmVars, callbacks_, callbacks_lock_, nextReg, links>>, obits' \subseteq obits
      PROVE  HandlerStep
  <2>1. OneThread' /\ hpc'[Looper] = s
    BY <1>2, EnterStep
  <2>2. LockHeld'
    BY <1>1, <1>2, <2>1 DEF LockHeld
  <2>3. MadeStep
    BY <1>2, <2>1 DEF MadeStep, Made
  <2> QED BY <1>1, <1>2, <2>1, <2>2, <2>3 DEF HandlerStep
<1>3. CASE NoHandler
  BY <1>1, <1>3 DEF NoHandler, registryVars, HandlerStep, OneThread, LockHeld, MadeStep, Made
<1>4. CASE Registry!RegisterCallback(Looper, w.cb)
  <2>1. CASE w.cb = NullCallback
    <3>1. OneThread' /\ hpc'[Looper] = "idle"
      BY <1>4, <2>1, ReturnStep DEF Registry!RegisterCallback
    <3> QED BY <1>1, <1>4, <3>1 DEF Registry!RegisterCallback, HandlerStep, LockHeld, MadeStep, Made
  <2>2. CASE w.cb # NullCallback
    BY <1>2, <1>4, <2>2 DEF Registry!RegisterCallback
  <2> QED BY <2>1, <2>2
<1>5. CASE Registry!UnregisterCallback(Looper, w.cb)
  <2>1. CASE w.cb = NullCallback
    <3>1. OneThread' /\ hpc'[Looper] = "idle"
      BY <1>5, <2>1, ReturnStep DEF Registry!UnregisterCallback
    <3> QED BY <1>1, <1>5, <3>1 DEF Registry!UnregisterCallback, HandlerStep, LockHeld, MadeStep, Made
  <2>2. CASE w.cb # NullCallback
    BY <1>2, <1>5, <2>2 DEF Registry!UnregisterCallback
  <2> QED BY <2>1, <2>2
<1>6. CASE Registry!CallUpdate(Looper)
  BY <1>2, <1>6 DEF Registry!CallUpdate
<1>7. ASSUME NEW e, Registry!ServiceDied(Looper, e)
      PROVE  HandlerStep
  <2>1. CASE Registry!Enter(Looper, "erase", e.cb, e)
    BY <1>2, <1>7, <2>1 DEF Registry!ServiceDied
  <2>2. CASE UNCHANGED Registry!threadVars
    BY <1>1, <1>7, <2>2
    DEF Registry!ServiceDied, Registry!threadVars, HandlerStep, OneThread, LockHeld, MadeStep, Made
  <2> QED BY <1>7, <2>1, <2>2 DEF Registry!ServiceDied
<1> QED BY <1>3, <1>4, <1>5, <1>6, <1>7 DEF Start

LEMMA HandleStep ==
  ASSUME OneThread, LockHeld, Registry!Handle(Looper)
  PROVE  HandlerStep
<1> USE DEF Registry!alarmVars, alarmVars, Registry!registryVars, Registry!linkVars
<1>1. CASE Registry!RegisterPush(Looper)
  <2> DEFINE e == [n |-> nextReg, cb |-> arg[Looper]]
  <2>1. DOMAIN hpc' = {Looper} /\ hpc[Looper] = "push" /\ hpc'[Looper] = "link"
    BY <1>1, GotoStep DEF Registry!RegisterPush, Registry!PushBack
  <2>2. OneThread' /\ reg'[Looper] = e
    BY <1>1, <2>1 DEF Registry!RegisterPush, Registry!PushBack, OneThread
  <2>3. LockHeld'
    BY <1>1, <2>1 DEF Registry!RegisterPush, Registry!PushBack, LockHeld
  <2>4. MadeStep
    <3>1. e.n = nextReg
      OBVIOUS
    <3>2. Made' \subseteq Made \cup {e}
      BY <1>1, <2>1, <2>2 DEF Registry!RegisterPush, Registry!PushBack, Made
    <3>3. nextReg <= MaxReg /\ nextReg' = nextReg + 1
      BY <1>1 DEF Registry!RegisterPush, Registry!PushBack
    <3> HIDE DEF e
    <3> QED BY <3>1, <3>2, <3>3 DEF MadeStep
  <2> QED BY <1>1, <2>1, <2>2, <2>3, <2>4 DEF Registry!RegisterPush, Registry!PushBack, HandlerStep
<1>2. CASE Registry!RegisterLink(Looper)
  <2>1. OneThread' /\ hpc[Looper] = "link" /\ hpc'[Looper] = "update"
    BY <1>2, GotoStep DEF Registry!RegisterLink, OneThread
  <2>2. LockHeld'
    BY <1>2, <2>1 DEF Registry!RegisterLink, LockHeld
  <2>3. MadeStep
    <3>1. reg[Looper] \in Made
      BY <2>1 DEF Made
    <3> QED BY <1>2, <2>1, <3>1 DEF Registry!RegisterLink, MadeStep, Made
  <2> QED BY <1>2, <2>1, <2>2, <2>3 DEF Registry!RegisterLink, HandlerStep
<1>3. CASE Registry!RunUpdate(Looper)
  <2>1. OneThread' /\ hpc[Looper] = "update" /\ hpc'[Looper] = "idle"
    BY <1>3, ReturnStep DEF Registry!RunUpdate
  <2> QED BY <1>3, <2>1 DEF Registry!RunUpdate, HandlerStep, LockHeld, MadeStep, Made
<1>4. CASE Registry!Erase(Looper)
  <2>1. OneThread' /\ hpc[Looper] = "erase" /\ hpc'[Looper] = "unlink"
    BY <1>4, GotoStep DEF Registry!Erase, Registry!EraseSet, OneThread
  <2> QED BY <1>4, <2>1 DEF Registry!Erase, Registry!EraseSet, HandlerStep, LockHeld, MadeStep, Made
<1>5. CASE Registry!Unlink(Looper)
  <2>1. OneThread' /\ hpc[Looper] = "unlink" /\ hpc'[Looper] = "idle"
    BY <1>5, ReturnStep DEF Registry!Unlink
  <2> QED BY <1>5, <2>1 DEF Registry!Unlink, HandlerStep, LockHeld, MadeStep, Made
<1>6. CASE Registry!NotifyLock(Looper)
  <2>1. OneThread' /\ hpc[Looper] = "notify" /\ hpc'[Looper] = "call"
    BY <1>6, GotoStep DEF Registry!NotifyLock, OneThread
  <2> QED BY <1>6, <2>1 DEF Registry!NotifyLock, HandlerStep, LockHeld, MadeStep, Made
<1>7. CASE Registry!NotifyCall(Looper)
  <2>1. OneThread' /\ hpc[Looper] = "call" /\ hpc' = hpc
    BY <1>7 DEF Registry!NotifyCall, Registry!CallNext, OneThread
  <2> QED BY <1>7, <2>1 DEF Registry!NotifyCall, Registry!CallNext, HandlerStep, LockHeld, MadeStep, Made
<1>8. CASE Registry!NotifyDone(Looper)
  <2>1. OneThread' /\ hpc[Looper] = "call" /\ hpc'[Looper] = "idle"
    BY <1>8, ReturnStep DEF Registry!NotifyDone
  <2> QED BY <1>8, <2>1 DEF Registry!NotifyDone, HandlerStep, LockHeld, MadeStep, Made
<1> QED BY <1>1, <1>2, <1>3, <1>4, <1>5, <1>6, <1>7, <1>8 DEF Registry!Handle
-----------------------------------------------------------------------------
(***************************************************************************)
(* The steps of the main loop outside binder_event                         *)
(***************************************************************************)

\* The main loop sees how long the queue is, and so whether it is empty.
LEMMA QueueSeen ==
  ASSUME work \in Seq(Item), work' \in {work, <<>>}
  PROVE  /\ Len(work') = Len(work) => work' = work
         /\ Len(work') = 0 => work' = <<>>
         /\ Len(work) > 0 => work # <<>>
         /\ Len(work) \in Nat
<1>1. \A q \in Seq(Item) : Len(q) = 0 => q = <<>>
  OBVIOUS
<1>2. Len(<<>>) = 0 /\ Len(work) \in Nat
  OBVIOUS
<1> QED BY <1>1, <1>2

(***************************************************************************)
(* The process exits, or goes on with its queue, stays published, and has  *)
(* an event of the binder descriptor only if there is work.                *)
(***************************************************************************)
Exits ==
  /\ lpc # "exited" /\ lpc' = "exited" /\ published' = FALSE
  /\ work' = <<>> /\ events' = {}
GoesOn ==
  /\ lpc' = "exited" => lpc = "exited"
  /\ work' = work
  /\ "binder" \in events' => work # <<>>
  /\ published' <=> lpc' \in Up
  /\ published => published'
LoopFacts == Exits \/ GoesOn

\* What the invariant says of the stage and the event.
Staged == work \in Seq(Item) /\ ("binder" \in events => work # <<>>) /\ (published <=> lpc \in Up)

\* Any exit, whichever call failed.
LEMMA ExitFacts ==
  ASSUME Staged, work' \in {work, <<>>}, lpc # "exited", Loop!Exit
  PROVE  Exits
BY QueueSeen DEF Staged, Loop!Exit, Exits

\* The start-up publishes the service.
LEMMA StartUpFacts ==
  ASSUME Staged, work' \in {work, <<>>}, Loop!StartUp
  PROVE  LoopFacts
<1> USE DEF Staged, Up, Loop!loopVars, Loop!kernelVars
<1>1. CASE Loop!Main
  BY <1>1, QueueSeen DEF Loop!Main, LoopFacts, GoesOn
<1>2. CASE Loop!HealthdInit
  BY <1>2, QueueSeen, ExitFacts DEF Loop!HealthdInit, LoopFacts, GoesOn
<1>3. CASE Loop!ModeInit
  <2>1. CASE lpc' = "wakealarm_init" /\ published' = TRUE /\ events' = events /\ Len(work') = Len(work)
    BY <2>1, QueueSeen DEF LoopFacts, GoesOn
  <2>2. CASE Loop!Exit /\ lpc # "exited"
    BY <2>2, ExitFacts DEF LoopFacts
  <2> QED BY <1>3, <2>1, <2>2 DEF Loop!ModeInit
<1>4. CASE Loop!WakealarmInit
  BY <1>4, QueueSeen DEF Loop!WakealarmInit, LoopFacts, GoesOn
<1>5. CASE Loop!UeventInit
  BY <1>5, QueueSeen DEF Loop!UeventInit, LoopFacts, GoesOn
<1> QED BY <1>1, <1>2, <1>3, <1>4, <1>5 DEF Loop!StartUp

\* The loop, and the process that init starts next.
LEMMA MainloopFacts ==
  ASSUME Staged, work' \in {work, <<>>},
         \/ Loop!LoopTop \/ Loop!WaitReturns \/ Loop!WaitInterrupted \/ Loop!WaitFails
         \/ Loop!WakealarmEvent \/ Loop!UeventEvent \/ Loop!DispatchDone \/ Loop!Restart
  PROVE  LoopFacts
<1> USE DEF Staged, Up, Loop!loopVars, Loop!kernelVars
<1>1. CASE Loop!LoopTop
  BY <1>1, QueueSeen DEF Loop!LoopTop, LoopFacts, GoesOn
<1>2. CASE Loop!WaitReturns
  <2>1. "binder" \in Loop!Ready => Len(work) > 0
    BY DEF Loop!Ready
  <2> QED BY <1>2, <2>1, QueueSeen DEF Loop!WaitReturns, Loop!EpollReturns, LoopFacts, GoesOn
<1>3. CASE Loop!WaitInterrupted
  BY <1>3, QueueSeen DEF Loop!WaitInterrupted, LoopFacts, GoesOn
<1>4. CASE Loop!WaitFails
  BY <1>4, ExitFacts DEF Loop!WaitFails, LoopFacts
<1>5. CASE Loop!WakealarmEvent
  BY <1>5, QueueSeen DEF Loop!WakealarmEvent, Loop!Dispatched, LoopFacts, GoesOn
<1>6. CASE Loop!UeventEvent
  BY <1>6, QueueSeen DEF Loop!UeventEvent, Loop!Dispatched, LoopFacts, GoesOn
<1>7. CASE Loop!DispatchDone
  BY <1>7, QueueSeen DEF Loop!DispatchDone, LoopFacts, GoesOn
<1>8. CASE Loop!Restart
  BY <1>8, QueueSeen DEF Loop!Restart, LoopFacts, GoesOn
<1> QED BY <1>1, <1>2, <1>3, <1>4, <1>5, <1>6, <1>7, <1>8

\* The kernel's timer and socket leave the thread where it is.
LEMMA KernelFacts ==
  ASSUME Staged, work' \in {work, <<>>},
         Loop!TimerExpire \/ \E m \in Loop!Message : Loop!UeventArrive(m)
  PROVE  GoesOn /\ UNCHANGED <<lpc, events, gBinderFd>>
BY QueueSeen DEF Staged, Up, Loop!TimerExpire, Loop!UeventArrive, Loop!serviceVars, Loop!loopVars, GoesOn

-----------------------------------------------------------------------------
(***************************************************************************)
(* The invariant                                                           *)
(***************************************************************************)

\* The empty registry and the empty queue.
LEMMA InitInv == Init => Inv
<1> SUFFICES ASSUME Init PROVE Inv
  OBVIOUS
<1>1. HandlerInv
  BY DEF Init, HandlerInv, OneThread, LockHeld
<1>2. /\ <<>> \in Seq(Item) /\ DOMAIN <<>> = {} /\ work = <<>> /\ events = {}
      /\ lpc = "main" /\ published = FALSE
  BY DEF Init, Loop!Init
<1>3. QueueInv /\ Mourned = {}
  BY <1>2, FS_EmptySet, ServiceAssumption DEF QueueInv, CallsIn, ObituariesIn, Mourned
<1>4. Made = {}
  BY DEF Init, Made
<1>5. NumbersInv
  BY <1>2, <1>3, <1>4, ServiceAssumption DEF Init, NumbersInv, Up
<1> QED BY <1>1, <1>3, <1>5 DEF Inv

\* The numbers stay apart, whoever makes or queues a registration.
LEMMA NumbersKept ==
  ASSUME NumbersInv, MadeStep, Mourned' \subseteq Mourned \cup Made,
         published' <=> lpc' \in Up, published => published', Made' # {} => published'
  PROVE  NumbersInv'
<1> DEFINE S == Made \cup Mourned
           T == (Made \cup Mourned)'
<1>1. CASE nextReg' = nextReg /\ Made' \subseteq Made
  <2>1. T \subseteq S
    BY <1>1
  <2> QED BY <1>1, <2>1 DEF NumbersInv
<1>2. ASSUME nextReg <= MaxReg, nextReg' = nextReg + 1,
             NEW e, e.n = nextReg, Made' \subseteq Made \cup {e}
      PROVE  NumbersInv'
  <2>1. T \subseteq S \cup {e}
    BY <1>2
  <2>2. nextReg \in Nat \ {0} /\ MaxReg \in Nat
    BY ServiceAssumption DEF NumbersInv
  <2>3. \A g \in S : g.n \in 1..nextReg' - 1 /\ g.n # nextReg
    BY <1>2, <2>2 DEF NumbersInv
  <2>4. e.n \in 1..nextReg' - 1
    BY <1>2, <2>2
  <2>5. \A g, h \in S \cup {e} : g.n = h.n => g = h
    BY <1>2, <2>3 DEF NumbersInv
  <2>6. nextReg' \in 1..MaxReg + 1
    BY <1>2, <2>2
  <2>7. (\A g \in T : g.n \in 1..nextReg' - 1) /\ (\A g, h \in T : g.n = h.n => g = h)
    BY <2>1, <2>3, <2>4, <2>5
  <2> QED BY <2>6, <2>7 DEF NumbersInv
<1> QED BY <1>1, <1>2 DEF MadeStep
\* One step of a handler; the last one takes the work off the queue.
LEMMA BinderStepInv ==
  ASSUME Inv, BinderStep
  PROVE  Inv'
<1>1. OneThread /\ LockHeld /\ InBinderEvent /\ QueueInv /\ NumbersInv /\ work # <<>>
  BY DEF Inv, HandlerInv, QueueInv, BinderStep, InBinderEvent
<1>2. HandlerStep
  BY <1>1, StartStep, HandleStep DEF BinderStep
<1>3. UNCHANGED <<lpc, gBinderFd, published>>
  BY DEF BinderStep, idleLoopVars
<1>4. QueueInv' /\ Mourned' \subseteq Mourned /\ (hpc'[Looper] # "idle" => events' = events)
  <2>1. CASE hpc'[Looper] = "idle"
    BY <1>1, <2>1, QueueTail DEF BinderStep
  <2>2. CASE hpc'[Looper] # "idle"
    BY <1>1, <2>2 DEF BinderStep, QueueInv, CallsIn, ObituariesIn, Mourned
  <2> QED BY <2>1, <2>2
<1>5. HandlerInv'
  BY <1>1, <1>2, <1>3, <1>4 DEF HandlerInv, HandlerStep, InBinderEvent
<1>6. published
  BY <1>1 DEF InBinderEvent, NumbersInv, Up
<1>7. NumbersInv'
  BY <1>1, <1>2, <1>3, <1>4, <1>6, NumbersKept DEF HandlerStep, NumbersInv
<1> QED BY <1>4, <1>5, <1>7 DEF Inv

\* The registry of a process that goes on is left alone by the rest of the loop.
LEMMA GoesOnInv ==
  ASSUME Inv, GoesOn, UNCHANGED registryVars, hpc[Looper] = "idle" \/ UNCHANGED <<lpc, events, gBinderFd>>
  PROVE  Inv'
<1>1. HandlerInv'
  BY DEF Inv, HandlerInv, registryVars, OneThread, LockHeld, InBinderEvent
<1>2. QueueInv' /\ Mourned' = Mourned
  BY DEF Inv, GoesOn, QueueInv, CallsIn, ObituariesIn, Mourned
<1>3. MadeStep /\ Made' = Made
  BY DEF registryVars, MadeStep, Made
<1>4. NumbersInv'
  BY <1>2, <1>3, NumbersKept DEF Inv, GoesOn, NumbersInv
<1> QED BY <1>1, <1>2, <1>4 DEF Inv

\* A process that exits leaves neither registrations nor work.
LEMMA ExitsInv ==
  ASSUME Inv, Exits, Forget, hpc[Looper] = "idle"
  PROVE  Inv'
<1>1. HandlerInv' /\ hpc' = hpc
  BY DEF Inv, HandlerInv, Forget, OneThread, LockHeld
<1>2. QueueInv' /\ Mourned' = {}
  BY QueueGone DEF Exits
<1>3. Made' = {} /\ nextReg' = 1
  BY <1>1 DEF Forget, Made
<1>4. NumbersInv'
  BY <1>2, <1>3, ServiceAssumption DEF NumbersInv, Exits, Up
<1> QED BY <1>1, <1>2, <1>4 DEF Inv

\* The rest of the loop, in the one thread there is.
LEMMA LoopStepInv ==
  ASSUME Inv, hpc[Looper] = "idle", LoopStep
  PROVE  Inv'
<1>1. LoopFacts
  BY StartUpFacts, MainloopFacts DEF LoopStep, OutsideBinder, Inv, QueueInv, NumbersInv, Staged
<1>2. IF lpc' = "exited" /\ lpc # "exited" THEN Forget ELSE UNCHANGED registryVars
  BY DEF LoopStep, OutsideBinder
<1>3. CASE Exits
  BY <1>2, <1>3, ExitsInv DEF Exits
<1>4. CASE GoesOn
  BY <1>2, <1>4, GoesOnInv DEF GoesOn
<1> QED BY <1>1, <1>3, <1>4 DEF LoopFacts

\* The kernel, in whatever handler the thread is.
LEMMA KernelStepInv ==
  ASSUME Inv, TimerExpire \/ \E m \in Loop!Message : OutsideBinder(Loop!UeventArrive(m))
  PROVE  Inv'
<1>1. GoesOn /\ UNCHANGED <<lpc, events, gBinderFd>>
  BY KernelFacts DEF TimerExpire, OutsideBinder, Inv, QueueInv, NumbersInv, Staged
<1>2. UNCHANGED registryVars
  BY <1>1 DEF TimerExpire, OutsideBinder
<1> QED BY <1>1, <1>2, GoesOnInv

\* Work is added, by a client or by the driver.
LEMMA AppendInv ==
  ASSUME Inv, QueueInv', Mourned' \subseteq Mourned \cup Made,
         UNCHANGED <<alarmVars, idleLoopVars, events, due, registryVars>>
  PROVE  Inv'
<1>1. HandlerInv'
  BY DEF Inv, HandlerInv, registryVars, idleLoopVars, OneThread, LockHeld, InBinderEvent
<1>2. MadeStep /\ Made' = Made
  BY DEF registryVars, MadeStep, Made
<1>3. NumbersInv'
  BY <1>2, NumbersKept DEF Inv, NumbersInv, idleLoopVars
<1> QED BY <1>1, <1>3 DEF Inv

LEMMA ClientCallInv ==
  ASSUME Inv, NEW w \in CallItem, ClientCall(w)
  PROVE  Inv' /\ Len(work') = Len(work) + 1
<1>1. Cardinality(CallsIn(work)) < MaxCall
  BY DEF ClientCall, Queued, CallsIn
<1>2. QueueInv' /\ Len(work') = Len(work) + 1
  BY <1>1, QueueAppend DEF Inv, ClientCall, Item
<1>3. Mourned' \subseteq Mourned
  <2>1. /\ DOMAIN work = 1..Len(work) /\ DOMAIN work' = 1..Len(work) + 1 /\ Len(work) \in Nat
        /\ \A i \in 1..Len(work) : work'[i] = work[i]
        /\ work'[Len(work) + 1] = w
    BY DEF Inv, QueueInv, ClientCall, Item
  <2>2. \A e \in Registry!Reg : w # Obituary(e)
    BY ItemKinds DEF Obituaries
  <2>3. \A i \in DOMAIN work' : i \in DOMAIN work \/ i = Len(work) + 1
    BY <2>1
  <2> QED BY <2>1, <2>2, <2>3 DEF Mourned
<1> QED BY <1>2, <1>3, AppendInv DEF ClientCall

LEMMA QueueObituaryInv ==
  ASSUME Inv, NEW e \in Registry!Reg, QueueObituary(e)
  PROVE  Inv' /\ Len(work') = Len(work) + 1
<1>1. /\ Obituary(e) \in Obituaries /\ Obituary(e) \in Item
      /\ \A i \in DOMAIN work : work[i] # Obituary(e)
  BY DEF QueueObituary, Queued, Obituaries, Item
<1>2. QueueInv' /\ Len(work') = Len(work) + 1
  BY <1>1, QueueAppend DEF Inv, QueueObituary
<1>3. Mourned' \subseteq Mourned \cup {e}
  <2>1. /\ DOMAIN work = 1..Len(work) /\ DOMAIN work' = 1..Len(work) + 1 /\ Len(work) \in Nat
        /\ \A i \in 1..Len(work) : work'[i] = work[i]
        /\ work'[Len(work) + 1] = Obituary(e)
    BY <1>1 DEF Inv, QueueInv, QueueObituary
  <2>2. \A f \in Registry!Reg : Obituary(f) = Obituary(e) => f = e
    BY DEF Obituary, Registry!Reg
  <2>3. \A i \in DOMAIN work' : i \in DOMAIN work \/ i = Len(work) + 1
    BY <2>1
  <2> QED BY <2>1, <2>2, <2>3 DEF Mourned
<1>4. e \in Made
  BY DEF QueueObituary, Made
<1> QED BY <1>2, <1>3, <1>4, AppendInv DEF QueueObituary

LEMMA DieInv ==
  ASSUME Inv, NEW c, Die(c)
  PROVE  Inv'
<1> USE DEF Die, Registry!Die, Registry!registryVars, Registry!threadVars, Registry!RegsOf
<1>1. HandlerInv'
  BY DEF Inv, HandlerInv, idleLoopVars, OneThread, LockHeld, InBinderEvent
<1>2. QueueInv' /\ Mourned' = Mourned
  BY DEF Inv, QueueInv, CallsIn, ObituariesIn, Mourned
<1>3. nextReg' = nextReg /\ Made' \subseteq Made
  BY DEF Made
<1>4. MadeStep
  BY <1>3 DEF MadeStep
<1>5. published' = published /\ lpc' = lpc
  BY DEF idleLoopVars
<1>6. NumbersInv'
  BY <1>2, <1>3, <1>4, <1>5, NumbersKept DEF Inv, NumbersInv
<1> QED BY <1>1, <1>2, <1>6 DEF Inv

\* Every step keeps the invariant.
LEMMA NextInv == Inv /\ [Next]_vars => Inv'
<1> SUFFICES ASSUME Inv, [Next]_vars PROVE Inv'
  OBVIOUS
<1>1. CASE ServiceStep
  BY <1>1, BinderStepInv, LoopStepInv DEF ServiceStep
<1>2. CASE TimerExpire \/ \E m \in Loop!Message : OutsideBinder(Loop!UeventArrive(m))
  BY <1>2, KernelStepInv
<1>3. CASE \E w \in CallItem : ClientCall(w)
  BY <1>3, ClientCallInv
<1>4. CASE \E e \in Registry!Reg : QueueObituary(e)
  BY <1>4, QueueObituaryInv
<1>5. CASE \E c \in Client : Die(c)
  BY <1>5, DieInv
<1>6. CASE UNCHANGED vars
  BY <1>6 DEF vars, idleLoopVars, registryVars, Inv, HandlerInv, OneThread, LockHeld, InBinderEvent,
     QueueInv, CallsIn, ObituariesIn, NumbersInv, Made, Mourned
<1> QED BY <1>1, <1>2, <1>3, <1>4, <1>5, <1>6 DEF Next

(***************************************************************************)
(* In every behaviour of the service, whatever clients call, whoever dies  *)
(* and however often the process restarts, a handler runs inside           *)
(* binder_event only, the driver's queue holds no obituary twice, and no   *)
(* two registrations of a process share a number.                          *)
(***************************************************************************)
THEOREM Invariance == Spec => []Inv
<1> QED BY InitInv, NextInv, PTL DEF Spec

(***************************************************************************)
(* The looper never waits for events, nor starts another one, with         *)
(* callbacks_lock_ held or a handler half done: the return of a handler    *)
(* (Health.cpp's lock_guards) comes before the return to                   *)
(* healthd_mainloop, for any number of clients and queued calls.           *)
(***************************************************************************)
THEOREM LockAlwaysFree == Spec => []LockFreeBetweenEvents
<1>1. Inv => LockFreeBetweenEvents
  BY DEF Inv, HandlerInv, LockHeld, LockFreeBetweenEvents
<1> QED BY <1>1, Invariance, PTL
-----------------------------------------------------------------------------
(***************************************************************************)
(* The service implements HealthLoop                                       *)
(***************************************************************************)

\* The queue fits the driver of HealthLoop.
LEMMA QueueFits == Inv => Len(work) <= MaxCall + MaxReg
<1> SUFFICES ASSUME Inv PROVE Len(work) <= MaxCall + MaxReg
  OBVIOUS
<1>1. ASSUME NEW i \in ObituariesIn(work), NEW j \in ObituariesIn(work), work[i].n = work[j].n
      PROVE  i = j
  <2>1. PICK e \in Registry!Reg : work[i] = Obituary(e)
    BY DEF ObituariesIn, Obituaries
  <2>2. PICK f \in Registry!Reg : work[j] = Obituary(f)
    BY DEF ObituariesIn, Obituaries
  <2>3. e \in Mourned /\ f \in Mourned
    BY <2>1, <2>2 DEF Mourned, ObituariesIn
  <2>4. e.n = f.n
    BY <1>1, <2>1, <2>2 DEF Obituary
  <2>5. work[i] = work[j]
    BY <2>1, <2>2, <2>3, <2>4 DEF Inv, NumbersInv
  <2> QED BY <2>5 DEF Inv, QueueInv
<1> QED BY <1>1, QueueBounded DEF Inv, QueueInv

\* All that changes for the loop when work arrives is how much of it there is.
LEMMA ArrivalRefines ==
  ASSUME Inv, Inv', published, Len(work') = Len(work) + 1,
         UNCHANGED <<alarmVars, idleLoopVars, events, due, registryVars>>
  PROVE  Loop!BinderArrive
<1>1. (Len(work) <= MaxCall + MaxReg)'
  BY QueueFits, PTL
<1>2. Len(work) \in Nat /\ MaxCall + MaxReg \in Nat
  BY ServiceAssumption DEF Inv, QueueInv
<1>3. Len(work) < MaxCall + MaxReg
  BY <1>1, <1>2
<1> QED BY <1>3 DEF Loop!BinderArrive, idleLoopVars, Loop!alarmVars, alarmVars, Loop!serviceVars,
    Loop!loopVars, Loop!faultVars

\* The handlers run the update() the loop runs.
LEMMA SameUpdate == Registry!Update => Loop!Update
BY DEF Registry!Update, Loop!Update, Registry!BatteryUpdateInternal, Loop!BatteryUpdateInternal,
   Registry!NewWakeInterval, Loop!NewWakeInterval, Registry!PollInterval, Loop!PollInterval,
   Registry!SetInterval, Loop!SetInterval, Registry!TimerValue, Loop!TimerValue,
   Registry!ChargerOnline, Loop!ChargerOnline, Registry!alarmVars, Loop!alarmVars

\* The step in which a handler returns is the loop's binder_event; the steps before
\* it change nothing the loop knows of.
LEMMA BinderRefines ==
  ASSUME Inv, BinderStep
  PROVE  Loop!BinderEvent \/ UNCHANGED Loop!vars
<1> USE DEF idleLoopVars, Loop!serviceVars, Loop!loopVars, Loop!kernelVars, Loop!faultVars,
            Loop!alarmVars, alarmVars
<1>1. HandlerStep /\ InBinderEvent /\ work # <<>> /\ QueueInv
  BY StartStep, HandleStep DEF Inv, HandlerInv, QueueInv, BinderStep, InBinderEvent
<1>2. CASE hpc'[Looper] = "idle"
  <2>1. Len(work') = Len(work) - 1 /\ Len(work) \in Nat \ {0} /\ events' = events \ {"binder"}
    BY <1>1, <1>2, QueueTail DEF BinderStep, QueueInv
  <2>2. Len(work') \in 0..Len(work) - 1
    BY <2>1
  <2>3. Loop!Dispatched("binder")
    BY <1>1, <2>1 DEF Loop!Dispatched, InBinderEvent, BinderStep
  <2>4. Loop!HealthdBatteryUpdate \/ UNCHANGED <<Loop!alarmVars, due>>
    BY <1>1, SameUpdate DEF Loop!HealthdBatteryUpdate, HandlerStep, BinderStep
  <2>5. UNCHANGED <<expired, uevents, Loop!faultVars>> /\ gBinderFd = "open"
    BY <1>1 DEF BinderStep, InBinderEvent
  <2> QED BY <2>2, <2>3, <2>4, <2>5 DEF Loop!BinderEvent
<1>3. CASE hpc'[Looper] # "idle"
  <2>1. UNCHANGED <<alarmVars, work, events, due, idleLoopVars>>
    BY <1>1, <1>3 DEF HandlerStep, BinderStep
  <2> QED BY <2>1 DEF Loop!vars
<1> QED BY <1>2, <1>3

\* Every step of the service is a step of the loop, or one it does not see.
LEMMA NextRefines == Inv /\ Inv' /\ [Next]_vars => [Loop!Next]_Loop!vars
<1> SUFFICES ASSUME Inv, Inv', [Next]_vars PROVE Loop!Next \/ UNCHANGED Loop!vars
  OBVIOUS
<1>1. CASE BinderStep
  BY <1>1, BinderRefines DEF Loop!Next, Loop!Mainloop
<1>2. CASE LoopStep
  BY <1>2 DEF LoopStep, OutsideBinder, Loop!Next, Loop!Mainloop
<1>3. CASE TimerExpire \/ \E m \in Loop!Message : OutsideBinder(Loop!UeventArrive(m))
  BY <1>3 DEF TimerExpire, OutsideBinder, Loop!Next
<1>4. ASSUME NEW w \in CallItem, ClientCall(w)
      PROVE  Loop!Next
  BY <1>4, ClientCallInv, ArrivalRefines DEF ClientCall, Loop!Next
<1>5. ASSUME NEW e \in Registry!Reg, QueueObituary(e)
      PROVE  Loop!Next
  <2>1. published
    BY <1>5 DEF QueueObituary, Inv, NumbersInv, Made
  <2> QED BY <1>5, <2>1, QueueObituaryInv, ArrivalRefines DEF QueueObituary, Loop!Next
<1>6. ASSUME NEW c \in Client, Die(c)
      PROVE  UNCHANGED Loop!vars
  BY <1>6 DEF Die, Registry!Die, idleLoopVars, Registry!alarmVars, Loop!vars, Loop!alarmVars,
     Loop!serviceVars, Loop!loopVars, Loop!kernelVars, Loop!faultVars
<1>7. CASE UNCHANGED vars
  BY <1>7 DEF vars, alarmVars, idleLoopVars, Loop!vars, Loop!alarmVars, Loop!serviceVars,
     Loop!loopVars, Loop!kernelVars, Loop!faultVars
<1> QED BY <1>1, <1>2, <1>3, <1>4, <1>5, <1>6, <1>7 DEF Next, ServiceStep

(***************************************************************************)
(* The health service with its handlers implements the main loop of        *)
(* HealthLoop.tla, for any number of clients, calls and registrations: so  *)
(* SingletonReady and TimeoutFitsAlarm, proved of the loop, hold of the    *)
(* service.  The bound of the loop's driver is the MaxCall calls of        *)
(* clients and one obituary of each registration.                          *)
(***************************************************************************)
THEOREM ServiceImplementsLoop == Spec => ImplementsLoop
<1>1. Init => Loop!Init
  BY DEF Init
<1> QED BY <1>1, NextRefines, Invariance, PTL DEF Spec, ImplementsLoop, Loop!Spec
==============================================================================
