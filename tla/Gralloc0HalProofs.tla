-------------------------- MODULE Gralloc0HalProofs --------------------------
(***************************************************************************)
(* The gralloc0 back end, for any number of threads, handles and buffers   *)
(* per call: the ownership of buffers, the strides of a reply, and that it *)
(* keeps the promise of IAllocator::allocate.                              *)
(***************************************************************************)
EXTENDS Gralloc0Hal, AllocatorCallsProofs

\* The inductive invariant.
Inv == CallsInv /\ beyond \in [Thread -> BOOLEAN]

\* The initial states satisfy the invariant.
LEMMA InitInv == Init => Inv
BY CallsInitInv DEF Init, Inv

\* A call begins with nothing collected.
LEMMA AllocateInv ==
  ASSUME Inv, NEW t \in Thread, NEW n \in 0..MaxCount, NEW b \in BOOLEAN, Allocate(t, n, b)
  PROVE  Inv'
BY AskInv DEF Inv, Allocate

\* A buffer is made, or the loop breaks with an error.
LEMMA AllocateBufferInv ==
  ASSUME Inv, NEW t \in Thread, AllocateBuffer(t)
  PROVE  Inv'
<1> USE DEF AllocateBuffer
<1>1. CASE \E h \in Handle \ live, s \in Stride \cup {0} : NewBuffer(t, h, s)
  BY <1>1, NewBufferInv DEF Inv
<1>2. CASE \E e \in {"BAD_VALUE", "NO_RESOURCES"} :
             /\ Break(t, e)
             /\ UNCHANGED <<count, tmpBuffer, buffers, stride, bufferVars>>
  BY <1>2, MoveInv DEF Inv, Error
<1> QED BY <1>1, <1>2 DEF ToError

\* push_back, the end of the loop, the test of its error, the reply, freeBuffers and
\* the return of allocate.
LEMMA LoopInv ==
  ASSUME Inv, NEW t \in Thread,
         Push(t) \/ LoopDone(t) \/ CheckError(t) \/ Reply(t) \/ FreeBuffer(t) \/ FreeDone(t)
  PROVE  Inv'
<1>1. CASE Push(t)
  BY <1>1, PushBufferInv DEF Inv, Push
<1>2. CASE LoopDone(t) \/ CheckError(t) \/ Reply(t)
  BY <1>2, LoopEndInv, AfterLoopInv, SendReplyInv DEF Inv, LoopDone, CheckError, Reply
<1>3. CASE FreeBuffer(t) \/ FreeDone(t)
  BY <1>3, FreeOneInv, ReturnInv DEF Inv, FreeBuffer, FreeDone
<1> QED BY <1>1, <1>2, <1>3

\* Every step keeps the invariant.
LEMMA NextInv == Inv /\ [Next]_vars => Inv'
<1> SUFFICES ASSUME Inv, [Next]_vars PROVE Inv'
  OBVIOUS
<1>1. ASSUME NEW t \in Thread, NEW n \in 0..MaxCount, NEW b \in BOOLEAN, Allocate(t, n, b)
      PROVE  Inv'
  BY <1>1, AllocateInv
<1>2. ASSUME NEW t \in Thread, Step(t)
      PROVE  Inv'
  BY <1>2, AllocateBufferInv, LoopInv DEF Step
<1>3. CASE UNCHANGED vars
  BY <1>3, StutterInv DEF vars, Inv
<1> QED BY <1>1, <1>2, <1>3 DEF Next

(***************************************************************************)
(* Inv holds in every state of the specification.                          *)
(***************************************************************************)
THEOREM Invariance == Spec => []Inv
<1>1. Spec => Init /\ [][Next]_vars
  BY PTL DEF Spec
<1> QED BY <1>1, InitInv, NextInv, PTL

(***************************************************************************)
(* Over gralloc0 too a handle is released once and only by the call that   *)
(* allocated it.                                                           *)
(***************************************************************************)
THEOREM HandlesAlwaysOwned == Spec => []HandlesOwned
<1>1. Inv => HandlesOwned
  BY DEF Inv, CallsInv
<1> QED BY <1>1, Invariance, PTL

(***************************************************************************)
(* Over gralloc0 too no buffer outlives its call in the allocator, except  *)
(* the ones whose release failed.                                          *)
(***************************************************************************)
THEOREM BuffersNeverLeak == Spec => []NoBufferLeak
<1>1. Inv => NoBufferLeak
  BY DEF Inv, CallsInv
<1> QED BY <1>1, Invariance, PTL

(***************************************************************************)
(* Whatever strides the device reports or leaves undefined, every buffer   *)
(* of a reply has the stride the reply gives, except those before the      *)
(* first defined stride, over gralloc0.                                    *)
(***************************************************************************)
THEOREM StridesAlwaysFit == Spec => []DefinedStridesUniform
<1>1. Inv => DefinedStridesUniform
  BY DEF Inv, CallsInv, StridesCollected, Collecting, DefinedStridesUniform
<1> QED BY <1>1, Invariance, PTL

-----------------------------------------------------------------------------
(***************************************************************************)
(* The promise of IAllocator::allocate                                     *)
(***************************************************************************)

\* Every step of a call is a step of the promise, or invisible in it.
LEMMA StepRefines ==
  ASSUME Inv, NEW t \in Thread, Step(t)
  PROVE  [Promise!Next]_(Promise!vars)
<1> USE DEF Inv
<1>1. CASE AllocateBuffer(t)
  <2>1. CASE \E h \in Handle \ live, s \in Stride \cup {0} : NewBuffer(t, h, s)
    BY <1>1, <2>1, NewBufferRefines DEF AllocateBuffer
  <2>2. CASE \E e : Break(t, e) /\ UNCHANGED <<count, tmpBuffer, buffers>>
    <3>1. Goto(t, "after") /\ pc[t] = "allocate" /\ UNCHANGED <<count, tmpBuffer, buffers>>
      BY <1>1, <2>2 DEF AllocateBuffer, Break
    <3> QED BY <3>1, MoveRefines DEF PhaseOf
  <2> QED BY <1>1, <2>1, <2>2 DEF AllocateBuffer
<1>2. CASE Push(t)
  BY <1>2, PushBufferRefines DEF Push
<1>3. CASE LoopDone(t)
  BY <1>3, MoveRefines DEF LoopDone, LoopEnd, callVars, PhaseOf
<1>4. CASE CheckError(t)
  <2>1. PICK stage \in {"reply", "unwind"} : Goto(t, stage)
    BY <1>4 DEF CheckError, AfterLoop
  <2>2. UNCHANGED <<count, tmpBuffer, buffers>> /\ pc[t] = "after"
    BY <1>4 DEF CheckError, AfterLoop, callVars
  <2> QED BY <2>1, <2>2, MoveRefines DEF PhaseOf
<1>5. CASE Reply(t)
  BY <1>5, SendReplyRefines DEF Reply
<1>6. CASE FreeBuffer(t)
  BY <1>6, FreeOneRefines DEF FreeBuffer
<1>7. CASE FreeDone(t)
  BY <1>7, ReturnRefines DEF FreeDone
<1> QED BY <1>1, <1>2, <1>3, <1>4, <1>5, <1>6, <1>7 DEF Step

\* A step of the specification is a step of the promise, or invisible in it.
LEMMA NextRefines == Inv /\ [Next]_vars => [Promise!Next]_(Promise!vars)
<1> SUFFICES ASSUME Inv, [Next]_vars PROVE [Promise!Next]_(Promise!vars)
  OBVIOUS
<1>1. ASSUME NEW t \in Thread, NEW n \in 0..MaxCount, NEW b \in BOOLEAN, Allocate(t, n, b)
      PROVE  Promise!Next
  BY <1>1, AskRefines DEF Allocate, Inv
<1>2. CASE UNCHANGED vars
  <2>1. Phase' = Phase /\ count' = count /\ HeldCount' = HeldCount
    BY <1>2, HeldKept DEF vars, callVars, Phase
  <2> QED BY <2>1, PromiseStutter
<1> QED BY <1>1, <1>2, StepRefines DEF Next

(***************************************************************************)
(* The gralloc0 back end implements AllocatorSpec as well: all the buffers *)
(* or none, and the service's own handles are given back.                  *)
(***************************************************************************)
THEOREM KeepsPromise == Spec => AllOrNothing
<1>1. Init => Promise!Init
  BY CallsInitRefines DEF Init
<1>2. Spec => Init /\ [][Next]_vars
  BY PTL DEF Spec
<1> QED BY <1>1, <1>2, NextRefines, Invariance, PTL DEF AllOrNothing, Promise!Spec
==============================================================================
