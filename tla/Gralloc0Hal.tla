---------------------------- MODULE Gralloc0Hal -----------------------------
(***************************************************************************)
(* IAllocator::allocate on top of a gralloc0 device: allocateBuffers,      *)
(* allocateOneBuffer and freeBuffers of Gralloc0HalImpl                    *)
(* (hals/allocator/Gralloc0Hal.h) under Allocator::allocate.  There are no *)
(* descriptors: alloc takes the decoded values and returns the buffer with *)
(* its stride.                                                             *)
(***************************************************************************)
EXTENDS AllocatorCalls

VARIABLE beyond   \* a call's descriptor has more layers or usage bits than gralloc0

vars == <<pc, callVars, bufferVars, beyond>>

Init == CallsInit /\ beyond = [t \in Thread |-> FALSE]

-----------------------------------------------------------------------------
Allocate(t, n, b) ==
  /\ Ask(t, n, "allocate")
  /\ beyond' = [beyond EXCEPT ![t] = b]

\* What allocateOneBuffer makes of an errno of alloc.
ToError(errno) == IF errno = "EINVAL" THEN "BAD_VALUE" ELSE "NO_RESOURCES"

\* Mutant: a failed alloc is tried again.
AllocateRetries(t) ==
  /\ pc[t] = "allocate"
  /\ MoreToAllocate(t)
  /\ \/ \E h \in Handle \ live, s \in Stride \cup {0} : ~beyond[t] /\ NewBuffer(t, h, s)
     \/ UNCHANGED <<pc, callVars, bufferVars>>
  /\ UNCHANGED beyond

\* allocateOneBuffer: the test for what gralloc0 lacks comes before the device
\* is asked, so a call for no buffers passes it whatever its descriptor says.  An
\* alloc that leaves the stride alone leaves the 0 it was initialised with.
AllocateBuffer(t) ==
  /\ pc[t] = "allocate"
  /\ MoreToAllocate(t)
  /\ \/ \E h \in Handle \ live, s \in Stride \cup {0} : ~beyond[t] /\ NewBuffer(t, h, s)
     \/ \E e \in IF beyond[t] THEN {"BAD_VALUE"} ELSE {ToError("EINVAL"), ToError("ENOMEM")} :
          /\ Break(t, e)
          /\ UNCHANGED <<count, tmpBuffer, buffers, stride, bufferVars>>
  /\ UNCHANGED beyond

\* Mutant: the handle is kept for the next turn of the loop.
PushKeepsHandle(t) ==
  /\ pc[t] = "push"
  /\ buffers' = [buffers EXCEPT ![t] = Append(@, tmpBuffer[t])]
  /\ stride' = [stride EXCEPT ![t] = strideOf[tmpBuffer[t]]]
  /\ Goto(t, "allocate")
  /\ UNCHANGED <<count, tmpBuffer, error, bufferVars, beyond>>

\* Mutant: push_back comes after the comparison of the strides.
PushAfterCompare(t) ==
  /\ pc[t] = "push"
  /\ IF stride[t] \in {0, strideOf[tmpBuffer[t]]} THEN PushBuffer(t, strideOf[tmpBuffer[t]])
     ELSE /\ Break(t, "UNSUPPORTED")
          /\ tmpBuffer' = [tmpBuffer EXCEPT ![t] = None]
          /\ UNCHANGED <<buffers, stride>>
  /\ UNCHANGED <<count, bufferVars, beyond>>

\* push_back and the comparison of the strides.
Push(t) ==
  /\ pc[t] = "push"
  /\ PushBuffer(t, strideOf[tmpBuffer[t]])
  /\ UNCHANGED <<count, bufferVars, beyond>>

LoopDone(t) == LoopEnd(t) /\ UNCHANGED beyond

\* Mutant: the error of the loop is not looked at.
IgnoreError(t) == pc[t] = "after" /\ Goto(t, "reply") /\ UNCHANGED <<callVars, bufferVars, beyond>>

CheckError(t) == AfterLoop(t) /\ UNCHANGED beyond

Reply(t) == SendReply(t) /\ UNCHANGED beyond

FreeBuffer(t) == FreeOne(t) /\ UNCHANGED beyond

FreeDone(t) == Return(t) /\ beyond' = [beyond EXCEPT ![t] = FALSE]

-----------------------------------------------------------------------------
Step(t) ==
  \/ AllocateBuffer(t) \/ Push(t) \/ LoopDone(t) \/ CheckError(t)
  \/ Reply(t) \/ FreeBuffer(t) \/ FreeDone(t)

Next ==
  \E t \in Thread :
    \/ \E n \in 0..MaxCount, b \in BOOLEAN : Allocate(t, n, b)
    \/ Step(t)

\* A thread that runs a call is scheduled; the device's calls return.
Spec == Init /\ [][Next]_vars /\ \A t \in Thread : WF_vars(Step(t))
==============================================================================
