---------------------------- MODULE Gralloc1Hal -----------------------------
(***************************************************************************)
(* IAllocator::allocate on top of a gralloc1 device: allocateBuffers,      *)
(* createDescriptor, allocateOneBuffer and freeBuffers of Gralloc1HalImpl  *)
(* (hals/allocator/Gralloc1Hal.h) under Allocator::allocate.               *)
(*                                                                         *)
(* The device hands out descriptors as well as buffers, and any of its     *)
(* calls may fail with the errors hardware/gralloc1.h gives for it.        *)
(***************************************************************************)
EXTENDS AllocatorCalls

CONSTANTS
  Descriptor,      \* values of gralloc1_buffer_descriptor_t
  LayeredBuffers   \* mCapabilities.layeredBuffers

ASSUME Gralloc1Assumption ==
  /\ LayeredBuffers \in BOOLEAN
  /\ None \notin Descriptor

VARIABLES
  layers,  \* whether a call's descriptor asks for more than one layer
  desc,    \* local of allocateBuffers
  descs,   \* external: descriptors that exist in the device
  ub       \* history: an uninitialised descriptor has been destroyed

descVars == <<layers, desc, descs, ub>>
vars == <<pc, callVars, bufferVars, descVars>>

TypeOK ==
  /\ CallsTypeOK
  /\ layers \in [Thread -> BOOLEAN]
  /\ desc \in [Thread -> Descriptor \cup {None}]
  /\ descs \subseteq Descriptor
  /\ ub \in BOOLEAN

Init ==
  /\ CallsInit
  /\ layers = [t \in Thread |-> FALSE]
  /\ desc = [t \in Thread |-> None]
  /\ descs = {}
  /\ ub = FALSE

\* Mutant: the device's error is passed on as it is.
ToErrorRaw(e) == e

\* toError; the device's name for a bad buffer is BAD_HANDLE.
ToError(e) ==
  CASE e \in {"NONE", "NOT_SHARED"} -> "NONE"
    [] e = "BAD_HANDLE" -> "BAD_BUFFER"
    [] e \in {"BAD_DESCRIPTOR", "BAD_VALUE", "NO_RESOURCES"} -> e
    [] OTHER -> "UNSUPPORTED"

-----------------------------------------------------------------------------
(***************************************************************************)
(* createDescriptor                                                        *)
(***************************************************************************)

Allocate(t, n, layered) ==
  /\ Ask(t, n, "create")
  /\ layers' = [layers EXCEPT ![t] = layered]
  /\ UNCHANGED <<desc, descs, ub>>

(***************************************************************************)
(* mDispatch.createDescriptor.  When it fails, createDescriptor passes its *)
(* uninitialised local to destroyDescriptor: the value is no descriptor at *)
(* all, or one that another thread is using.                               *)
(***************************************************************************)
CreateDescriptor(t) ==
  /\ pc[t] = "create"
  /\ \/ \E d \in Descriptor \ descs :
          /\ desc' = [desc EXCEPT ![t] = d]
          /\ descs' = descs \cup {d}
          /\ Goto(t, "set")
          /\ UNCHANGED <<error, ub>>
     \/ \E S \in {{}} \cup {{d} : d \in descs} :
          /\ descs' = descs \ S
          /\ ub' = TRUE
          /\ Unwind(t, ToError("NO_RESOURCES"))
          /\ UNCHANGED desc
  /\ UNCHANGED <<count, tmpBuffer, buffers, stride, bufferVars, layers>>

\* The errors the set calls may end with: a descriptor that is gone is
\* rejected, and layers are asked for only of a device that has them.
SetErrors(t) ==
  CASE desc[t] \notin descs -> {"BAD_DESCRIPTOR"}
    [] layers[t] /\ ~LayeredBuffers -> {"BAD_VALUE", "UNSUPPORTED"}
    [] OTHER -> {"NONE", "BAD_VALUE", "UNSUPPORTED"}

\* Mutant: the descriptor is not destroyed when a set call fails.
SetDescriptorLeaks(t) ==
  /\ pc[t] = "set"
  /\ \E e \in SetErrors(t) :
       IF e = "NONE" THEN Goto(t, "allocate") /\ UNCHANGED error
       ELSE Unwind(t, ToError(e))
  /\ UNCHANGED <<count, tmpBuffer, buffers, stride, bufferVars, descVars>>

\* setDimensions, setFormat, setLayerCount, setProducerUsage, setConsumerUsage:
\* the first one that fails ends the chain, and the descriptor is destroyed.
SetDescriptor(t) ==
  /\ pc[t] = "set"
  /\ \E e \in SetErrors(t) :
       IF e = "NONE"
       THEN Goto(t, "allocate") /\ UNCHANGED <<error, descs>>
       ELSE Unwind(t, ToError(e)) /\ descs' = descs \ {desc[t]}
  /\ UNCHANGED <<count, tmpBuffer, buffers, stride, bufferVars, layers, desc, ub>>

-----------------------------------------------------------------------------
(***************************************************************************)
(* allocateBuffers; allocateOneBuffer is mDispatch.allocate, then          *)
(* getStride.                                                              *)
(***************************************************************************)

\* Mutant: a failed device call is tried again.
AllocateRetries(t) ==
  /\ pc[t] = "allocate"
  /\ MoreToAllocate(t)
  /\ \/ \E h \in Handle \ live, s \in Stride \cup {0} :
          desc[t] \in descs /\ NewBuffer(t, h, s)
     \/ UNCHANGED <<pc, callVars, bufferVars>>
  /\ UNCHANGED descVars

\* A new buffer with its stride (NOT_SHARED counts as success), or an error;
\* the device rejects a descriptor that is gone.
AllocateBuffer(t) ==
  /\ pc[t] = "allocate"
  /\ MoreToAllocate(t)
  /\ \/ \E h \in Handle \ live, s \in Stride \cup {0} :
          desc[t] \in descs /\ NewBuffer(t, h, s)
     \/ \E e \in {"BAD_DESCRIPTOR", "NO_RESOURCES", "UNSUPPORTED"} :
          /\ Break(t, ToError(e))
          /\ UNCHANGED <<count, tmpBuffer, buffers, stride, bufferVars>>
  /\ UNCHANGED descVars

\* Mutant: no release when getStride fails.
GetStrideLeaks(t) ==
  /\ pc[t] = "push"
  /\ \/ PushBuffer(t, strideOf[tmpBuffer[t]])
     \/ /\ Break(t, ToError("BAD_HANDLE"))
        /\ tmpBuffer' = [tmpBuffer EXCEPT ![t] = None]
        /\ UNCHANGED <<buffers, stride>>
  /\ UNCHANGED <<count, bufferVars, descVars>>

\* Mutant: a buffer that getStride rejected is released and kept in the vector.
GetStrideKeeps(t) ==
  /\ pc[t] = "push"
  /\ \/ PushBuffer(t, strideOf[tmpBuffer[t]]) /\ UNCHANGED bufferVars
     \/ PushBuffer(t, 0) /\ Release(tmpBuffer[t])
  /\ UNCHANGED <<count, descVars>>

\* mDispatch.getStride: UNDEFINED leaves the stride at 0; on any other error
\* the buffer is released.
GetStride(t) ==
  /\ pc[t] = "push"
  /\ \/ PushBuffer(t, strideOf[tmpBuffer[t]]) /\ UNCHANGED bufferVars
     \/ /\ Release(tmpBuffer[t])
        /\ tmpBuffer' = [tmpBuffer EXCEPT ![t] = None]
        /\ Break(t, ToError("BAD_HANDLE"))
        /\ UNCHANGED <<buffers, stride>>
  /\ UNCHANGED <<count, descVars>>

LoopDone(t) == LoopEnd(t) /\ UNCHANGED descVars

\* Mutant: the error of the loop is not looked at.
DestroyIgnoresError(t) ==
  /\ pc[t] = "after"
  /\ Goto(t, "reply")
  /\ descs' = descs \ {desc[t]}
  /\ UNCHANGED <<callVars, bufferVars, layers, desc, ub>>

\* destroyDescriptor, whether or not the loop succeeded.
DestroyDescriptor(t) ==
  /\ AfterLoop(t)
  /\ descs' = descs \ {desc[t]}
  /\ UNCHANGED <<layers, desc, ub>>

Reply(t) == SendReply(t) /\ UNCHANGED descVars

FreeBuffer(t) == FreeOne(t) /\ UNCHANGED descVars

FreeDone(t) ==
  /\ Return(t)
  /\ layers' = [layers EXCEPT ![t] = FALSE]
  /\ desc' = [desc EXCEPT ![t] = None]
  /\ UNCHANGED <<descs, ub>>

-----------------------------------------------------------------------------
Step(t) ==
  \/ CreateDescriptor(t) \/ SetDescriptor(t)
  \/ AllocateBuffer(t) \/ GetStride(t) \/ LoopDone(t) \/ DestroyDescriptor(t)
  \/ Reply(t) \/ FreeBuffer(t) \/ FreeDone(t)

Next ==
  \E t \in Thread :
    \/ \E n \in 0..MaxCount, layered \in BOOLEAN : Allocate(t, n, layered)
    \/ Step(t)

Spec == Init /\ [][Next]_vars

\* A thread that runs a call is scheduled; the device's calls return.
FairSpec == Spec /\ \A t \in Thread : WF_vars(Step(t))

-----------------------------------------------------------------------------
(***************************************************************************)
(* No descriptor outlives its call, and as long as no uninitialised        *)
(* descriptor was destroyed a call never loses the descriptor it uses.     *)
(***************************************************************************)
DescriptorsOwned ==
  LET users == {t \in Thread : pc[t] \in {"set", "allocate", "push", "after"}}
  IN  /\ descs \subseteq {desc[t] : t \in users}
      /\ ub \/ \A t \in users :
                 desc[t] \in descs /\ \A u \in users : desc[u] = desc[t] => u = t
==============================================================================
