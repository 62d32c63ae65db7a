--------------------------- MODULE AllocatorCalls ---------------------------
(***************************************************************************)
(* What Allocator::allocate (hals/allocator/Allocator.cpp) and both        *)
(* versions of allocateBuffers (Gralloc1Hal.h, Gralloc0Hal.h) have in      *)
(* common: the state of a call, the loop that collects buffers, the reply  *)
(* and freeBuffers.  Gralloc1Hal.tla and Gralloc0Hal.tla extend it with    *)
(* their device's calls.  The threads of the service run calls without a   *)
(* lock of their own.                                                      *)
(*                                                                         *)
(* The device is the environment: it hands out handles that are not in     *)
(* use, and its calls may fail.                                            *)
(***************************************************************************)
EXTENDS Naturals, Sequences

CONSTANTS
  Thread,    \* threads of the service
  Handle,    \* buffer handles
  Stride,    \* strides a device reports, in pixels; 0 is none
  MaxCount,  \* bound: buffers a call asks for
  None       \* no handle, no descriptor

ASSUME CallsAssumption ==
  /\ Stride \subseteq Nat \ {0}
  /\ MaxCount \in Nat
  /\ None \notin Handle

VARIABLES
  pc,         \* what each thread does next
  count,      \* the count its caller asked for
  tmpBuffer,  \* local of allocateBuffers
  buffers,    \* local of allocateBuffers
  stride,     \* local of allocateBuffers
  error,      \* local of allocateBuffers
  live,       \* external: buffers that exist in the device
  strideOf,   \* external: the stride of a live buffer, 0 if undefined
  leaked      \* history: buffers whose release failed

callVars   == <<count, tmpBuffer, buffers, stride, error>>
bufferVars == <<live, strideOf, leaked>>

Stage == {"idle", "create", "set", "allocate", "push", "after", "unwind", "reply", "free"}

Error == {"NONE", "BAD_DESCRIPTOR", "BAD_BUFFER", "BAD_VALUE", "NO_RESOURCES", "UNSUPPORTED"}

CallsTypeOK ==
  /\ pc \in [Thread -> Stage]
  /\ count \in [Thread -> 0..MaxCount]
  /\ tmpBuffer \in [Thread -> Handle \cup {None}]
  /\ buffers \in [Thread -> Seq(Handle)]
  /\ \A t \in Thread : Len(buffers[t]) <= count[t]
  /\ stride \in [Thread -> Stride \cup {0}]
  /\ error \in [Thread -> Error]
  /\ live \subseteq Handle
  /\ strideOf \in [Handle -> Stride \cup {0}]
  /\ leaked \subseteq live

CallsInit ==
  /\ pc = [t \in Thread |-> "idle"]
  /\ count = [t \in Thread |-> 0]
  /\ tmpBuffer = [t \in Thread |-> None]
  /\ buffers = [t \in Thread |-> <<>>]
  /\ stride = [t \in Thread |-> 0]
  /\ error = [t \in Thread |-> "NONE"]
  /\ live = {}
  /\ strideOf = [h \in Handle |-> 0]
  /\ leaked = {}

-----------------------------------------------------------------------------
Goto(t, stage) == pc' = [pc EXCEPT ![t] = stage]

\* An Error is on its way to the caller; what was allocated is freed first.
Unwind(t, e) ==
  /\ Goto(t, "unwind")
  /\ error' = [error EXCEPT ![t] = e]

(***************************************************************************)
(* allocate(descriptor, n, hidl_cb): a descriptor that can be decoded goes *)
(* on to the given stage, any other is answered with BAD_DESCRIPTOR.       *)
(***************************************************************************)
Ask(t, n, stage) ==
  /\ pc[t] = "idle"
  /\ count' = [count EXCEPT ![t] = n]
  /\ \/ Goto(t, stage) /\ UNCHANGED error
     \/ Unwind(t, "BAD_DESCRIPTOR")
  /\ UNCHANGED <<tmpBuffer, buffers, stride, bufferVars>>

\* i < count, the condition of the loop.
MoreToAllocate(t) == Len(buffers[t]) < count[t]

\* external: the device has made a buffer for thread t.
NewBuffer(t, h, s) ==
  /\ h \notin live
  /\ live' = live \cup {h}
  /\ strideOf' = [strideOf EXCEPT ![h] = s]
  /\ tmpBuffer' = [tmpBuffer EXCEPT ![t] = h]
  /\ Goto(t, "push")
  /\ UNCHANGED <<count, buffers, stride, error, leaked>>

\* The loop breaks with the given Error.
Break(t, e) ==
  /\ Goto(t, "after")
  /\ error' = [error EXCEPT ![t] = e]

\* Mutant: the strides are not compared.
PushUncompared(t, tmpStride) ==
  /\ buffers' = [buffers EXCEPT ![t] = Append(@, tmpBuffer[t])]
  /\ stride' = [stride EXCEPT ![t] = IF @ = 0 THEN tmpStride ELSE @]
  /\ tmpBuffer' = [tmpBuffer EXCEPT ![t] = None]
  /\ Goto(t, "allocate") /\ UNCHANGED error

\* buffers.push_back and the test for a uniform stride; a stride of 0 is taken
\* for "none seen yet".
PushBuffer(t, tmpStride) ==
  /\ buffers' = [buffers EXCEPT ![t] = Append(@, tmpBuffer[t])]
  /\ stride' = [stride EXCEPT ![t] = IF @ = 0 THEN tmpStride ELSE @]
  /\ tmpBuffer' = [tmpBuffer EXCEPT ![t] = None]
  /\ IF stride[t] \notin {0, tmpStride}
     THEN Break(t, "UNSUPPORTED")
     ELSE Goto(t, "allocate") /\ UNCHANGED error

\* All the buffers are there.
LoopEnd(t) ==
  /\ pc[t] = "allocate"
  /\ ~MoreToAllocate(t)
  /\ Goto(t, "after")
  /\ UNCHANGED <<callVars, bufferVars>>

\* After the loop: the buffers go to the caller, or those there are are freed.
AfterLoop(t) ==
  /\ pc[t] = "after"
  /\ Goto(t, IF error[t] = "NONE" THEN "reply" ELSE "unwind")
  /\ UNCHANGED <<callVars, bufferVars>>

\* external: the device's release; a failure is logged at most and leaves the
\* buffer.
Release(h) ==
  \/ /\ live' = live \ {h}
     /\ strideOf' = [strideOf EXCEPT ![h] = 0]
     /\ UNCHANGED leaked
  \/ /\ leaked' = leaked \cup {h}
     /\ UNCHANGED <<live, strideOf>>

\* hidl_cb(NONE, stride, buffers): the caller gets its own references.
SendReply(t) ==
  /\ pc[t] = "reply"
  /\ Goto(t, "free")
  /\ UNCHANGED <<callVars, bufferVars>>

\* One turn of the loop of freeBuffers, which allocateBuffers runs on an error
\* ("unwind") and allocate after its reply ("free").
FreeOne(t) ==
  /\ pc[t] \in {"unwind", "free"}
  /\ buffers[t] # <<>>
  /\ Release(Head(buffers[t]))
  /\ buffers' = [buffers EXCEPT ![t] = Tail(@)]
  /\ UNCHANGED <<pc, count, tmpBuffer, stride, error>>

\* A failed call now answers hidl_cb(error, 0, {}); allocate returns and its
\* locals are gone.
Return(t) ==
  /\ pc[t] \in {"unwind", "free"}
  /\ buffers[t] = <<>>
  /\ Goto(t, "idle")
  /\ count' = [count EXCEPT ![t] = 0]
  /\ stride' = [stride EXCEPT ![t] = 0]
  /\ error' = [error EXCEPT ![t] = "NONE"]
  /\ UNCHANGED <<tmpBuffer, buffers, bufferVars>>

-----------------------------------------------------------------------------
(***************************************************************************)
(* Properties                                                              *)
(***************************************************************************)

\* The handles thread t is responsible for.
Held(t) ==
  {buffers[t][i] : i \in 1..Len(buffers[t])} \cup ({tmpBuffer[t]} \ {None})

(***************************************************************************)
(* A handle is released once and only by the call that allocated it: what  *)
(* a call holds exists, appears once, and is held by no other call.  So    *)
(* hidl_cb sends only buffers that exist, and no error path of             *)
(* allocateOneBuffer or allocateBuffers frees a handle twice or one that   *)
(* the device has given to another thread meanwhile.                       *)
(***************************************************************************)
HandlesOwned ==
  \A t \in Thread :
    /\ Held(t) \subseteq live \ leaked
    /\ \A i, j \in 1..Len(buffers[t]) : buffers[t][i] = buffers[t][j] => i = j
    /\ \A i \in 1..Len(buffers[t]) : buffers[t][i] # tmpBuffer[t]
    /\ \A u \in Thread \ {t} : Held(t) \cap Held(u) = {}

(***************************************************************************)
(* No buffer outlives its call in the allocator: whatever failed on the    *)
(* way, every buffer in the device is held by a running call, unless its   *)
(* release failed.                                                         *)
(***************************************************************************)
NoBufferLeak == live = leaked \cup UNION {Held(t) : t \in Thread}

\* Every call is answered, whichever device calls fail.
CallsReturn == \A t \in Thread : pc[t] # "idle" ~> pc[t] = "idle"

(***************************************************************************)
(* The calls implement AllocatorSpec: granted with all the buffers or      *)
(* refused with none.                                                      *)
(***************************************************************************)
Promise == INSTANCE AllocatorSpec WITH
  phase <- [t \in Thread |->
             CASE pc[t] = "idle" -> "idle"
               [] pc[t] = "free" -> "granted"
               [] OTHER -> "busy"],
  want  <- count,
  held  <- [t \in Thread |->
             Len(buffers[t]) + IF tmpBuffer[t] = None THEN 0 ELSE 1]

AllOrNothing == Promise!Spec

\* The i-th buffer of thread t has the stride of the call, or is one of the first
\* buffers, all of them without a defined stride.
StrideFits(t, i) ==
  \/ strideOf[buffers[t][i]] = stride[t]
  \/ \A j \in 1..i : strideOf[buffers[t][j]] = 0

(***************************************************************************)
(* The comparison in the loop lets no defined stride pass that differs     *)
(* from the one the reply gives, nor an undefined one after a defined one, *)
(* whatever the device reports for each buffer; only buffers before the    *)
(* first defined stride may be without one.                                *)
(***************************************************************************)
DefinedStridesUniform ==
  \A t \in Thread : pc[t] = "reply" =>
    \A i \in 1..Len(buffers[t]) : StrideFits(t, i)

(***************************************************************************)
(* What the comment "non-uniform strides" in both versions of              *)
(* allocateBuffers says: buffers with different strides are refused, so    *)
(* every buffer of a reply has the stride the reply gives.  But a stride   *)
(* of 0 (UNDEFINED of gralloc1's getStride, what gralloc0's alloc leaves   *)
(* in the initialised local) is taken for "no stride seen yet", and over   *)
(* either back end a reply can have a first buffer without a stride.       *)
(***************************************************************************)
UniformStride ==
  \A t \in Thread : pc[t] = "reply" =>
    \A i \in 1..Len(buffers[t]) : strideOf[buffers[t][i]] = stride[t]
==============================================================================
