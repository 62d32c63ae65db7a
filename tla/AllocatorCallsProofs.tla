------------------------ MODULE AllocatorCallsProofs ------------------------
(***************************************************************************)
(* The inductive invariant of the steps that both gralloc back ends share  *)
(* (AllocatorCalls.tla), and one lemma per step.  Gralloc1HalProofs.tla and*)
(* Gralloc0HalProofs.tla put the steps together to their specifications.   *)
(***************************************************************************)
EXTENDS AllocatorCalls, TLAPS

(***************************************************************************)
(* What the stage of a call says about its locals: tmpBuffer is a handle   *)
(* exactly between alloc and push_back, nothing is collected before the    *)
(* loop, no error is set while the call goes on, and a call that goes to   *)
(* the reply has all its buffers.                                          *)
(***************************************************************************)
Staged ==
  \A t \in Thread :
    /\ pc[t] = "push" <=> tmpBuffer[t] # None
    /\ pc[t] \in {"idle", "create", "set"} => buffers[t] = <<>>
    /\ pc[t] \notin {"after", "unwind", "free"} => error[t] = "NONE"
    /\ pc[t] = "push" => Len(buffers[t]) < count[t]
    /\ pc[t] = "reply" \/ (pc[t] = "after" /\ error[t] = "NONE") =>
         Len(buffers[t]) = count[t]

\* The strides collected so far fit: the loop goes on, or has ended without an error.
Collecting(t) ==
  pc[t] \in {"allocate", "push", "reply"} \/ (pc[t] = "after" /\ error[t] = "NONE")

\* What DefinedStridesUniform needs of the stages before the reply.
StridesCollected ==
  \A t \in Thread : Collecting(t) => \A i \in 1..Len(buffers[t]) : StrideFits(t, i)

\* The inductive invariant of the shared steps.
CallsInv == CallsTypeOK /\ Staged /\ HandlesOwned /\ NoBufferLeak /\ StridesCollected

\* The initial state satisfies the invariant.
LEMMA CallsInitInv == CallsInit => CallsInv
<1> SUFFICES ASSUME CallsInit PROVE CallsInv
  OBVIOUS
<1> USE DEF CallsInit
<1>1. CallsTypeOK
  BY CallsAssumption DEF CallsTypeOK, Stage, Error
<1>2. Staged
  BY DEF Staged
<1>e. \A t \in Thread : tmpBuffer[t] = None /\ 1..Len(buffers[t]) = {}
  <2>1. Len(<<>>) = 0
    OBVIOUS
  <2>2. \A t \in Thread : buffers[t] = <<>> /\ tmpBuffer[t] = None
    BY Zenon
  <2>3. 1..0 = {}
    OBVIOUS
  <2> QED BY <2>1, <2>2, <2>3, Zenon
<1>3. \A t \in Thread : Held(t) = {}
  BY <1>e DEF Held
<1>4. HandlesOwned
  BY <1>3, <1>e DEF HandlesOwned
<1>5. NoBufferLeak
  BY <1>3 DEF NoBufferLeak
<1>6. StridesCollected
  BY <1>e DEF StridesCollected
<1> QED BY <1>1, <1>2, <1>4, <1>5, <1>6 DEF CallsInv

-----------------------------------------------------------------------------
(***************************************************************************)
(* What a step does to the handles a call holds.                           *)
(***************************************************************************)

\* What a call holds depends on its locals only.
LEMMA HeldFrame ==
  ASSUME NEW u, buffers'[u] = buffers[u], tmpBuffer'[u] = tmpBuffer[u]
  PROVE  Held(u)' = Held(u)
BY DEF Held

\* A step that leaves every local vector, every handle and the device alone
\* keeps the ownership of buffers.
LEMMA OwnershipKept ==
  ASSUME HandlesOwned, NoBufferLeak, UNCHANGED <<tmpBuffer, buffers, bufferVars>>
  PROVE  HandlesOwned' /\ NoBufferLeak'
<1>1. \A t \in Thread : Held(t)' = Held(t)
  BY HeldFrame
<1>2. HandlesOwned'
  BY <1>1 DEF HandlesOwned, bufferVars
<1>3. NoBufferLeak'
  BY <1>1 DEF NoBufferLeak, bufferVars
<1> QED BY <1>2, <1>3

(***************************************************************************)
(* A device that takes back a handle of thread t, which then holds the     *)
(* others, keeps the ownership; what a call holds is no longer live, or    *)
(* counts as leaked.                                                       *)
(***************************************************************************)
LEMMA ReleaseOwnership ==
  ASSUME HandlesOwned, NoBufferLeak, NEW t \in Thread, NEW h \in Held(t), Release(h),
         Held(t)' = Held(t) \ {h},
         \A u \in Thread \ {t} : Held(u)' = Held(u)
  PROVE  /\ \A u \in Thread : Held(u)' \subseteq live' \ leaked'
         /\ \A u \in Thread, v \in Thread : u # v => Held(u)' \cap Held(v)' = {}
         /\ NoBufferLeak'
<1>1. \A u \in Thread \ {t} : h \notin Held(u)
  BY DEF HandlesOwned
<1>2. \A u \in Thread : Held(u)' \subseteq live' \ leaked'
  BY <1>1 DEF HandlesOwned, Release
<1>3. \A u \in Thread, v \in Thread : u # v => Held(u)' \cap Held(v)' = {}
  BY DEF HandlesOwned
<1>4. h \in live /\ h \notin leaked
  BY DEF HandlesOwned
<1>5. ASSUME NEW x
      PROVE  x \in live' <=> x \in leaked' \/ \E u \in Thread : x \in Held(u)'
  <2>1. x \in live <=> x \in leaked \/ \E u \in Thread : x \in Held(u)
    BY DEF NoBufferLeak
  <2> QED BY <1>1, <1>4, <2>1 DEF Release
<1>6. NoBufferLeak'
  BY <1>5 DEF NoBufferLeak
<1> QED BY <1>2, <1>3, <1>6

-----------------------------------------------------------------------------
(***************************************************************************)
(* What a step does to the strides a call has collected.                   *)
(***************************************************************************)

\* The collected handles exist, and a thread's are not another thread's.
LEMMA CollectedHeld ==
  ASSUME CallsInv, NEW t \in Thread, NEW i \in 1..Len(buffers[t])
  PROVE  /\ buffers[t][i] \in live /\ buffers[t][i] \in Handle
         /\ \A u \in Thread \ {t} : buffers[t][i] \notin Held(u)
<1>1. buffers[t][i] \in Held(t)
  BY DEF Held
<1> QED BY <1>1 DEF CallsInv, HandlesOwned, CallsTypeOK

\* What a call has collected fits as before, if its buffers and their strides are the
\* same as before.
LEMMA FitsFrame ==
  ASSUME NEW u \in Thread, buffers'[u] = buffers[u], stride'[u] = stride[u],
         \A i \in 1..Len(buffers[u]) : StrideFits(u, i),
         \A i \in 1..Len(buffers[u]) : strideOf'[buffers[u][i]] = strideOf[buffers[u][i]],
         Len(buffers[u]) \in Nat
  PROVE  \A i \in 1..Len(buffers'[u]) : StrideFits(u, i)'
<1> SUFFICES ASSUME NEW i \in 1..Len(buffers[u]) PROVE StrideFits(u, i)'
  OBVIOUS
<1>1. \A j \in 1..i : j \in 1..Len(buffers[u])
  OBVIOUS
<1> QED BY <1>1 DEF StrideFits

(***************************************************************************)
(* A step that changes no buffer keeps the strides, if the call it is of   *)
(* has collected fitting strides, or nothing, or breaks off.               *)
(***************************************************************************)
LEMMA StridesKept ==
  ASSUME CallsInv, NEW t \in Thread, UNCHANGED <<buffers, bufferVars>>,
         \A u \in Thread \ {t} : pc'[u] = pc[u] /\ error'[u] = error[u] /\ stride'[u] = stride[u],
         Collecting(t)' => (Collecting(t) /\ stride'[t] = stride[t]) \/ buffers[t] = <<>>
  PROVE  StridesCollected'
<1>1. Len(<<>>) = 0 /\ 1..0 = {}
  OBVIOUS
<1>2. ASSUME NEW u \in Thread, Collecting(u)'
      PROVE  \A i \in 1..Len(buffers'[u]) : StrideFits(u, i)'
  <2>1. CASE buffers[u] = <<>>
    BY <1>1, <2>1
  <2>2. CASE buffers[u] # <<>>
    <3>1. Collecting(u) /\ stride'[u] = stride[u]
      BY <1>2, <2>2 DEF Collecting
    <3>2. Len(buffers[u]) \in Nat
      BY DEF CallsInv, CallsTypeOK
    <3> QED BY <3>1, <3>2, FitsFrame DEF CallsInv, StridesCollected, bufferVars
  <2> QED BY <2>1, <2>2
<1> QED BY <1>2 DEF StridesCollected

\* A new buffer brings its stride and leaves those of the others.
LEMMA StridesNew ==
  ASSUME CallsInv, NEW t \in Thread, NEW h \in Handle, NEW s,
         pc[t] = "allocate", NewBuffer(t, h, s)
  PROVE  StridesCollected'
<1> USE DEF NewBuffer, Goto
<1>1. ASSUME NEW u \in Thread, Collecting(u)'
      PROVE  \A i \in 1..Len(buffers'[u]) : StrideFits(u, i)'
  <2>1. \A i \in 1..Len(buffers[u]) : strideOf'[buffers[u][i]] = strideOf[buffers[u][i]]
    <3> SUFFICES ASSUME NEW i \in 1..Len(buffers[u])
                 PROVE  strideOf'[buffers[u][i]] = strideOf[buffers[u][i]]
      OBVIOUS
    <3>1. buffers[u][i] # h /\ buffers[u][i] \in Handle
      BY CollectedHeld
    <3> QED BY <3>1 DEF CallsInv, CallsTypeOK
  <2>2. Collecting(u)
    BY <1>1 DEF CallsInv, CallsTypeOK, Collecting
  <2>3. Len(buffers[u]) \in Nat
    BY DEF CallsInv, CallsTypeOK
  <2> QED BY <2>1, <2>2, <2>3, FitsFrame DEF CallsInv, StridesCollected
<1> QED BY <1>1 DEF StridesCollected

(***************************************************************************)
(* push_back adds a buffer of the stride collected, or one after buffers   *)
(* without a stride, or sets an error.                                     *)
(***************************************************************************)
LEMMA StridesPush ==
  ASSUME CallsInv, NEW t \in Thread, pc[t] = "push",
         PushBuffer(t, strideOf[tmpBuffer[t]]), UNCHANGED bufferVars
  PROVE  StridesCollected'
<1> USE DEF PushBuffer
<1> DEFINE b == buffers[t]
           h == tmpBuffer[t]
           s == strideOf[h]
<1>1. /\ b \in Seq(Handle) /\ h \in Handle /\ strideOf' = strideOf
      /\ buffers' = [buffers EXCEPT ![t] = Append(b, h)] /\ buffers'[t] = Append(b, h)
  BY DEF CallsInv, CallsTypeOK, Staged, bufferVars
<1>2. /\ Len(Append(b, h)) = Len(b) + 1
      /\ \A i \in 1..Len(b) : Append(b, h)[i] = b[i]
      /\ Append(b, h)[Len(b) + 1] = h /\ Len(b) \in Nat
  BY <1>1
<1>3. \A i \in 1..Len(b) : StrideFits(t, i)
  BY DEF CallsInv, StridesCollected, Collecting
<1>4. ASSUME NEW u \in Thread, u # t, Collecting(u)'
      PROVE  \A i \in 1..Len(buffers'[u]) : StrideFits(u, i)'
  <2>1. pc'[u] = pc[u] /\ error'[u] = error[u] /\ stride'[u] = stride[u] /\ buffers'[u] = buffers[u]
    BY <1>1, <1>4 DEF CallsInv, CallsTypeOK, Break, Goto
  <2>2. Collecting(u) /\ Len(buffers[u]) \in Nat
    BY <1>4, <2>1 DEF Collecting, CallsInv, CallsTypeOK
  <2> QED BY <1>1, <2>1, <2>2, FitsFrame DEF CallsInv, StridesCollected
<1>5. ASSUME Collecting(t)', NEW i \in 1..Len(b) + 1
      PROVE  StrideFits(t, i)'
  <2>1. stride[t] \in {0, s} /\ stride'[t] = s
    BY <1>5 DEF CallsInv, CallsTypeOK, Break, Goto, Collecting
  <2>2. CASE i = Len(b) + 1
    BY <1>1, <1>2, <2>1, <2>2 DEF StrideFits
  <2>3. CASE i # Len(b) + 1
    <3>1. i \in 1..Len(b) /\ \A j \in 1..i : j \in 1..Len(b)
      BY <1>2, <2>3
    <3>2. \A j \in 1..i : buffers'[t][j] = b[j]
      BY <1>1, <1>2, <3>1
    <3>3. CASE \A j \in 1..i : strideOf[b[j]] = 0
      BY <1>1, <3>2, <3>3 DEF StrideFits
    <3>4. CASE stride[t] # 0
      <4>1. stride[t] = s
        BY <2>1, <3>4
      <4>2. buffers'[t][i] = b[i]
        BY <3>2, <3>1
      <4> QED BY <1>1, <1>3, <2>1, <3>1, <3>3, <4>1, <4>2 DEF StrideFits
    <3>5. CASE stride[t] = 0
      <4>1. ASSUME NEW j \in 1..i PROVE strideOf[b[j]] = 0
        <5>1. StrideFits(t, j) /\ j \in 1..j
          BY <1>3, <3>1
        <5> QED BY <3>5, <5>1 DEF StrideFits
      <4> QED BY <3>3, <4>1
    <3> QED BY <3>4, <3>5
  <2> QED BY <2>2, <2>3
<1> QED BY <1>1, <1>2, <1>4, <1>5 DEF StridesCollected

\* The release of a buffer of a call that collects no more leaves those of the others.
LEMMA StridesReleased ==
  ASSUME CallsInv, NEW t \in Thread, NEW h \in Held(t), h \in Handle, Release(h),
         ~Collecting(t)',
         \A u \in Thread \ {t} :
           /\ pc'[u] = pc[u] /\ error'[u] = error[u]
           /\ stride'[u] = stride[u] /\ buffers'[u] = buffers[u]
  PROVE  StridesCollected'
<1>1. \A g \in Handle \ {h} : strideOf'[g] = strideOf[g]
  BY DEF Release, CallsInv, CallsTypeOK
<1>2. ASSUME NEW u \in Thread, Collecting(u)'
      PROVE  \A i \in 1..Len(buffers'[u]) : StrideFits(u, i)'
  <2>1. u # t /\ Collecting(u)
    BY <1>2 DEF Collecting
  <2>2. \A i \in 1..Len(buffers[u]) : strideOf'[buffers[u][i]] = strideOf[buffers[u][i]]
    <3> SUFFICES ASSUME NEW i \in 1..Len(buffers[u])
                 PROVE  strideOf'[buffers[u][i]] = strideOf[buffers[u][i]]
      OBVIOUS
    <3>1. buffers[u][i] \in Handle /\ buffers[u][i] # h
      BY <2>1, CollectedHeld
    <3> QED BY <1>1, <3>1
  <2>3. Len(buffers[u]) \in Nat
    BY DEF CallsInv, CallsTypeOK
  <2> QED BY <2>1, <2>2, <2>3, FitsFrame DEF CallsInv, StridesCollected
<1> QED BY <1>2 DEF StridesCollected

-----------------------------------------------------------------------------
(***************************************************************************)
(* The steps                                                               *)
(***************************************************************************)

\* allocate is called with a descriptor that can be decoded or not.
LEMMA AskInv ==
  ASSUME CallsInv, NEW t \in Thread, NEW n \in 0..MaxCount,
         NEW stage \in {"create", "allocate"}, Ask(t, n, stage)
  PROVE  CallsInv'
<1> USE DEF CallsInv, Ask, Goto, Unwind
<1>1. CallsTypeOK'
  <2>1. Len(buffers[t]) = 0
    <3>1. buffers[t] = <<>>
      BY DEF Staged
    <3> QED BY <3>1
  <2>2. \A u \in Thread : Len(buffers'[u]) <= count'[u]
    BY <2>1, CallsAssumption DEF CallsTypeOK
  <2>3. error' \in [Thread -> Error]
    BY DEF CallsTypeOK, Error
  <2> QED BY <2>2, <2>3 DEF CallsTypeOK, Stage, bufferVars
<1>2. Staged'
  BY DEF CallsTypeOK, Staged
<1>3. HandlesOwned' /\ NoBufferLeak'
  BY OwnershipKept
<1>4. StridesCollected'
  <2>1. buffers[t] = <<>>
    BY DEF Staged
  <2>2. \A u \in Thread \ {t} : pc'[u] = pc[u] /\ error'[u] = error[u] /\ stride'[u] = stride[u]
    BY DEF CallsTypeOK
  <2> QED BY <2>1, <2>2, StridesKept
<1> QED BY <1>1, <1>2, <1>3, <1>4

(***************************************************************************)
(* A call goes on to a stage, or breaks off with an error, without         *)
(* touching buffers: createDescriptor, and a device that makes no buffer.  *)
(***************************************************************************)
LEMMA MoveInv ==
  ASSUME CallsInv, NEW t \in Thread,
         UNCHANGED <<count, tmpBuffer, buffers, stride, bufferVars>>,
         \/ /\ pc[t] \in {"create", "set"} /\ UNCHANGED error
            /\ \E stage \in {"set", "allocate"} : Goto(t, stage)
         \/ /\ pc[t] \in {"create", "set"}
            /\ \E e \in Error : Unwind(t, e)
         \/ /\ pc[t] = "allocate"
            /\ \E e \in Error \ {"NONE"} : Break(t, e)
  PROVE  CallsInv'
<1> USE DEF CallsInv, Goto, Unwind, Break
<1>1. CallsTypeOK'
  BY DEF CallsTypeOK, Stage, bufferVars
<1>2. Staged'
  BY DEF CallsTypeOK, Staged
<1>3. HandlesOwned' /\ NoBufferLeak'
  BY OwnershipKept
<1>4. StridesCollected'
  <2>1. Collecting(t)' => buffers[t] = <<>>
    BY DEF CallsTypeOK, Staged, Collecting
  <2>2. \A u \in Thread \ {t} : pc'[u] = pc[u] /\ error'[u] = error[u] /\ stride'[u] = stride[u]
    BY DEF CallsTypeOK
  <2> QED BY <2>1, <2>2, StridesKept
<1> QED BY <1>1, <1>2, <1>3, <1>4

\* The device has made a buffer for the call: it holds one more handle.
LEMMA NewBufferInv ==
  ASSUME CallsInv, NEW t \in Thread, NEW h \in Handle, NEW s \in Stride \cup {0},
         pc[t] = "allocate", MoreToAllocate(t), NewBuffer(t, h, s)
  PROVE  CallsInv'
<1> USE DEF CallsInv, NewBuffer, Goto, MoreToAllocate
<1>1. CallsTypeOK'
  BY DEF CallsTypeOK, Stage
<1>2. Staged'
  BY CallsAssumption DEF CallsTypeOK, Staged
<1>3. Held(t)' = Held(t) \cup {h}
  BY CallsAssumption DEF Held, CallsTypeOK, Staged
<1>4. \A u \in Thread \ {t} : Held(u)' = Held(u)
  BY HeldFrame DEF CallsTypeOK
<1>5. \A u \in Thread : h \notin Held(u)
  BY DEF HandlesOwned
<1>6. HandlesOwned'
  <2>1. \A u \in Thread : Held(u)' \subseteq live' \ leaked'
    <3>1. h \notin leaked
      BY DEF CallsTypeOK
    <3>2. \A u \in Thread : Held(u) \subseteq live \ leaked
      BY DEF HandlesOwned
    <3> QED BY <1>3, <1>4, <3>1, <3>2
  <2>2. \A u \in Thread : \A i \in 1..Len(buffers[u]) : buffers[u][i] # h
    BY <1>5 DEF Held
  <2>3. \A u \in Thread : \A i \in 1..Len(buffers'[u]) : buffers'[u][i] # tmpBuffer'[u]
    BY <2>2 DEF HandlesOwned, CallsTypeOK
  <2>4. \A u \in Thread : \A v \in Thread \ {u} : Held(u)' \cap Held(v)' = {}
    BY <1>3, <1>4, <1>5 DEF HandlesOwned
  <2> QED BY <2>1, <2>3, <2>4 DEF HandlesOwned
<1>7. NoBufferLeak'
  BY <1>3, <1>4 DEF NoBufferLeak
<1>8. StridesCollected'
  BY StridesNew
<1> QED BY <1>1, <1>2, <1>6, <1>7, <1>8

\* push_back moves a handle from tmpBuffer to the vector; the call holds the
\* same handles.
LEMMA PushBufferInv ==
  ASSUME CallsInv, NEW t \in Thread, pc[t] = "push",
         PushBuffer(t, strideOf[tmpBuffer[t]]), UNCHANGED <<count, bufferVars>>
  PROVE  CallsInv'
<1> USE DEF CallsInv, PushBuffer, Goto, Break, bufferVars
<1> DEFINE b == buffers[t]
           h == tmpBuffer[t]
<1>1. /\ b \in Seq(Handle) /\ h \in Handle /\ h # None
      /\ buffers' = [buffers EXCEPT ![t] = Append(b, h)]
      /\ buffers'[t] = Append(b, h) /\ tmpBuffer'[t] = None
  BY DEF CallsTypeOK, Staged
<1>2. /\ Append(b, h) \in Seq(Handle) /\ Len(Append(b, h)) = Len(b) + 1
      /\ \A i \in 1..Len(b) : Append(b, h)[i] = b[i]
      /\ Append(b, h)[Len(b) + 1] = h
  BY <1>1
<1>3. CallsTypeOK'
  <2>1. buffers' \in [Thread -> Seq(Handle)] /\ tmpBuffer' \in [Thread -> Handle \cup {None}]
    BY <1>1, <1>2 DEF CallsTypeOK
  <2>2. \A u \in Thread : Len(buffers'[u]) <= count'[u]
    <3>1. Len(b) < count[t] /\ Len(b) \in Nat /\ count[t] \in Nat
      BY <1>1, CallsAssumption DEF CallsTypeOK, Staged
    <3> QED BY <1>1, <1>2, <3>1 DEF CallsTypeOK
  <2>3. stride' \in [Thread -> Stride \cup {0}]
    <3>1. strideOf[h] \in Stride \cup {0}
      BY <1>1 DEF CallsTypeOK
    <3> QED BY <3>1 DEF CallsTypeOK
  <2>4. pc' \in [Thread -> Stage] /\ error' \in [Thread -> Error]
    BY DEF CallsTypeOK, Stage, Error
  <2> QED BY <2>1, <2>2, <2>3, <2>4 DEF CallsTypeOK
<1>4. Staged'
  BY <1>1, <1>2 DEF CallsTypeOK, Staged
<1>5. \A u \in Thread : Held(u)' = Held(u)
  <2>1. \A u \in Thread \ {t} : Held(u)' = Held(u)
    BY HeldFrame DEF CallsTypeOK
  <2>2. Held(t)' = Held(t)
    BY <1>1, <1>2 DEF Held
  <2> QED BY <2>1, <2>2
<1>6. HandlesOwned'
  <2>1. ASSUME NEW i \in 1..Len(b) + 1, NEW j \in 1..Len(b) + 1,
               Append(b, h)[i] = Append(b, h)[j]
        PROVE  i = j
    BY <1>1, <1>2, <2>1 DEF HandlesOwned
  <2>2. \A i \in 1..Len(b) + 1 : Append(b, h)[i] # None
    BY <1>2, CallsAssumption
  <2>3. \A u \in Thread : \A i, j \in 1..Len(buffers'[u]) :
          buffers'[u][i] = buffers'[u][j] => i = j
    BY <1>1, <1>2, <2>1 DEF HandlesOwned, CallsTypeOK
  <2>4. \A u \in Thread : \A i \in 1..Len(buffers'[u]) : buffers'[u][i] # tmpBuffer'[u]
    BY <1>1, <1>2, <2>2 DEF HandlesOwned, CallsTypeOK
  <2> QED BY <1>5, <2>3, <2>4 DEF HandlesOwned
<1>7. NoBufferLeak'
  BY <1>5 DEF NoBufferLeak
<1>8. StridesCollected'
  BY StridesPush
<1> QED BY <1>3, <1>4, <1>6, <1>7, <1>8

\* getStride fails after the buffer was made: it is released and not kept.
LEMMA DropBufferInv ==
  ASSUME CallsInv, NEW t \in Thread, pc[t] = "push", Release(tmpBuffer[t]),
         tmpBuffer' = [tmpBuffer EXCEPT ![t] = None],
         NEW e \in Error \ {"NONE"}, Break(t, e), UNCHANGED <<count, buffers, stride>>
  PROVE  CallsInv'
<1> USE DEF CallsInv, Goto, Break
<1> DEFINE h == tmpBuffer[t]
<1>1. h \in Handle /\ h # None /\ h \in Held(t)
  BY DEF CallsTypeOK, Staged, Held
<1>2. CallsTypeOK'
  BY <1>1 DEF CallsTypeOK, Stage, Release, HandlesOwned
<1>3. Staged'
  BY DEF CallsTypeOK, Staged
<1>4. Held(t)' = Held(t) \ {h}
  BY <1>1 DEF Held, HandlesOwned, CallsTypeOK
<1>5. \A u \in Thread \ {t} : Held(u)' = Held(u)
  BY HeldFrame DEF CallsTypeOK
<1>6. /\ \A u \in Thread : Held(u)' \subseteq live' \ leaked'
      /\ \A u \in Thread, v \in Thread : u # v => Held(u)' \cap Held(v)' = {}
      /\ NoBufferLeak'
  BY <1>1, <1>4, <1>5, ReleaseOwnership
<1>7. \A u \in Thread : \A i \in 1..Len(buffers[u]) : buffers[u][i] # tmpBuffer'[u]
  BY CallsAssumption DEF CallsTypeOK, HandlesOwned
<1>8. HandlesOwned'
  BY <1>6, <1>7 DEF HandlesOwned
<1>9. StridesCollected'
  <2>1. ~Collecting(t)'
    BY DEF CallsTypeOK, Collecting
  <2>2. \A u \in Thread \ {t} : pc'[u] = pc[u] /\ error'[u] = error[u]
    BY DEF CallsTypeOK
  <2> QED BY <1>1, <2>1, <2>2, StridesReleased
<1> QED BY <1>2, <1>3, <1>6, <1>8, <1>9

\* The loop is over, with all the buffers.
LEMMA LoopEndInv ==
  ASSUME CallsInv, NEW t \in Thread, LoopEnd(t)
  PROVE  CallsInv'
<1> USE DEF CallsInv, LoopEnd, Goto, MoreToAllocate, callVars
<1>1. CallsTypeOK'
  BY DEF CallsTypeOK, Stage, bufferVars
<1>2. Staged'
  BY CallsAssumption DEF CallsTypeOK, Staged
<1>3. HandlesOwned' /\ NoBufferLeak'
  BY OwnershipKept
<1>4. StridesCollected'
  <2>1. Collecting(t)' => Collecting(t)
    BY DEF CallsTypeOK, Staged, Collecting
  <2>2. \A u \in Thread \ {t} : pc'[u] = pc[u]
    BY DEF CallsTypeOK
  <2> QED BY <2>1, <2>2, StridesKept
<1> QED BY <1>1, <1>2, <1>3, <1>4

\* The error of the loop decides between the reply and freeBuffers.
LEMMA AfterLoopInv ==
  ASSUME CallsInv, NEW t \in Thread, AfterLoop(t)
  PROVE  CallsInv'
<1> USE DEF CallsInv, AfterLoop, Goto, callVars
<1>1. CallsTypeOK'
  BY DEF CallsTypeOK, Stage, bufferVars
<1>2. Staged'
  BY DEF CallsTypeOK, Staged
<1>3. HandlesOwned' /\ NoBufferLeak'
  BY OwnershipKept
<1>4. StridesCollected'
  <2>1. Collecting(t)' => Collecting(t)
    BY DEF CallsTypeOK, Collecting
  <2>2. \A u \in Thread \ {t} : pc'[u] = pc[u]
    BY DEF CallsTypeOK
  <2> QED BY <2>1, <2>2, StridesKept
<1> QED BY <1>1, <1>2, <1>3, <1>4

\* hidl_cb(NONE, ...) is called; the local handles are still there.
LEMMA SendReplyInv ==
  ASSUME CallsInv, NEW t \in Thread, SendReply(t)
  PROVE  CallsInv'
<1> USE DEF CallsInv, SendReply, Goto, callVars
<1>1. CallsTypeOK'
  BY DEF CallsTypeOK, Stage, bufferVars
<1>2. Staged'
  BY DEF CallsTypeOK, Staged
<1>3. HandlesOwned' /\ NoBufferLeak'
  BY OwnershipKept
<1>4. StridesCollected'
  <2>1. Collecting(t)' => Collecting(t)
    BY DEF CallsTypeOK, Collecting
  <2>2. \A u \in Thread \ {t} : pc'[u] = pc[u]
    BY DEF CallsTypeOK
  <2> QED BY <2>1, <2>2, StridesKept
<1> QED BY <1>1, <1>2, <1>3, <1>4

\* freeBuffers gives back the handle at the front of the vector.
LEMMA FreeOneInv ==
  ASSUME CallsInv, NEW t \in Thread, FreeOne(t)
  PROVE  CallsInv'
<1> USE DEF CallsInv, FreeOne
<1> DEFINE b == buffers[t]
<1>1. /\ b \in Seq(Handle) /\ b # <<>> /\ tmpBuffer[t] = None
      /\ buffers' = [buffers EXCEPT ![t] = Tail(b)] /\ buffers'[t] = Tail(b)
  BY DEF CallsTypeOK, Staged
<1>2. /\ Tail(b) \in Seq(Handle) /\ Len(Tail(b)) = Len(b) - 1
      /\ \A i \in 1..Len(b) - 1 : Tail(b)[i] = b[i + 1]
      /\ Head(b) = b[1] /\ Len(b) \in Nat \ {0} /\ b[1] \in Handle
  BY <1>1
<1>3. CallsTypeOK'
  <2>1. buffers' \in [Thread -> Seq(Handle)]
    BY <1>1, <1>2 DEF CallsTypeOK
  <2>2. \A u \in Thread : Len(buffers'[u]) <= count'[u]
    BY <1>1, <1>2, CallsAssumption DEF CallsTypeOK
  <2>3. b[1] \in Held(t)
    BY <1>2 DEF Held
  <2>4. Release(b[1]) /\ b[1] \in live /\ b[1] \notin leaked
    BY <1>2, <2>3 DEF HandlesOwned
  <2>5. live' \subseteq Handle /\ strideOf' \in [Handle -> Stride \cup {0}] /\ leaked' \subseteq live'
    <3> DEFINE h == b[1]
    <3>1. Release(h) /\ h \in live /\ h \notin leaked
      BY <2>4
    <3>2. live \subseteq Handle /\ strideOf \in [Handle -> Stride \cup {0}] /\ leaked \subseteq live
      BY DEF CallsTypeOK
    <3> HIDE DEF h
    <3> QED BY <3>1, <3>2 DEF Release
  <2> QED BY <2>1, <2>2, <2>5 DEF CallsTypeOK
<1>4. Staged'
  BY <1>1, <1>2 DEF CallsTypeOK, Staged
<1>5. Held(t)' = Held(t) \ {b[1]} /\ b[1] \in Held(t)
  <2>1. \A i \in 2..Len(b) : b[i] # b[1]
    BY <1>1, <1>2 DEF HandlesOwned
  <2>2. Held(t) = {b[i] : i \in 1..Len(b)}
    BY <1>1 DEF Held
  <2>3. Held(t)' = {Tail(b)[i] : i \in 1..Len(b) - 1}
    <3>1. buffers'[t] = Tail(b) /\ tmpBuffer'[t] = None /\ Len(Tail(b)) = Len(b) - 1
      BY <1>1, <1>2
    <3>2. Held(t)' = {Tail(b)[i] : i \in 1..Len(Tail(b))} \cup ({None} \ {None})
      BY <3>1, Zenon DEF Held
    <3> QED BY <3>1, <3>2
  <2>4. \A i \in 2..Len(b) : i - 1 \in 1..Len(b) - 1 /\ Tail(b)[i - 1] = b[i]
    BY <1>2
  <2>5. \A i \in 1..Len(b) - 1 : i + 1 \in 2..Len(b) /\ Tail(b)[i] = b[i + 1]
    BY <1>2
  <2>6. ASSUME NEW x
        PROVE  x \in Held(t)' <=> x \in Held(t) /\ x # b[1]
    <3>1. x \in Held(t) <=> \E i \in 1..Len(b) : x = b[i]
      BY <2>2
    <3>2. x \in Held(t)' <=> \E i \in 1..Len(b) - 1 : x = Tail(b)[i]
      BY <2>3
    <3>3. ASSUME NEW i \in 1..Len(b) - 1, x = Tail(b)[i]
          PROVE  x \in Held(t) /\ x # b[1]
      <4>1. i + 1 \in 1..Len(b)
        BY <1>2
      <4> QED BY <2>1, <2>5, <3>1, <3>3, <4>1
    <3>4. ASSUME NEW i \in 1..Len(b), x = b[i], x # b[1]
          PROVE  x \in Held(t)'
      <4>1. i \in 2..Len(b)
        BY <1>2, <3>4
      <4> QED BY <2>4, <3>2, <3>4, <4>1
    <3> QED BY <3>1, <3>2, <3>3, <3>4
  <2>7. 1 \in 1..Len(b)
    BY <1>2
  <2> QED BY <2>2, <2>6, <2>7
<1>6. \A u \in Thread \ {t} : Held(u)' = Held(u)
  BY HeldFrame DEF CallsTypeOK
<1>7. /\ \A u \in Thread : Held(u)' \subseteq live' \ leaked'
      /\ \A u \in Thread, v \in Thread : u # v => Held(u)' \cap Held(v)' = {}
      /\ NoBufferLeak'
  BY <1>2, <1>5, <1>6, ReleaseOwnership
<1>8. HandlesOwned'
  <2>1. \A i, j \in 1..Len(b) - 1 : Tail(b)[i] = Tail(b)[j] => i = j
    BY <1>2 DEF HandlesOwned
  <2>2. \A i \in 1..Len(b) - 1 : Tail(b)[i] # None
    BY <1>2, CallsAssumption
  <2>3. \A u \in Thread : \A i, j \in 1..Len(buffers'[u]) :
          buffers'[u][i] = buffers'[u][j] => i = j
    BY <1>1, <1>2, <2>1 DEF HandlesOwned, CallsTypeOK
  <2>4. \A u \in Thread : \A i \in 1..Len(buffers'[u]) : buffers'[u][i] # tmpBuffer'[u]
    BY <1>1, <1>2, <2>2 DEF HandlesOwned, CallsTypeOK
  <2> QED BY <1>7, <2>3, <2>4 DEF HandlesOwned
<1>9. StridesCollected'
  <2>1. ~Collecting(t)'
    BY DEF Collecting
  <2>2. \A u \in Thread \ {t} : buffers'[u] = buffers[u]
    BY <1>1 DEF CallsTypeOK
  <2> QED BY <1>2, <1>5, <2>1, <2>2, StridesReleased
<1> QED BY <1>3, <1>4, <1>7, <1>8, <1>9

\* allocate returns.
LEMMA ReturnInv ==
  ASSUME CallsInv, NEW t \in Thread, Return(t)
  PROVE  CallsInv'
<1> USE DEF CallsInv, Return, Goto
<1>1. CallsTypeOK'
  <2>1. Len(buffers[t]) = 0
    <3>1. buffers[t] = <<>>
      OBVIOUS
    <3> QED BY <3>1
  <2>2. \A u \in Thread : Len(buffers'[u]) <= count'[u]
    BY <2>1 DEF CallsTypeOK
  <2>3. count' \in [Thread -> 0..MaxCount] /\ stride' \in [Thread -> Stride \cup {0}]
    BY CallsAssumption DEF CallsTypeOK
  <2>4. pc' \in [Thread -> Stage] /\ error' \in [Thread -> Error]
    BY DEF CallsTypeOK, Stage, Error
  <2> QED BY <2>2, <2>3, <2>4 DEF CallsTypeOK, bufferVars
<1>2. Staged'
  BY DEF CallsTypeOK, Staged
<1>3. HandlesOwned' /\ NoBufferLeak'
  BY OwnershipKept
<1>4. StridesCollected'
  <2>1. \A u \in Thread \ {t} : pc'[u] = pc[u] /\ error'[u] = error[u] /\ stride'[u] = stride[u]
    BY DEF CallsTypeOK
  <2> QED BY <2>1, StridesKept
<1> QED BY <1>1, <1>2, <1>3, <1>4

\* A step that leaves the calls and the buffers alone.
LEMMA StutterInv ==
  ASSUME CallsInv, UNCHANGED <<pc, callVars, bufferVars>>
  PROVE  CallsInv'
<1> USE DEF CallsInv, callVars
<1>1. CallsTypeOK' /\ Staged'
  BY DEF CallsTypeOK, Staged, bufferVars
<1>2. HandlesOwned' /\ NoBufferLeak'
  BY OwnershipKept
<1>3. StridesCollected'
  BY DEF StridesCollected, Collecting, StrideFits, bufferVars
<1> QED BY <1>1, <1>2, <1>3
-----------------------------------------------------------------------------
(***************************************************************************)
(* The steps implement AllocatorSpec.  phase and held of the promise are   *)
(* functions of the stage and of the locals.                               *)
(***************************************************************************)

\* The phase a stage stands for.
PhaseOf(stage) ==
  CASE stage = "idle" -> "idle"
    [] stage = "free" -> "granted"
    [] OTHER -> "busy"

\* phase and held of the refinement mapping of Promise.
Phase == [t \in Thread |-> PhaseOf(pc[t])]
HeldOf(t) == Len(buffers[t]) + IF tmpBuffer[t] = None THEN 0 ELSE 1
HeldCount == [t \in Thread |-> HeldOf(t)]

\* A change of one stage is a change of one phase.
LEMMA PhaseStep ==
  ASSUME CallsTypeOK, NEW t \in Thread, NEW stage, Goto(t, stage)
  PROVE  Phase' = [Phase EXCEPT ![t] = PhaseOf(stage)]
<1>1. \A u \in Thread : pc'[u] = IF u = t THEN stage ELSE pc[u]
  BY DEF CallsTypeOK, Goto
<1>2. \A u \in Thread : PhaseOf(pc'[u]) = IF u = t THEN PhaseOf(stage) ELSE PhaseOf(pc[u])
  BY <1>1
<1> QED BY <1>2 DEF Phase

\* A change of one call's handles is a change of one count.
LEMMA HeldStep ==
  ASSUME NEW t \in Thread, NEW n, HeldOf(t)' = n,
         \A u \in Thread \ {t} : buffers'[u] = buffers[u] /\ tmpBuffer'[u] = tmpBuffer[u]
  PROVE  HeldCount' = [HeldCount EXCEPT ![t] = n]
<1>1. \A u \in Thread : HeldOf(u)' = IF u = t THEN n ELSE HeldOf(u)
  BY DEF HeldOf
<1> QED BY <1>1 DEF HeldCount

\* The count of a call that changes no handle is kept.
LEMMA HeldKept ==
  ASSUME UNCHANGED <<buffers, tmpBuffer>>
  PROVE  HeldCount' = HeldCount
BY DEF HeldCount, HeldOf

\* Equal phases, counts and numbers of handles are a stuttering step.
LEMMA PromiseStutter ==
  ASSUME Phase' = Phase, count' = count, HeldCount' = HeldCount
  PROVE  UNCHANGED Promise!vars
BY DEF Promise!vars, Phase, PhaseOf, HeldCount, HeldOf

\* A call in progress changes the number of its handles, within its count.
LEMMA PromiseWork ==
  ASSUME NEW t \in Thread, Phase[t] = "busy", NEW n \in 0..count[t],
         HeldCount' = [HeldCount EXCEPT ![t] = n], Phase' = Phase, count' = count
  PROVE  Promise!Next
<1>1. Promise!Work(t)
  BY DEF Promise!Work, Phase, PhaseOf, HeldCount, HeldOf
<1> QED BY <1>1 DEF Promise!Next

\* allocate begins.
LEMMA AskRefines ==
  ASSUME CallsInv, NEW t \in Thread, NEW n \in 0..MaxCount,
         NEW stage \in {"create", "allocate"}, Ask(t, n, stage)
  PROVE  Promise!Next
<1>1. Phase[t] = "idle" /\ HeldCount' = HeldCount /\ count' = [count EXCEPT ![t] = n]
  BY HeldKept DEF Ask, Phase, PhaseOf
<1>2. Phase' = [Phase EXCEPT ![t] = "busy"]
  <2>1. PICK to \in {"create", "allocate", "unwind"} : Goto(t, to)
    BY DEF Ask, Unwind
  <2>2. PhaseOf(to) = "busy"
    BY DEF PhaseOf
  <2> QED BY <2>1, <2>2, PhaseStep DEF CallsInv
<1>3. Promise!Ask(t, n)
  BY <1>1, <1>2 DEF Promise!Ask, Phase, PhaseOf, HeldCount, HeldOf
<1> QED BY <1>3 DEF Promise!Next

\* A change between two stages of a call in progress is not visible.
LEMMA MoveRefines ==
  ASSUME CallsInv, NEW t \in Thread, UNCHANGED <<count, tmpBuffer, buffers>>,
         PhaseOf(pc[t]) = "busy", NEW stage, PhaseOf(stage) = "busy", Goto(t, stage)
  PROVE  UNCHANGED Promise!vars
<1>1. Phase' = [Phase EXCEPT ![t] = "busy"] /\ Phase[t] = "busy"
  BY PhaseStep DEF CallsInv, Phase
<1>2. Phase' = Phase
  BY <1>1 DEF Phase
<1> QED BY <1>2, HeldKept, PromiseStutter

\* A new buffer is work.
LEMMA NewBufferRefines ==
  ASSUME CallsInv, NEW t \in Thread, NEW h \in Handle, NEW s,
         pc[t] = "allocate", MoreToAllocate(t), NewBuffer(t, h, s)
  PROVE  Promise!Next
<1> USE DEF CallsInv, NewBuffer
<1>1. Phase' = [Phase EXCEPT ![t] = "busy"] /\ Phase[t] = "busy"
  BY PhaseStep DEF Phase, PhaseOf
<1>2. Phase' = Phase
  BY <1>1 DEF Phase
<1>3. Len(buffers[t]) + 1 \in 0..count[t]
  BY CallsAssumption DEF MoreToAllocate, CallsTypeOK
<1>4. HeldOf(t)' = Len(buffers[t]) + 1
  BY CallsAssumption DEF HeldOf, CallsTypeOK
<1>5. HeldCount' = [HeldCount EXCEPT ![t] = Len(buffers[t]) + 1]
  BY <1>4, HeldStep DEF CallsTypeOK
<1> QED BY <1>1, <1>2, <1>3, <1>5, PromiseWork

\* push_back keeps the number of handles.
LEMMA PushBufferRefines ==
  ASSUME CallsInv, NEW t \in Thread, NEW s, pc[t] = "push", PushBuffer(t, s), UNCHANGED count
  PROVE  UNCHANGED Promise!vars
<1> USE DEF CallsInv, PushBuffer
<1>1. Phase' = [Phase EXCEPT ![t] = "busy"] /\ Phase[t] = "busy"
  <2>1. PICK to \in {"after", "allocate"} : Goto(t, to)
    BY DEF Break
  <2>2. PhaseOf(to) = "busy" /\ PhaseOf(pc[t]) = "busy"
    BY DEF PhaseOf
  <2> QED BY <2>1, <2>2, PhaseStep DEF Phase
<1>2. Phase' = Phase
  BY <1>1 DEF Phase
<1>3. /\ buffers[t] \in Seq(Handle) /\ tmpBuffer[t] \in Handle /\ tmpBuffer[t] # None
      /\ buffers'[t] = Append(buffers[t], tmpBuffer[t]) /\ tmpBuffer'[t] = None
  BY DEF CallsTypeOK, Staged
<1>4. HeldOf(t)' = Len(buffers[t]) + 1 /\ HeldOf(t) = Len(buffers[t]) + 1
  <2>1. Len(Append(buffers[t], tmpBuffer[t])) = Len(buffers[t]) + 1
    BY <1>3
  <2> QED BY <1>3, <2>1 DEF HeldOf
<1>5. HeldCount' = [HeldCount EXCEPT ![t] = HeldOf(t)]
  BY <1>4, HeldStep DEF CallsTypeOK
<1>6. HeldCount' = HeldCount
  BY <1>5 DEF HeldCount
<1> QED BY <1>2, <1>6, PromiseStutter

\* A buffer that getStride rejected is given back: work.
LEMMA DropBufferRefines ==
  ASSUME CallsInv, NEW t \in Thread, pc[t] = "push",
         tmpBuffer' = [tmpBuffer EXCEPT ![t] = None],
         NEW e, Break(t, e), UNCHANGED <<count, buffers>>
  PROVE  Promise!Next
<1> USE DEF CallsInv
<1>1. Phase' = [Phase EXCEPT ![t] = "busy"] /\ Phase[t] = "busy"
  BY PhaseStep DEF Break, Phase, PhaseOf
<1>2. Phase' = Phase
  BY <1>1 DEF Phase
<1>3. Len(buffers[t]) \in 0..count[t]
  BY CallsAssumption DEF CallsTypeOK
<1>4. HeldOf(t)' = Len(buffers[t])
  BY DEF HeldOf, CallsTypeOK
<1>5. HeldCount' = [HeldCount EXCEPT ![t] = Len(buffers[t])]
  BY <1>4, HeldStep DEF CallsTypeOK
<1> QED BY <1>1, <1>2, <1>3, <1>5, PromiseWork

\* The reply is the grant: all the buffers are there.
LEMMA SendReplyRefines ==
  ASSUME CallsInv, NEW t \in Thread, SendReply(t)
  PROVE  Promise!Next
<1> USE DEF CallsInv, SendReply, callVars
<1>1. Phase' = [Phase EXCEPT ![t] = "granted"] /\ Phase[t] = "busy"
  BY PhaseStep DEF Phase, PhaseOf
<1>2. HeldCount[t] = count[t]
  BY CallsAssumption DEF HeldCount, HeldOf, Staged, CallsTypeOK
<1>3. HeldCount' = HeldCount
  BY HeldKept
<1>4. Promise!Grant(t)
  BY <1>1, <1>2, <1>3 DEF Promise!Grant, Phase, PhaseOf, HeldCount, HeldOf
<1> QED BY <1>4 DEF Promise!Next

\* freeBuffers is work before an error is answered and a drop after a grant.
LEMMA FreeOneRefines ==
  ASSUME CallsInv, NEW t \in Thread, FreeOne(t)
  PROVE  Promise!Next
<1> USE DEF CallsInv, FreeOne
<1> DEFINE b == buffers[t]
<1>1. /\ b \in Seq(Handle) /\ b # <<>> /\ tmpBuffer[t] = None /\ tmpBuffer'[t] = None
      /\ buffers'[t] = Tail(b) /\ Len(b) <= count[t] /\ count[t] \in Nat
  BY CallsAssumption DEF CallsTypeOK, Staged
<1>2. Len(Tail(b)) = Len(b) - 1 /\ Len(b) \in Nat \ {0}
  BY <1>1
<1>3. HeldOf(t)' = Len(b) - 1 /\ HeldOf(t) = Len(b)
  <2>1. HeldOf(t) = Len(b) + 0
    BY <1>1, Zenon DEF HeldOf
  <2>2. HeldOf(t)' = Len(Tail(b)) + 0
    BY <1>1, Zenon DEF HeldOf
  <2> QED BY <1>2, <2>1, <2>2
<1>4. HeldCount' = [HeldCount EXCEPT ![t] = Len(b) - 1]
  BY <1>3, HeldStep DEF CallsTypeOK
<1>5. Phase' = Phase
  BY DEF Phase
<1>6. CASE pc[t] = "unwind"
  <2>1. Phase[t] = "busy" /\ Len(b) - 1 \in 0..count[t]
    BY <1>1, <1>2, <1>6 DEF Phase, PhaseOf
  <2> QED BY <1>4, <1>5, <2>1, PromiseWork
<1>7. CASE pc[t] = "free"
  <2>1. Phase[t] = "granted" /\ HeldCount[t] = Len(b) /\ HeldCount[t] > 0
    BY <1>2, <1>3, <1>7 DEF Phase, PhaseOf, HeldCount
  <2>2. HeldCount' = [HeldCount EXCEPT ![t] = @ - 1]
    BY <1>4, <2>1
  <2>3. Promise!Drop(t)
    BY <1>5, <2>1, <2>2 DEF Promise!Drop, Phase, PhaseOf, HeldCount, HeldOf
  <2> QED BY <2>3 DEF Promise!Next
<1> QED BY <1>6, <1>7

\* The return ends a refused call or a granted one; nothing is held.
LEMMA ReturnRefines ==
  ASSUME CallsInv, NEW t \in Thread, Return(t)
  PROVE  Promise!Next
<1> USE DEF CallsInv, Return
<1>1. Phase' = [Phase EXCEPT ![t] = "idle"]
  BY PhaseStep DEF PhaseOf
<1>2. HeldCount[t] = 0
  <2>1. buffers[t] = <<>> /\ tmpBuffer[t] = None
    BY DEF Staged, CallsTypeOK
  <2>2. Len(buffers[t]) = 0
    BY <2>1
  <2>3. HeldOf(t) = 0 + 0
    BY <2>1, <2>2, Zenon DEF HeldOf
  <2> QED BY <2>3 DEF HeldCount
<1>3. HeldCount' = HeldCount
  BY HeldKept
<1>4. CASE pc[t] = "unwind"
  <2>1. Phase[t] = "busy"
    BY <1>4 DEF Phase, PhaseOf
  <2>2. Promise!Refuse(t)
    BY <1>1, <1>2, <1>3, <2>1 DEF Promise!Refuse, Phase, PhaseOf, HeldCount, HeldOf
  <2> QED BY <2>2 DEF Promise!Next
<1>5. CASE pc[t] = "free"
  <2>1. Phase[t] = "granted"
    BY <1>5 DEF Phase, PhaseOf
  <2>2. Promise!Finish(t)
    BY <1>1, <1>2, <1>3, <2>1 DEF Promise!Finish, Phase, PhaseOf, HeldCount, HeldOf
  <2> QED BY <2>2 DEF Promise!Next
<1> QED BY <1>4, <1>5

\* No call is running and nothing is held at first.
LEMMA CallsInitRefines == CallsInit => Promise!Init
<1> SUFFICES ASSUME CallsInit PROVE Promise!Init
  OBVIOUS
<1>1. Len(<<>>) = 0
  OBVIOUS
<1>2. \A t \in Thread : PhaseOf(pc[t]) = "idle" /\ HeldOf(t) = 0
  <2> TAKE t \in Thread
  <2>1. pc[t] = "idle" /\ buffers[t] = <<>> /\ tmpBuffer[t] = None
    BY Zenon DEF CallsInit
  <2>2. HeldOf(t) = 0 + 0
    BY <1>1, <2>1, Zenon DEF HeldOf
  <2>3. PhaseOf(pc[t]) = "idle"
    BY <2>1 DEF PhaseOf
  <2> QED BY <2>2, <2>3
<1>3. Phase = [t \in Thread |-> "idle"] /\ HeldCount = [t \in Thread |-> 0]
  BY <1>2 DEF Phase, HeldCount
<1> QED BY <1>3 DEF CallsInit, Promise!Init, Phase, PhaseOf, HeldCount, HeldOf
==============================================================================
