-------------------------- MODULE Gralloc1HalProofs --------------------------
(***************************************************************************)
(* The gralloc1 back end, for any number of threads, handles, descriptors  *)
(* and buffers per call: the ownership of buffers and of descriptors, the  *)
(* strides of a reply, and that it keeps the promise of                    *)
(* IAllocator::allocate.  With it, the usage conversions.                  *)
(***************************************************************************)
EXTENDS Gralloc1Hal, GrallocUsage, AllocatorCallsProofs

\* The types of what gralloc1 adds to a call.
DescTypeOK ==
  /\ layers \in [Thread -> BOOLEAN]
  /\ desc \in [Thread -> Descriptor \cup {None}]
  /\ descs \subseteq Descriptor
  /\ ub \in BOOLEAN

\* The inductive invariant.
Inv == CallsInv /\ DescTypeOK /\ DescriptorsOwned

\* The stages between a createDescriptor that succeeded and destroyDescriptor.
Using == {"set", "allocate", "push", "after"}

\* The threads DescriptorsOwned speaks of.
Users == {t \in Thread : pc[t] \in Using}

\* toError makes an error of this HAL's enumeration of every name.
LEMMA ToErrorType == \A e : ToError(e) \in Error
BY DEF ToError, Error

\* Where the code returns early, toError has made no success of the error.
LEMMA ToErrorFails ==
  \A e \in {"BAD_DESCRIPTOR", "NO_RESOURCES", "UNSUPPORTED", "BAD_HANDLE"} :
    ToError(e) \in Error \ {"NONE"}
BY DEF ToError, Error

\* DescriptorsOwned, stated of Users.
LEMMA OwnedByUsers ==
  DescriptorsOwned <=>
    /\ \A d \in descs : \E t \in Users : desc[t] = d
    /\ ub \/ \A t \in Users : desc[t] \in descs /\ \A u \in Users : desc[u] = desc[t] => u = t
BY DEF DescriptorsOwned, Users, Using

\* The same in the next state.
LEMMA OwnedByUsersNext ==
  DescriptorsOwned' <=>
    /\ \A d \in descs' : \E t \in Users' : desc'[t] = d
    /\ ub' \/ \A t \in Users' : desc'[t] \in descs' /\ \A u \in Users' : desc'[u] = desc'[t] => u = t
BY DEF DescriptorsOwned, Users, Using

-----------------------------------------------------------------------------
(***************************************************************************)
(* What a step does to the descriptors                                     *)
(***************************************************************************)

\* A step between two stages that both use the descriptor, or both do not.
LEMMA DescriptorsKept ==
  ASSUME Inv, Users' = Users, \A t \in Users : desc'[t] = desc[t], UNCHANGED <<descs, ub>>
  PROVE  DescriptorsOwned'
BY OwnedByUsers, OwnedByUsersNext DEF Inv

\* A change of stage changes the users at most by the thread that moves.
LEMMA UsersStep ==
  ASSUME CallsTypeOK, NEW t \in Thread, NEW stage, Goto(t, stage)
  PROVE  Users' = IF stage \in Using THEN Users \cup {t} ELSE Users \ {t}
<1>1. \A u \in Thread : pc'[u] = IF u = t THEN stage ELSE pc[u]
  BY DEF CallsTypeOK, Goto
<1> QED BY <1>1 DEF Users

\* A thread that destroys its descriptor stops using it; nobody else used it.
LEMMA DescriptorDestroyed ==
  ASSUME Inv, NEW t \in Thread, pc[t] \in Using, NEW stage, stage \notin Using, Goto(t, stage),
         descs' = descs \ {desc[t]}, UNCHANGED <<desc, ub>>
  PROVE  DescriptorsOwned'
<1>1. Users' = Users \ {t} /\ t \in Users
  BY UsersStep DEF Inv, CallsInv, Users
<1>2. \A d \in descs' : \E u \in Users' : desc'[u] = d
  BY <1>1, OwnedByUsers DEF Inv
<1>3. ub' \/ \A u \in Users' :
                desc'[u] \in descs' /\ \A v \in Users' : desc'[v] = desc'[u] => v = u
  BY <1>1, OwnedByUsers DEF Inv
<1> QED BY <1>2, <1>3, OwnedByUsersNext

-----------------------------------------------------------------------------
(***************************************************************************)
(* The steps                                                               *)
(***************************************************************************)

\* The initial states satisfy the invariant.
LEMMA InitInv == Init => Inv
<1> SUFFICES ASSUME Init PROVE Inv
  OBVIOUS
<1>1. CallsInv
  BY CallsInitInv DEF Init
<1>2. DescTypeOK
  BY DEF Init, DescTypeOK
<1>3. DescriptorsOwned
  BY OwnedByUsers DEF Init, CallsInit, Users, Using
<1> QED BY <1>1, <1>2, <1>3 DEF Inv

\* A call begins: no descriptor is concerned.
LEMMA AllocateInv ==
  ASSUME Inv, NEW t \in Thread, NEW n \in 0..MaxCount, NEW layered \in BOOLEAN,
         Allocate(t, n, layered)
  PROVE  Inv'
<1> USE DEF Allocate
<1>1. CallsInv'
  BY AskInv DEF Inv
<1>2. DescTypeOK'
  BY DEF Inv, DescTypeOK
<1>3. Users' = Users
  <2>1. PICK stage \in {"create", "unwind"} : Goto(t, stage)
    BY DEF Ask, Unwind
  <2>2. t \notin Users /\ stage \notin Using
    BY DEF Ask, Users, Using
  <2> QED BY <2>1, <2>2, UsersStep DEF Inv, CallsInv
<1>4. DescriptorsOwned'
  BY <1>3, DescriptorsKept
<1> QED BY <1>1, <1>2, <1>4 DEF Inv

(***************************************************************************)
(* A new descriptor is nobody else's; a destroyDescriptor of an            *)
(* uninitialised local may take another thread's, which ub records.        *)
(***************************************************************************)
LEMMA CreateDescriptorInv ==
  ASSUME Inv, NEW t \in Thread, CreateDescriptor(t)
  PROVE  Inv'
<1> USE DEF CreateDescriptor
<1>1. CASE \E d \in Descriptor \ descs :
             /\ desc' = [desc EXCEPT ![t] = d]
             /\ descs' = descs \cup {d}
             /\ Goto(t, "set")
             /\ UNCHANGED <<error, ub>>
  <2>1. PICK d \in Descriptor \ descs :
             /\ desc' = [desc EXCEPT ![t] = d]
             /\ descs' = descs \cup {d}
             /\ Goto(t, "set")
             /\ UNCHANGED <<error, ub>>
    BY <1>1
  <2>2. CallsInv'
    BY <2>1, MoveInv DEF Inv
  <2>3. DescTypeOK'
    BY <2>1 DEF Inv, DescTypeOK
  <2>4. Users' = Users \cup {t} /\ t \notin Users
    BY <2>1, UsersStep DEF Inv, CallsInv, Users, Using
  <2>5. desc'[t] = d /\ \A u \in Users : desc'[u] = desc[u]
    BY <2>1, <2>4 DEF Inv, DescTypeOK, Users
  <2>6. \A e \in descs' : \E u \in Users' : desc'[u] = e
    BY <2>1, <2>4, <2>5, OwnedByUsers DEF Inv
  <2>7. ub' \/ \A u \in Users' :
                 desc'[u] \in descs' /\ \A v \in Users' : desc'[v] = desc'[u] => v = u
    BY <2>1, <2>4, <2>5, OwnedByUsers DEF Inv
  <2> QED BY <2>2, <2>3, <2>6, <2>7, OwnedByUsersNext DEF Inv
<1>2. CASE \E S \in {{}} \cup {{d} : d \in descs} :
             /\ descs' = descs \ S
             /\ ub' = TRUE
             /\ Unwind(t, ToError("NO_RESOURCES"))
             /\ UNCHANGED desc
  <2>1. descs' \subseteq descs /\ ub' = TRUE /\ Unwind(t, ToError("NO_RESOURCES")) /\ desc' = desc
    BY <1>2
  <2>2. CallsInv'
    BY <2>1, ToErrorType, MoveInv DEF Inv
  <2>3. DescTypeOK'
    BY <2>1 DEF Inv, DescTypeOK
  <2>4. Users' = Users
    BY <2>1, UsersStep DEF Inv, CallsInv, Users, Using, Unwind
  <2>5. DescriptorsOwned'
    BY <2>1, <2>4, OwnedByUsers, OwnedByUsersNext DEF Inv
  <2> QED BY <2>2, <2>3, <2>5 DEF Inv
<1> QED BY <1>1, <1>2

\* A set call that fails destroys the descriptor and ends the call.
LEMMA SetDescriptorInv ==
  ASSUME Inv, NEW t \in Thread, SetDescriptor(t)
  PROVE  Inv'
<1> USE DEF SetDescriptor
<1>1. DescTypeOK'
  BY DEF Inv, DescTypeOK
<1>2. CASE Goto(t, "allocate") /\ UNCHANGED <<error, descs>>
  <2>1. CallsInv'
    BY <1>2, MoveInv DEF Inv
  <2>2. Users' = Users
    BY <1>2, UsersStep DEF Inv, CallsInv, Users, Using
  <2>3. DescriptorsOwned'
    BY <1>2, <2>2, DescriptorsKept
  <2> QED BY <1>1, <2>1, <2>3 DEF Inv
<1>3. ASSUME NEW e, Unwind(t, ToError(e)), descs' = descs \ {desc[t]}
      PROVE  Inv'
  <2>1. CallsInv'
    BY <1>3, ToErrorType, MoveInv DEF Inv
  <2>2. DescriptorsOwned'
    BY <1>3, DescriptorDestroyed DEF Unwind, Using
  <2> QED BY <1>1, <2>1, <2>2 DEF Inv
<1> QED BY <1>2, <1>3

\* A buffer is made, or the loop breaks; the descriptor stays.
LEMMA AllocateBufferInv ==
  ASSUME Inv, NEW t \in Thread, AllocateBuffer(t)
  PROVE  Inv'
<1> USE DEF AllocateBuffer, descVars
<1>1. DescTypeOK'
  BY DEF Inv, DescTypeOK
<1>2. CallsInv'
  <2>1. CASE \E h \in Handle \ live, s \in Stride \cup {0} : NewBuffer(t, h, s)
    BY <2>1, NewBufferInv DEF Inv
  <2>2. CASE \E e \in {"BAD_DESCRIPTOR", "NO_RESOURCES", "UNSUPPORTED"} :
               /\ Break(t, ToError(e))
               /\ UNCHANGED <<count, tmpBuffer, buffers, stride, bufferVars>>
    BY <2>2, ToErrorFails, MoveInv DEF Inv
  <2> QED BY <2>1, <2>2
<1>3. Users' = Users
  <2>1. PICK stage \in {"push", "after"} : Goto(t, stage)
    BY DEF NewBuffer, Break
  <2> QED BY <2>1, UsersStep DEF Inv, CallsInv, Users, Using
<1>4. DescriptorsOwned'
  BY <1>3, DescriptorsKept
<1> QED BY <1>1, <1>2, <1>4 DEF Inv

\* The buffer is kept with its stride, or released.
LEMMA GetStrideInv ==
  ASSUME Inv, NEW t \in Thread, GetStride(t)
  PROVE  Inv'
<1> USE DEF GetStride, descVars
<1>1. DescTypeOK'
  BY DEF Inv, DescTypeOK
<1>2. CallsInv'
  <2>1. CASE PushBuffer(t, strideOf[tmpBuffer[t]]) /\ UNCHANGED bufferVars
    BY <2>1, PushBufferInv DEF Inv
  <2>2. CASE /\ Release(tmpBuffer[t])
             /\ tmpBuffer' = [tmpBuffer EXCEPT ![t] = None]
             /\ Break(t, ToError("BAD_HANDLE"))
             /\ UNCHANGED <<buffers, stride>>
    BY <2>2, ToErrorFails, DropBufferInv DEF Inv
  <2> QED BY <2>1, <2>2
<1>3. Users' = Users
  <2>1. PICK stage \in {"allocate", "after"} : Goto(t, stage)
    BY DEF PushBuffer, Break
  <2> QED BY <2>1, UsersStep DEF Inv, CallsInv, Users, Using
<1>4. DescriptorsOwned'
  BY <1>3, DescriptorsKept
<1> QED BY <1>1, <1>2, <1>4 DEF Inv

\* The end of the loop.
LEMMA LoopDoneInv ==
  ASSUME Inv, NEW t \in Thread, LoopDone(t)
  PROVE  Inv'
<1> USE DEF LoopDone, descVars
<1>1. CallsInv' /\ DescTypeOK'
  BY LoopEndInv DEF Inv, DescTypeOK
<1>2. Users' = Users
  BY UsersStep DEF LoopEnd, Inv, CallsInv, Users, Using
<1> QED BY <1>1, <1>2, DescriptorsKept DEF Inv

\* destroyDescriptor after the loop, whatever its error is.
LEMMA DestroyDescriptorInv ==
  ASSUME Inv, NEW t \in Thread, DestroyDescriptor(t)
  PROVE  Inv'
<1> USE DEF DestroyDescriptor
<1>1. CallsInv' /\ DescTypeOK'
  BY AfterLoopInv DEF Inv, DescTypeOK
<1>2. PICK stage \in {"reply", "unwind"} : Goto(t, stage)
  BY DEF AfterLoop
<1>3. DescriptorsOwned'
  BY <1>2, DescriptorDestroyed DEF AfterLoop, Using
<1> QED BY <1>1, <1>3 DEF Inv

\* The reply and freeBuffers come after the descriptor is gone.
LEMMA ReplyInv ==
  ASSUME Inv, NEW t \in Thread, Reply(t) \/ FreeBuffer(t) \/ FreeDone(t)
  PROVE  Inv'
<1> USE DEF Reply, FreeBuffer, FreeDone, descVars
<1>1. CallsInv'
  BY SendReplyInv, FreeOneInv, ReturnInv DEF Inv
<1>2. DescTypeOK'
  BY DEF Inv, DescTypeOK
<1>3. t \notin Users /\ Users' = Users
  <2>1. t \notin Users
    BY DEF Users, Using, SendReply, FreeOne, Return
  <2>2. CASE pc' = pc
    BY <2>1, <2>2 DEF Users
  <2>3. CASE Goto(t, "free") \/ Goto(t, "idle")
    BY <2>1, <2>3, UsersStep DEF Inv, CallsInv, Using
  <2> QED BY <2>1, <2>2, <2>3 DEF SendReply, FreeOne, Return
<1>4. \A u \in Users : desc'[u] = desc[u]
  BY <1>3 DEF Inv, DescTypeOK, Users
<1> QED BY <1>1, <1>2, <1>3, <1>4, DescriptorsKept DEF Inv

\* Every step keeps the invariant.
LEMMA NextInv == Inv /\ [Next]_vars => Inv'
<1> SUFFICES ASSUME Inv, [Next]_vars PROVE Inv'
  OBVIOUS
<1>1. ASSUME NEW t \in Thread, NEW n \in 0..MaxCount, NEW layered \in BOOLEAN,
             Allocate(t, n, layered)
      PROVE  Inv'
  BY <1>1, AllocateInv
<1>2. ASSUME NEW t \in Thread, Step(t)
      PROVE  Inv'
  BY <1>2, CreateDescriptorInv, SetDescriptorInv, AllocateBufferInv, GetStrideInv,
     LoopDoneInv, DestroyDescriptorInv, ReplyInv DEF Step
<1>3. CASE UNCHANGED vars
  <2>1. CallsInv' /\ DescTypeOK' /\ Users' = Users
    BY <1>3, StutterInv DEF vars, descVars, Inv, DescTypeOK, Users
  <2> QED BY <1>3, <2>1, DescriptorsKept DEF vars, descVars, Inv
<1> QED BY <1>1, <1>2, <1>3 DEF Next

(***************************************************************************)
(* Inv holds in every state of the specification.                          *)
(***************************************************************************)
THEOREM Invariance == Spec => []Inv
BY InitInv, NextInv, PTL DEF Spec

(***************************************************************************)
(* Type correctness: stages, counts, handles and errors stay in their      *)
(* sets, and a call never has more buffers than it asked for.              *)
(***************************************************************************)
THEOREM TypeCorrect == Spec => []TypeOK
<1>1. Inv => TypeOK
  BY DEF Inv, CallsInv, DescTypeOK, TypeOK
<1> QED BY <1>1, Invariance, PTL

(***************************************************************************)
(* A handle is released once and only by the call that allocated it: no    *)
(* interleaving of allocateOneBuffer's and allocateBuffers' error paths    *)
(* frees a handle twice, or one that the device gave to another call.      *)
(***************************************************************************)
THEOREM HandlesAlwaysOwned == Spec => []HandlesOwned
<1>1. Inv => HandlesOwned
  BY DEF Inv, CallsInv
<1> QED BY <1>1, Invariance, PTL

(***************************************************************************)
(* No buffer outlives its call in the allocator, whatever device call      *)
(* fails, except the ones whose release failed.                            *)
(***************************************************************************)
THEOREM BuffersNeverLeak == Spec => []NoBufferLeak
<1>1. Inv => NoBufferLeak
  BY DEF Inv, CallsInv
<1> QED BY <1>1, Invariance, PTL

(***************************************************************************)
(* No descriptor outlives its call, and none is lost under a call that     *)
(* uses it until createDescriptor's error path has destroyed an            *)
(* uninitialised one.                                                      *)
(***************************************************************************)
THEOREM DescriptorsAlwaysOwned == Spec => []DescriptorsOwned
<1>1. Inv => DescriptorsOwned
  BY DEF Inv
<1> QED BY <1>1, Invariance, PTL

(***************************************************************************)
(* Whatever strides the device reports or leaves undefined, every buffer   *)
(* of a reply has the stride the reply gives, except those before the      *)
(* first defined stride, over gralloc1.                                    *)
(***************************************************************************)
THEOREM StridesAlwaysFit == Spec => []DefinedStridesUniform
<1>1. Inv => DefinedStridesUniform
  BY DEF Inv, CallsInv, StridesCollected, Collecting, DefinedStridesUniform
<1> QED BY <1>1, Invariance, PTL

-----------------------------------------------------------------------------
(***************************************************************************)
(* The promise of IAllocator::allocate                                     *)
(***************************************************************************)

\* Every step of the device's call sequence is a step of the promise, or
\* invisible in it.
LEMMA StepRefines ==
  ASSUME Inv, NEW t \in Thread, Step(t)
  PROVE  [Promise!Next]_(Promise!vars)
<1> USE DEF Inv
<1>1. CASE CreateDescriptor(t) \/ SetDescriptor(t)
  <2>1. PICK stage \in {"set", "allocate", "unwind"} : Goto(t, stage)
    BY <1>1 DEF CreateDescriptor, SetDescriptor, Unwind
  <2>2. UNCHANGED <<count, tmpBuffer, buffers>> /\ pc[t] \in {"create", "set"}
    BY <1>1 DEF CreateDescriptor, SetDescriptor
  <2> QED BY <2>1, <2>2, MoveRefines DEF PhaseOf
<1>2. CASE AllocateBuffer(t)
  <2>1. CASE \E h \in Handle \ live, s \in Stride \cup {0} : NewBuffer(t, h, s)
    BY <1>2, <2>1, NewBufferRefines DEF AllocateBuffer
  <2>2. CASE \E e : Break(t, e) /\ UNCHANGED <<count, tmpBuffer, buffers>>
    <3>1. Goto(t, "after") /\ pc[t] = "allocate" /\ UNCHANGED <<count, tmpBuffer, buffers>>
      BY <1>2, <2>2 DEF AllocateBuffer, Break
    <3> QED BY <3>1, MoveRefines DEF PhaseOf
  <2> QED BY <1>2, <2>1, <2>2 DEF AllocateBuffer
<1>3. CASE GetStride(t)
  <2>1. CASE PushBuffer(t, strideOf[tmpBuffer[t]])
    BY <1>3, <2>1, PushBufferRefines DEF GetStride
  <2>2. CASE /\ tmpBuffer' = [tmpBuffer EXCEPT ![t] = None]
             /\ Break(t, ToError("BAD_HANDLE"))
             /\ UNCHANGED buffers
    BY <1>3, <2>2, DropBufferRefines DEF GetStride
  <2> QED BY <1>3, <2>1, <2>2 DEF GetStride
<1>4. CASE LoopDone(t)
  BY <1>4, MoveRefines DEF LoopDone, LoopEnd, callVars, PhaseOf
<1>5. CASE DestroyDescriptor(t)
  <2>1. PICK stage \in {"reply", "unwind"} : Goto(t, stage)
    BY <1>5 DEF DestroyDescriptor, AfterLoop
  <2>2. UNCHANGED <<count, tmpBuffer, buffers>> /\ pc[t] = "after"
    BY <1>5 DEF DestroyDescriptor, AfterLoop, callVars
  <2> QED BY <2>1, <2>2, MoveRefines DEF PhaseOf
<1>6. CASE Reply(t)
  BY <1>6, SendReplyRefines DEF Reply
<1>7. CASE FreeBuffer(t)
  BY <1>7, FreeOneRefines DEF FreeBuffer
<1>8. CASE FreeDone(t)
  BY <1>8, ReturnRefines DEF FreeDone
<1> QED BY <1>1, <1>2, <1>3, <1>4, <1>5, <1>6, <1>7, <1>8 DEF Step

\* A step of the specification is a step of the promise, or invisible in it.
LEMMA NextRefines == Inv /\ [Next]_vars => [Promise!Next]_(Promise!vars)
<1> SUFFICES ASSUME Inv, [Next]_vars PROVE [Promise!Next]_(Promise!vars)
  OBVIOUS
<1>1. ASSUME NEW t \in Thread, NEW n \in 0..MaxCount, NEW layered \in BOOLEAN,
             Allocate(t, n, layered)
      PROVE  Promise!Next
  BY <1>1, AskRefines DEF Allocate, Inv
<1>2. CASE UNCHANGED vars
  <2>1. Phase' = Phase /\ count' = count /\ HeldCount' = HeldCount
    BY <1>2, HeldKept DEF vars, callVars, Phase
  <2> QED BY <2>1, PromiseStutter
<1> QED BY <1>1, <1>2, StepRefines DEF Next

(***************************************************************************)
(* The gralloc1 back end implements AllocatorSpec: a call is granted with  *)
(* every buffer it asked for or refused with none, and the service's own   *)
(* handles are given back before it ends.                                  *)
(***************************************************************************)
THEOREM KeepsPromise == Spec => AllOrNothing
<1>1. Init => Promise!Init
  BY CallsInitRefines DEF Init
<1> QED BY <1>1, NextRefines, Invariance, PTL DEF Spec, AllOrNothing, Promise!Spec

-----------------------------------------------------------------------------
(***************************************************************************)
(* What createDescriptor tells the device                                  *)
(*                                                                         *)
(* The last two set calls of SetDescriptor with the words they set, as     *)
(* GrallocUsage.tla models them, for words of any width.                   *)
(***************************************************************************)

\* The values of the CPU fields that mean something are different ones.
LEMMA FieldValues ==
  /\ CPU_READ_RARELY # CPU_READ_OFTEN
  /\ CPU_WRITE_RARELY # CPU_WRITE_OFTEN
<1>1. 0 \in {0, 1} /\ 0 \notin {1} /\ 4 \in {4, 5} /\ 4 \notin {5}
  OBVIOUS
<1> QED BY <1>1 DEF CPU_READ_RARELY, CPU_READ_OFTEN,
                    CPU_WRITE_RARELY, CPU_WRITE_OFTEN

\* The switch over the read field sets the read bits and no other.
LEMMA ReadBits ==
  ASSUME NEW u
  PROVE  /\ 1 \in ReadUsage(u)
              <=> u \cap CPU_READ_MASK \in {CPU_READ_RARELY, CPU_READ_OFTEN}
         /\ 2 \in ReadUsage(u) <=> u \cap CPU_READ_MASK = CPU_READ_OFTEN
         /\ ReadUsage(u) \subseteq {1, 2}
<1> USE DEF ReadUsage, USAGE_CPU_READ, USAGE_CPU_READ_OFTEN
<1>1. CASE u \cap CPU_READ_MASK = CPU_READ_RARELY
  BY <1>1, FieldValues
<1>2. CASE u \cap CPU_READ_MASK # CPU_READ_RARELY
  BY <1>2
<1> QED BY <1>1, <1>2

\* The switch over the write field sets the write bits and no other.
LEMMA WriteBits ==
  ASSUME NEW u
  PROVE  /\ 5 \in WriteUsage(u)
              <=> u \cap CPU_WRITE_MASK \in {CPU_WRITE_RARELY, CPU_WRITE_OFTEN}
         /\ 6 \in WriteUsage(u) <=> u \cap CPU_WRITE_MASK = CPU_WRITE_OFTEN
         /\ WriteUsage(u) \subseteq {5, 6}
<1> USE DEF WriteUsage, USAGE_CPU_WRITE, USAGE_CPU_WRITE_OFTEN
<1>1. CASE u \cap CPU_WRITE_MASK = CPU_WRITE_RARELY
  BY <1>1, FieldValues
<1>2. CASE u \cap CPU_WRITE_MASK # CPU_WRITE_RARELY
  BY <1>2
<1> QED BY <1>1, <1>2

\* toProducerUsage and toConsumerUsage translate every access of a word.
LEMMA AccessesTranslated ==
  ASSUME NEW u
  PROVE  Told(ToProducerUsage(u), ToConsumerUsage(u)) = Asked(u)
<1> DEFINE p == ToProducerUsage(u)
           c == ToConsumerUsage(u)
<1>1. /\ 1 \in p /\ 1 \in c <=> 1 \in ReadUsage(u)
      /\ 2 \in p /\ 2 \in c <=> 2 \in ReadUsage(u)
      /\ 5 \in p \ c <=> 5 \in WriteUsage(u)
      /\ 6 \in p \ c <=> 6 \in WriteUsage(u)
      /\ 23 \in p \ c <=> 23 \in u
      /\ 24 \in c \ p <=> 24 \in u
  BY ReadBits, WriteBits
     DEF ToProducerUsage, ToConsumerUsage, CPU_READ_MASK,
         CPU_WRITE_MASK, GPU_DATA_BUFFER, SENSOR_DIRECT_DATA
<1> HIDE DEF p, c
<1>2. ASSUME NEW a \in Access PROVE Told(p, c)[a] = Asked(u)[a]
  <2> USE DEF Told, Asked, Access
  <2>1. CASE a \in {"read", "readOften"}
    BY <1>1, <2>1, ReadBits
  <2>2. CASE a \in {"write", "writeOften"}
    BY <1>1, <2>2, WriteBits
  <2>3. CASE a = "sensor"
    BY <1>1, <2>3 DEF SENSOR_DIRECT_DATA
  <2>4. CASE a = "gpuData"
    BY <1>1, <2>4 DEF GPU_DATA_BUFFER
  <2> QED BY <2>1, <2>2, <2>3, <2>4
<1>3. Told(p, c) = Asked(u)
  BY <1>2, Zenon DEF Told, Asked
<1> QED BY <1>3 DEF p, c

\* The words the device has been given so far: the inductive invariant.
WordsSet ==
  /\ setCall \in {"setProducerUsage", "setConsumerUsage", "ready"}
  /\ setCall # "setProducerUsage" => producer = ToProducerUsage(usage)
  /\ setCall = "ready" => consumer = ToConsumerUsage(usage)

\* The device has both words when the set calls are over.
LEMMA WordsAlwaysSet == UsageSpec => []WordsSet
<1>1. UsageInit => WordsSet
  BY DEF UsageInit, WordsSet
<1>2. WordsSet /\ [UsageNext]_usageVars => WordsSet'
  BY DEF UsageNext, SetProducerUsage, SetConsumerUsage, usageVars, WordsSet
<1> QED BY <1>1, <1>2, PTL DEF UsageSpec

(***************************************************************************)
(* toProducerUsage and toConsumerUsage lose no access the caller of        *)
(* allocate asked for and invent none, whatever the word is.               *)
(***************************************************************************)
THEOREM AccessesAlwaysKept == UsageSpec => []AccessesKept
<1>1. WordsSet => AccessesKept
  BY AccessesTranslated DEF WordsSet, AccessesKept
<1> QED BY <1>1, WordsAlwaysSet, PTL
==============================================================================
