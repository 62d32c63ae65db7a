------------------------- MODULE GrallocLoaderProofs ------------------------
(***************************************************************************)
(* Proofs of the properties of GrallocLoader.tla, for every set of module  *)
(* versions.                                                               *)
(***************************************************************************)
EXTENDS GrallocLoader, TLAPS

\* The stages at which the device is open, and only those, have mDevice set.
DeviceTracked ==
  /\ mDevice => open = 1
  /\ ~mDevice => open = 0
  /\ pc \in {"main", "loadModule", "createHal", "open", "failed"} => ~mDevice
  /\ pc \in {"initCapabilities", "initDispatch", "close", "createAllocator", "loaded"} => mDevice

\* What initDispatch left behind when it succeeded.
DispatchReady ==
  pc \in {"createAllocator", "loaded"} /\ hal = "gralloc1" =>
    \A f \in Function : f \in mDispatch \/ (f = "setLayerCount" /\ ~layeredBuffers)

\* The inductive invariant.
Inv == TypeOK /\ DeviceTracked /\ DispatchReady

\* The invariant holds at the call of load.
LEMMA InitInv == Init => Inv
<1> SUFFICES ASSUME Init PROVE Inv
  OBVIOUS
<1>1. faults \in 0..MaxFault
  BY LoaderAssumption DEF Init
<1>2. TypeOK /\ DeviceTracked /\ DispatchReady
  BY <1>1, Zenon DEF Init, TypeOK, Stage, DeviceTracked, DispatchReady
<1> QED BY <1>2 DEF Inv

\* The count of failures stays within its bound.
LEMMA FaultsTyped ==
  ASSUME faults \in 0..MaxFault, Fault \/ UNCHANGED faults
  PROVE  faults' \in 0..MaxFault
<1>1. MaxFault \in Nat
  BY LoaderAssumption, Zenon
<1> QED BY <1>1 DEF Fault

\* initDispatch, the one step that fills the dispatch table.
LEMMA InitDispatchInv ==
  ASSUME Inv, InitDispatch
  PROVE  Inv'
<1> DEFINE Found(F) == {DispatchOrder[i] : i \in
              {k \in 1..Len(DispatchOrder) : \A j \in 1..k : DispatchOrder[j] \in F}}
           All(F)   == Found(F) = Function \ {"setLayerCount"}
           Layer(F) == All(F) /\ layeredBuffers /\ "setLayerCount" \in F
<1>1. PICK F \in SUBSET Function :
        /\ mDispatch' = Found(F) \cup (IF Layer(F) THEN {"setLayerCount"} ELSE {})
        /\ IF All(F) /\ (layeredBuffers => Layer(F))
           THEN pc' = "createAllocator" /\ UNCHANGED faults
           ELSE pc' = "close" /\ Fault
  BY DEF InitDispatch
<1>2. Found(F) \subseteq Function
  BY DEF Function
<1>3. "setLayerCount" \in Function
  BY DEF Function
<1> HIDE DEF Found
<1>f. faults' \in 0..MaxFault
  BY <1>1, FaultsTyped DEF Inv, TypeOK
<1>4. TypeOK'
  BY <1>1, <1>2, <1>3, <1>f DEF Inv, TypeOK, Stage, InitDispatch
<1>5. DeviceTracked'
  BY <1>1 DEF Inv, DeviceTracked, InitDispatch
<1>6. DispatchReady'
  BY <1>1 DEF InitDispatch, DispatchReady
<1> QED BY <1>4, <1>5, <1>6 DEF Inv

\* Every step of load keeps the invariant.
LEMMA NextInv == Inv /\ [Next]_vars => Inv'
<1> SUFFICES ASSUME Inv, [Next]_vars PROVE Inv'
  OBVIOUS
<1> USE DEF Inv, TypeOK, Stage, DeviceTracked, DispatchReady
<1>f. faults' \in 0..MaxFault
  <2>1. Fault \/ UNCHANGED faults
    BY Zenon DEF Next, Main, Restart, LoadModule, CreateHal, OpenGralloc1, OpenGralloc0,
       OpenDevice, InitCapabilities, InitDispatch, Close, DestroyHal, CreateAllocator, vars
  <2> QED BY <2>1, FaultsTyped
<1>0. CASE Main \/ Restart
  BY <1>0 DEF Main, Restart
<1>1. CASE LoadModule
  BY <1>1, <1>f DEF LoadModule
<1>2. CASE CreateHal
  BY <1>2 DEF CreateHal
<1>3. CASE OpenGralloc1 \/ OpenGralloc0
  <2>1. TypeOK'
    <3>1. open' \in {0, 1}
      BY <1>3 DEF OpenGralloc1, OpenGralloc0, OpenDevice
    <3>2. mDevice' \in BOOLEAN /\ layeredBuffers' \in BOOLEAN
      BY <1>3, Zenon DEF OpenGralloc1, OpenGralloc0, OpenDevice
    <3>3. pc' \in Stage /\ version' \in Version /\ mDispatch' \subseteq Function
      BY <1>3 DEF OpenGralloc1, OpenGralloc0, OpenDevice
    <3>4. hal' \in {"none", "gralloc0", "gralloc1"}
      BY <1>3 DEF OpenGralloc1, OpenGralloc0, OpenDevice
    <3> QED BY <3>1, <3>2, <3>3, <3>4, <1>f, Zenon
  <2>2. DeviceTracked'
    BY <1>3 DEF OpenGralloc1, OpenGralloc0, OpenDevice
  <2>3. DispatchReady'
    BY <1>3 DEF OpenGralloc1, OpenGralloc0, OpenDevice
  <2> QED BY <2>1, <2>2, <2>3
<1>4. CASE InitCapabilities
  BY <1>4 DEF InitCapabilities
<1>5. CASE InitDispatch
  BY <1>5, InitDispatchInv
<1>6. CASE Close
  <2>1. TypeOK'
    <3>1. open' \in {0, 1}
      BY <1>6 DEF Close
    <3>2. mDevice' \in BOOLEAN /\ layeredBuffers' \in BOOLEAN
      BY <1>6, Zenon DEF Close
    <3>3. pc' \in Stage /\ version' \in Version /\ mDispatch' \subseteq Function
      BY <1>6 DEF Close
    <3>4. hal' \in {"none", "gralloc0", "gralloc1"}
      BY <1>6 DEF Close
    <3> QED BY <3>1, <3>2, <3>3, <3>4, <1>f, Zenon
  <2>2. DeviceTracked'
    BY <1>6 DEF Close
  <2>3. DispatchReady'
    BY <1>6 DEF Close
  <2> QED BY <2>1, <2>2, <2>3
<1>7. CASE DestroyHal
  <2>1. TypeOK'
    <3>1. open' \in {0, 1}
      BY <1>7 DEF DestroyHal
    <3>2. mDevice' \in BOOLEAN /\ layeredBuffers' \in BOOLEAN
      BY <1>7, Zenon DEF DestroyHal
    <3>3. pc' \in Stage /\ version' \in Version /\ mDispatch' \subseteq Function
      BY <1>7 DEF DestroyHal
    <3>4. hal' \in {"none", "gralloc0", "gralloc1"}
      BY <1>7 DEF DestroyHal
    <3> QED BY <3>1, <3>2, <3>3, <3>4, <1>f, Zenon
  <2>2. DeviceTracked'
    BY <1>7 DEF DestroyHal
  <2>3. DispatchReady'
    BY <1>7 DEF DestroyHal
  <2> QED BY <2>1, <2>2, <2>3
<1>8. CASE CreateAllocator
  BY <1>8 DEF CreateAllocator
<1>9. CASE UNCHANGED vars
  BY <1>9 DEF vars
<1> QED BY <1>0, <1>1, <1>2, <1>3, <1>4, <1>5, <1>6, <1>7, <1>8, <1>9 DEF Next

\* The invariant holds throughout load.
THEOREM Invariance == Spec => []Inv
BY InitInv, NextInv, PTL DEF Spec

\* Every variable of load keeps its type; in particular the device is never
\* closed when it is not open.
THEOREM TypeCorrect == Spec => []TypeOK
<1>1. Inv => TypeOK
  BY DEF Inv
<1> QED BY <1>1, Invariance, PTL

\* load closes the gralloc device exactly once on every failure path.
THEOREM ClosedOnce == Spec => []DeviceClosedOnce
<1>1. Inv => DeviceClosedOnce
  BY DEF Inv, DeviceTracked, DeviceClosedOnce
<1> QED BY <1>1, Invariance, PTL

\* A loaded gralloc1 back end has every function it may call.
THEOREM NoNullFunction == Spec => []DispatchComplete
<1>1. Inv => DispatchComplete
  BY DEF Inv, DispatchReady, DispatchComplete
<1> QED BY <1>1, Invariance, PTL
==============================================================================
