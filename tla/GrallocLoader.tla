--------------------------- MODULE GrallocLoader ----------------------------
(***************************************************************************)
(* The start of the allocator service: main() fetches the IAllocator, and  *)
(* GrallocLoader::load (hals/allocator/GrallocLoader.h) finds the gralloc  *)
(* module, chooses the back end by its version, opens and initialises its  *)
(* device (initWithModule of Gralloc1Hal.h and Gralloc0Hal.h) and hands    *)
(* the result to an Allocator.  Every failure destroys what was made so    *)
(* far; without an IAllocator the process exits and init starts it again.  *)
(*                                                                         *)
(* The gralloc module is the environment: it may be missing, its device    *)
(* may not open, and the device may lack functions.  MaxFault bounds how   *)
(* often that happens in a behaviour.                                      *)
(***************************************************************************)
EXTENDS Integers, Sequences

CONSTANTS
  Version,   \* values of module_api_version, 16 bits
  MaxFault   \* bound: failures of the environment in a behaviour

ASSUME LoaderAssumption ==
  /\ Version \subseteq 0..2^16 - 1
  /\ MaxFault \in Nat

\* The functions initDispatch asks for, in its order.
DispatchOrder ==
  <<"dump", "createDescriptor", "destroyDescriptor", "setDimensions", "setFormat",
    "setConsumerUsage", "setProducerUsage", "getStride", "allocate", "release">>

Function == {DispatchOrder[i] : i \in 1..Len(DispatchOrder)} \cup {"setLayerCount"}

VARIABLES
  pc,              \* what load does next
  version,         \* external: the version of the module that was found
  hal,             \* the back end being built: "none", "gralloc0" or "gralloc1"
  mDevice,         \* TRUE if the back end's mDevice is not null
  layeredBuffers,  \* mCapabilities.layeredBuffers
  mDispatch,       \* functions of mDispatch that are not null
  open,            \* external: opens minus closes of the device
  faults           \* history: number of failures so far

vars == <<pc, version, hal, mDevice, layeredBuffers, mDispatch, open, faults>>

Stage == {"main", "loadModule", "createHal", "open", "initCapabilities", "initDispatch",
          "close", "destroy", "createAllocator", "loaded", "failed"}

TypeOK ==
  /\ pc \in Stage
  /\ version \in Version
  /\ hal \in {"none", "gralloc0", "gralloc1"}
  /\ mDevice \in BOOLEAN
  /\ layeredBuffers \in BOOLEAN
  /\ mDispatch \subseteq Function
  /\ open \in {0, 1}
  /\ faults \in 0..MaxFault

Init ==
  /\ pc = "main"
  /\ version \in Version
  /\ hal = "none"
  /\ mDevice = FALSE
  /\ layeredBuffers = FALSE
  /\ mDispatch = {}
  /\ open = 0
  /\ faults = 0

-----------------------------------------------------------------------------
\* Something outside the service fails in this step.
Fault ==
  /\ faults < MaxFault
  /\ faults' = faults + 1

\* main() registers the passthrough implementation: HIDL_FETCH_IAllocator is
\* called, which calls load.
Main ==
  /\ pc = "main"
  /\ pc' = "loadModule"
  /\ UNCHANGED <<version, hal, mDevice, layeredBuffers, mDispatch, open, faults>>

\* load returned null, main() returns an error, and init restarts the service,
\* which is of class hal and not oneshot.
Restart ==
  /\ pc = "failed"
  /\ pc' = "main"
  /\ UNCHANGED <<version, hal, mDevice, layeredBuffers, mDispatch, open, faults>>

\* hw_get_module; without a module load returns null.
LoadModule ==
  /\ pc = "loadModule"
  /\ \/ pc' = "createHal" /\ UNCHANGED faults
     \/ pc' = "failed" /\ Fault
  /\ UNCHANGED <<version, hal, mDevice, layeredBuffers, mDispatch, open>>

\* Mutant: the low byte is taken for the major version.
MinorApiVersion(v) == v % 256

\* (module_api_version >> 8) & 0xff
GetModuleMajorApiVersion(v) == (v \div 256) % 256

\* The switch of createHal; make_unique starts with a null device.
CreateHal ==
  /\ pc = "createHal"
  /\ hal' = CASE GetModuleMajorApiVersion(version) = 1 -> "gralloc1"
              [] GetModuleMajorApiVersion(version) = 0 -> "gralloc0"
              [] OTHER -> "none"
  /\ pc' = IF hal' = "none" THEN "failed" ELSE "open"
  /\ UNCHANGED <<version, mDevice, layeredBuffers, mDispatch, open, faults>>

\* The device is opened and load goes on to the stage next, or it cannot be
\* opened and mDevice stays null.
OpenDevice(next) ==
  /\ pc = "open"
  /\ \/ mDevice' = TRUE /\ open' = open + 1 /\ pc' = next /\ UNCHANGED faults
     \/ mDevice' = FALSE /\ open' = open /\ pc' = "destroy" /\ Fault
  /\ UNCHANGED <<version, hal, layeredBuffers, mDispatch>>

\* initWithModule of Gralloc1HalImpl starts with gralloc1_open.
OpenGralloc1 == hal = "gralloc1" /\ OpenDevice("initCapabilities")

\* initWithModule of Gralloc0HalImpl is gralloc_open.
OpenGralloc0 == hal = "gralloc0" /\ OpenDevice("createAllocator")

\* Mutant: the dispatch table is filled before the capabilities are known.
InitCapabilitiesLate ==
  /\ pc = "initCapabilities"
  /\ \E b \in BOOLEAN : layeredBuffers' = b
  /\ mDispatch' = Function \ {"setLayerCount"}
  /\ pc' = "createAllocator"
  /\ UNCHANGED <<version, hal, mDevice, open, faults>>

\* getCapabilities lists LAYERED_BUFFERS or not.
InitCapabilities ==
  /\ pc = "initCapabilities"
  /\ \E b \in BOOLEAN : layeredBuffers' = b
  /\ pc' = "initDispatch"
  /\ UNCHANGED <<version, hal, mDevice, mDispatch, open, faults>>

\* initDispatch on a device with the functions F: it stops at the first one
\* that is missing, and asks for setLayerCount last and only if it is needed.
InitDispatch ==
  /\ pc = "initDispatch"
  /\ \E F \in SUBSET Function :
       LET found == {DispatchOrder[i] : i \in
                       {k \in 1..Len(DispatchOrder) : \A j \in 1..k : DispatchOrder[j] \in F}}
           all   == found = Function \ {"setLayerCount"}
           layer == all /\ layeredBuffers /\ "setLayerCount" \in F
       IN  /\ mDispatch' = found \cup (IF layer THEN {"setLayerCount"} ELSE {})
           /\ IF all /\ (layeredBuffers => layer)
              THEN pc' = "createAllocator" /\ UNCHANGED faults
              ELSE pc' = "close" /\ Fault
  /\ UNCHANGED <<version, hal, mDevice, layeredBuffers, open>>

\* Mutant: mDevice is not reset after gralloc1_close.
CloseKeepsPointer ==
  /\ pc = "close"
  /\ open' = open - 1
  /\ pc' = "destroy"
  /\ UNCHANGED <<version, hal, mDevice, layeredBuffers, mDispatch, faults>>

\* Mutant: a device that cannot be used is not closed.
CloseForgotten ==
  /\ pc = "close"
  /\ mDevice' = FALSE
  /\ pc' = "destroy"
  /\ UNCHANGED <<version, hal, layeredBuffers, mDispatch, open, faults>>

\* initWithModule gives up: gralloc1_close, mDevice = nullptr.
Close ==
  /\ pc = "close"
  /\ open' = open - 1
  /\ mDevice' = FALSE
  /\ pc' = "destroy"
  /\ UNCHANGED <<version, hal, layeredBuffers, mDispatch, faults>>

\* createHal returns null and the unique_ptr destroys the back end, whose
\* destructor closes a device that is still there; load returns null.
DestroyHal ==
  /\ pc = "destroy"
  /\ open' = IF mDevice THEN open - 1 ELSE open
  /\ hal' = "none" /\ mDevice' = FALSE
  /\ layeredBuffers' = FALSE /\ mDispatch' = {}
  /\ pc' = "failed"
  /\ UNCHANGED <<version, faults>>

\* createAllocator: Allocator::init takes the back end and returns true.
CreateAllocator ==
  /\ pc = "createAllocator"
  /\ pc' = "loaded"
  /\ UNCHANGED <<version, hal, mDevice, layeredBuffers, mDispatch, open, faults>>

Next ==
  \/ Main \/ Restart
  \/ LoadModule \/ CreateHal \/ OpenGralloc1 \/ OpenGralloc0
  \/ InitCapabilities \/ InitDispatch
  \/ Close \/ DestroyHal \/ CreateAllocator

\* main() runs in one thread, init restarts it, and a failure is never forced.
Spec == Init /\ [][Next]_vars /\ WF_vars(Next /\ faults' = faults)

-----------------------------------------------------------------------------
(***************************************************************************)
(* On every way out of load the device is closed as often as it was        *)
(* opened, unless the Allocator got it: then it is open and mDevice is set.*)
(***************************************************************************)
DeviceClosedOnce ==
  /\ pc = "failed" => open = 0
  /\ pc = "loaded" => open = 1 /\ mDevice

(***************************************************************************)
(* A loaded gralloc1 back end never calls a null function pointer:         *)
(* createDescriptor calls setLayerCount exactly if layeredBuffers is set,  *)
(* and initDispatch asked for it with the same layeredBuffers.             *)
(***************************************************************************)
DispatchComplete ==
  pc = "loaded" /\ hal = "gralloc1" =>
    \A f \in Function : f \in mDispatch \/ (f = "setLayerCount" /\ ~layeredBuffers)

(***************************************************************************)
(* With finitely many failures the service comes up over every module of   *)
(* major version 0 or 1: a failed load leaves nothing behind that keeps    *)
(* the next process from loading.                                          *)
(***************************************************************************)
ServiceLoads == version < 512 ~> pc = "loaded"
==============================================================================
