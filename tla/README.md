# A TLA+ model of the xenvm device's HAL services

The repository is the Android device configuration of a Xen guest. Most of it
is declarative (make files, overlays, manifests, init scripts, SELinux policy).
Two programs carry logic of their own and are what is modelled here:

* the **health service** (`health/`), an `IHealth` 2.0 HAL with an epoll main
  loop, a wake alarm and a registry of callbacks;
* the **graphics allocator service** (`hals/allocator/`), an `IAllocator` 3.0
  HAL on top of a gralloc1 or gralloc0 device.

They share nothing with each other. `build/device.mk` has the health 2.0 service
commented out in favour of a 2.1 service from elsewhere, and `manifest.xml` still lists
2.0; the model is of the source that is here.

## Inventory

| Part | State | Operations | Interaction | What is hard | Correct when |
|---|---|---|---|---|---|
| Callback registry (`Health.cpp`) | `callbacks_`, `callbacks_lock_` | `registerCallback`, `unregisterCallback`, `serviceDied`, `notifyListeners`, `update` | binder clients, death notifications, the main loop | the lock does not span a handler; clients die at any moment; obituaries are late | nobody is forgotten, unregistering sticks, a notification is complete |
| Wake alarm (`healthd_common.cpp`) | `wakealarm_fd`, `wakealarm_wake_interval`, `awake_poll_interval`, the kernel's timer | `wakealarm_set_interval`, `healthd_battery_update_internal` | written by `update()` in any handler, read by the loop | the belief is stored before the system call, errors are only logged | the alarm or the poll timeout keeps the fast rate |
| Start-up and main loop (`healthd_common.cpp`, `HealthServiceCommon.cpp`) | `eventct`, epoll set, `gBinderFd`, `uevent_fd`, `instance_`, `timeout`, `nevents` | `main` ... `uevent_init`, `healthd_mainloop`, `binder_event`, `wakealarm_event`, `uevent_event` | kernel events, restart by init | each system call may fail, most failures are tolerated; the timeout is read early | no null dereference, due updates happen, calls are answered, it comes back up |
| `IAllocator::allocate` (`Allocator.cpp`) | none between calls | `allocate`, `dumpDebugInfo` | four threads, one device | no lock; reply before the local handles are freed | all or nothing |
| gralloc1 back end (`Gralloc1Hal.h`) | `mDevice`, `mCapabilities`, `mDispatch` | `allocateBuffers`, `createDescriptor`, `allocateOneBuffer`, `freeBuffers`, `initWithModule`, `dumpDebugInfo`, usage conversions | the gralloc1 device | failure in the middle of a call; an uninitialised descriptor | every handle and descriptor has one owner and is given back once |
| gralloc0 back end (`Gralloc0Hal.h`) | `mDevice` | `allocateBuffers`, `freeBuffers`, `dumpDebugInfo` | the gralloc0 device | as above, without descriptors | as above |
| Loader (`GrallocLoader.h`, `service.cpp`) | the device being opened | `main`, `load`, `loadModule`, `createHal`, `createAllocator` | hw_get_module, restart by init | failure after the device was opened | an opened device is used or closed once; a failed load does not spoil the next |
| Getters, storage queries, board stubs (`Health.cpp`, `HealthServiceCommon.cpp`) | none | `getChargeCounter` ... `getHealthInfo`, `debug`, the report of `notifyListeners` | clients, the battery monitor | the same `HealthInfo` is assembled in two places; the monitor may refuse; asking runs `update()` | the two copies agree, asking leaves the alarm alone |
| `img_gralloc1_public.h` | none | constants and prototypes | nobody calls it | | not modelled |

The hazards of this code, each at its line and with the properties that would
catch it, are in `PROJECT.json`.

## Modules

| Module | Models | Role |
|---|---|---|
| `HealthdCommon` | wake alarm, `Health::update` | variables and operators shared by the next four |
| `Health` | callback registry | specification, one action per lock region, system call or callback |
| `HealthLoop` | start-up, loop, handlers, restart | specification of the process |
| `HealthService` | the process with its handlers | composition of `Health` and `HealthLoop`; implements `HealthLoop` |
| `HealthQueries` | getters, storage lists, `getHealthInfo`, `debug` | what clients are answered |
| `AllocatorSpec` | | what `allocate` promises, whichever gralloc is below |
| `AllocatorCalls` | `Allocator::allocate` and what both `allocateBuffers` share | state, steps and properties extended by the next two |
| `Gralloc1Hal` | `allocate` over gralloc1 | specification; implements `AllocatorSpec` |
| `Gralloc0Hal` | `allocate` over gralloc0 | specification; implements `AllocatorSpec` |
| `GrallocDump` | `dumpDebugInfo` of both back ends | specification |
| `GrallocUsage` | `toProducerUsage`, `toConsumerUsage` | the conversions against a reference definition |
| `GrallocLoader` | `main`, `GrallocLoader::load`, both `initWithModule`, restart | specification of the start of the allocator |
| `HealthProofs` | | TLAPS proofs about `Health` and `HealthQueries` |
| `HealthLoopProofs`, `HealthServiceProofs` | | proofs about the loop, and that the service implements it |
| `AllocatorCallsProofs` | | invariance and refinement lemmas, one per step both back ends share |
| `Gralloc1HalProofs`, `Gralloc0HalProofs` | | proofs about the two back ends; the former about `GrallocUsage` too |
| `GrallocDumpProofs`, `GrallocLoaderProofs` | | proofs about dumps and the loader |
| `MC...` | | instances for TLC, one per specification |

An operator whose comment starts with "Mutant:" is a wrong version of the
definition that follows it. No specification uses it; it is there to show that
the property paired with it in `PROJECT.json` can fail.

### Health

A thread of `Thread` runs one handler at a time; `pc[t]` says which step is next, `arg[t]`
holds the callback, `reg[t]` the registration. A handler is cut where another
thread can get in between: at the lock and at calls into binder.

* `registerCallback`: `RegisterCallback` (null check), `RegisterPush` (lock,
  push_back, unlock), `RegisterLink` (linkToDeath, without the lock; error ignored),
  `RunUpdate`.
* `unregisterCallback` and `serviceDied`: entry, then `Erase` (lock, erase every
  equal callback) and `Unlink` (unlinkToDeath, still locked, and return).
* `notifyListeners`: `NotifyLock`, `NotifyCall` for each listener, `NotifyDone`.
* `update`, `getHealthInfo`, `debug` and the loop's chores: `CallUpdate`,
  `RunUpdate`.

`callbacks_` is a set of numbered registrations; the number stands for the position in
the vector (push_back appends, erase keeps the order). Each registration has its
own death link. External: a client dies (`Die`), the driver turns links into
obituaries, `linkToDeath` may be refused, and for a dead client may succeed and
queue an obituary at once. `linkFailed` has the registrations still in the vector whose link was
refused. `healthInfoChanged` is declared `oneway` outside
this repository, so a call into a client does not wait for it. Result codes are
answers to clients and leave no trace.

In this source nothing calls `healthd_mode_ops->battery_update`, so
`notifyListeners` is reached only if the battery-monitor library calls the hook.
The constant `HookCalled` says whether it does: TRUE in `health`, so that the
code is covered, FALSE in `health_delivers` and in `HealthService`. The service
as started here polls binder from its one loop thread; the lock in the code is
for a pool of threads, and `Health` allows any number.

### HealthdCommon

The wake alarm as the service believes it (`wakealarm_wake_interval`) and as
the kernel runs it (`timer`). `phase` flips whenever a `timerfd_settime`
succeeds: setting the interval that is already set leaves `timer` as it is and
starts the period anew, which `phase` makes visible.

### HealthLoop

`pc` is the stage of the process. `Fail(F)` makes the system calls `F` fail in a
step; `MaxFault` bounds them. `Exit` stands for every way the process ends
(exit(2), a failed CHECK, return 3); the state it leaves is that of the static
initialisers, and `Restart` is init starting a service that is not `oneshot`.
`LoopTop` reads the timeout and then runs the chores, in the code's order.
`WaitReturns` gives all ready descriptors as one batch (epoll_wait's maxevents
is the number of registered ones); handlers run one by one while the kernel
goes on. `BinderEvent` serves one or more of the waiting calls, because
handleTransportPoll may take several at once. `due` is a history variable: why an update is owed.

### HealthService

The two specifications above on the one thread of the process. `Loop` is
`HealthLoop` and `Registry` is `Health` with the looper as its only thread;
the module's actions are theirs, joined:

* `OutsideBinder(A)` is a step of the loop in which no handler runs. If it ends
  the process, `Forget` empties the registry, the death links and the obituaries:
  a restarted service knows none of the clients that had registered, and nothing
  in the code tells them.
* `BinderStep` is one step of the handler of the work at the head of the queue;
  when it returns, so does `binder_event`. `work` is the driver's queue, first-in
  first-out, of clients' calls and obituaries. An obituary that unlinkToDeath
  took back after it was queued calls nobody. Registering and unregistering are
  calls of a living client; `update()` and the queries may come from anybody, whether
  registered or not, so calls keep coming when every client is dead.

The refinement mapping of `ImplementsLoop` is the identity on the loop's variables and
`calls <- Len(work)`: a handler that takes four steps is `BinderEvent` when it
returns, an update inside it is the update `BinderEvent` allows, and
the steps before and after are stuttering.

### HealthQueries

`answer` keeps the latest answer to each query, so that answers to different queries
can be compared. The current average is the only value that is not a
constant: `currentAvg` asks the battery monitor for an int64_t, which may fail, and casts
to int32_t. `ToInt32` wraps at `2 * IntHalf` values (16 in the run, with readings
beyond both ends). The code that assembles a `HealthInfo` exists twice, in
`notifyListeners` and in `getHealthInfo` (which `debug` calls too), and so it does here:
`NotifyCurrentAvg` and `NotifyHealthInfo`, `GetCurrentAvg` and
`GetHealthInfoRecord`; `ReportsAgree` compares what they give. `getHealthInfo` runs `Update` first, which is `HealthdCommon`'s.

The getters and the `HealthInfo` do not agree on everything: `getCapacity` answers 1
while `batteryLevel` is 100, `getCurrentNow` answers 1 while `batteryCurrent` is 0,
and `getCurrentAverage` answers 1 whatever the monitor says. Nothing in the
repository says they should, so this is an observation and no property compares
the getters with the `HealthInfo`.

### AllocatorCalls, Gralloc1Hal, Gralloc0Hal and AllocatorSpec

`Allocator::allocate` and the two `allocateBuffers` have the same shape: collect
buffers in a loop, compare strides, on an error free what there is, else reply and
free the local handles. `AllocatorCalls` has these steps and the
properties about buffers; each back end adds its device calls. gralloc0 has no
descriptors (`beyond` says that the request needs layers or usage bits gralloc0 lacks) and
a stride is what `alloc` leaves in an int that was 0 before, 0 included. Over both, a
stride of 0 stands for "undefined" and, in the loop, for "none seen yet": `UniformStride`, the
check the code's comment announces, holds over neither (see the findings), and
`DefinedStridesUniform` is what the comparison does achieve.

For gralloc1: one step per device call. The five set calls of `createDescriptor` are one
step, because the first failure ends the chain and all failures have the same
effect. When the device's createDescriptor fails, the code destroys an uninitialised local:
`CreateDescriptor` destroys nothing or any descriptor that exists, and sets
`ub`. The device returns only the errors `hardware/gralloc1.h` lists for a
call; a failed release leaves the buffer (`leaked`). Under the refinement mapping `AllOrNothing`,
a call is "granted" once `hidl_cb(NONE, ...)` has been called.

### GrallocDump

The device's text is a version and a length; `Change` lets it change between the
two calls of the gralloc1 back end. The device is trusted, as
`hardware/gralloc1.h` says, to write at most the size it is given, and may write either its text
of the moment or the one it stored at the latest question for the size, which
may be another thread's question. `RoomFor` is `len + 1` in uint32_t arithmetic, and
the length may be any uint32_t. For 2^32 - 1 the vector is empty; its `data()` is
null with the platform's libc++, so the second `dump` is another question for the size
(`AskAgain`): nothing is written, the dump is empty, and if the answer is 2^32 - 1
again the terminator is written outside the buffer. What happens after that is undefined;
the model goes on with the call. `DumpInBounds` and `DumpFaithful` name this length as
their only exception. No document of the repository speaks of it, so it is an
observation and no finding.

### GrallocUsage

A word is the set of its bits, so `& ~mask` is set difference and `|` is union. The
encodings are those of the external headers. `Asked` reads a `BufferUsage` and
`Told` reads the two gralloc1 words bit by bit, each access in the word it belongs to
and not in the other; `AccessesKept` says that they agree. What becomes of the
private bits is no part of it: comments in both conversions call their passing
through "potentially broken". The chain of two set calls ends, so the run has `CHECK_DEADLOCK FALSE`.

### GrallocLoader

`load` is one thread from `main` to the Allocator; one action per step that can
fail, `Fault` counting failures. `open` counts what the kernel sees, `mDevice` what the back end
believes; `DestroyHal` is the unique_ptr going out of scope and the destructor
that runs then. `InitDispatch` takes any subset of the functions for what the
device offers and stops at the first that is missing. Without an Allocator
`main` returns an error and `Restart` is init starting the service
again; a module of unknown version makes that go on for ever. "loaded" is final, so the
run has `CHECK_DEADLOCK FALSE`.

## Runs

| Run | Bounds | Shows |
|---|---|---|
| `health` | 2 threads, 2 clients, 2 registrations | `TypeOK`, `EveryEntryWatched`, `UnregisterSticks`, `NotifyReachesAll`, `IteratorStaysValid`, `DeadDropped`, `HandlersReturn` |
| `health_delivers` | 2 threads, 2 clients, 2 registrations | finding: `update()` notifies nobody |
| `loop` | 3 failures, 2 queued uevents, 1 call | `TypeOK`, `SingletonReady`, `TimeoutFitsAlarm`, `UpdateHappens`, `CallsAnswered`, `ComesUp` |
| `loop_rate` | 1 failure | finding: no polling without an alarm |
| `service` | 1 failure, 1 client, 1 registration per process, 1 queued uevent, 1 queued call beside the obituary, callers without end | `LockFreeBetweenEvents`, `ImplementsLoop`, `DeadDropped`, `UpdateNotStarved` |
| `queries` | every query, 3 readings and a refusal, int32_t of 4 bits | `QueriesTypeOK`, `ReportsAgree`, `QueriesKeepAlarm` |
| `gralloc1` | 2 threads, 2 descriptors, 2 handles for 2+2 wanted, 1 stride or none | `TypeOK`, `HandlesOwned`, `NoBufferLeak`, `DescriptorsOwned`, `DefinedStridesUniform`, `AllOrNothing`, `CallsReturn` |
| `gralloc1_stride` | 1 thread | finding: stride 0 counts as unset |
| `gralloc0` | 2 threads, 3 handles for 2+2 wanted, 2 strides or none | `HandlesOwned`, `NoBufferLeak`, `DefinedStridesUniform`, `AllOrNothing`, `CallsReturn` |
| `dump` | 2 threads, texts of 0 to 3 bytes, a size type of 4 values, 2 changes, fixed buffer of 2 bytes, symmetry | `DumpInBounds`, `DumpFaithful` |
| `usage` | all 256 values of the CPU fields, the two flags, one other bit | `AccessesKept` |
| `loader` | 2 failures, 8 versions around the cases of the switch, every set of functions | `TypeOK`, `DeviceClosedOnce`, `DispatchComplete`, `ServiceLoads` |

Why the bounds are enough to be interesting: two threads are all it takes to interleave
two handlers, and every race here is between two; two registrations are a
duplicate registration or one of each client, and the safety properties of `Health` are
proved for any number; three failures let all three event sources fail at once;
a socket of two uevents can be full while one is being handled; in `service`
one failure is enough to end the process, and the next one takes a registration again; two
handles make two calls compete, so that each can run out after its first buffer.
In `dump` the longest text does not fit the fixed buffer and its size wraps to 0. In
`service` the one client dies while others keep calling: its obituary waits behind calls that
never stop, and a queue that let calls pass it would starve it.

`loop` says `CHECK_DEADLOCK FALSE`: a service whose alarm could not be armed and
whose other sources are lost does wait for ever.

### Fairness

* `Health`: strong fairness of each thread's next step, because steps that need the mutex
  are enabled only while it is free and the operating system does not starve a
  waiter; strong fairness of the delivery of some obituary, because threads keep
  becoming idle and take the driver's work. Clients need do nothing.
* `HealthLoop`: weak fairness of the process and of init, restricted to steps in which
  no system call fails; weak fairness of an armed timer. Events need not arrive.
* `HealthService`: weak fairness only: of the looper and init, in steps without a
  failure, of an armed timer, and of the driver's queueing an obituary. That
  the mutex is free and that an obituary has its turn follow from the one
  thread and the queue.
* `Gralloc1Hal`, `Gralloc0Hal`: weak fairness of each thread: device calls return.
* `GrallocLoader`: weak fairness of the steps in which nothing fails.

### Findings

1. `Health::update()` says that it calls `battery_update`, which calls
   `notifyListeners`; it does not (`health_delivers`).
2. "During awake periods poll at fast rate" fails when the alarm could not be created,
   registered or armed: the service believes it is armed and waits without
   end (`loop_rate`).
3. Buffers with an undefined stride and buffers with a stride are accepted as
   uniform, because 0 doubles as "none seen yet" (`gralloc1_stride`). The gralloc0
   back end has the same comparison, and `alloc` may leave the stride at 0: `UniformStride`
   as an invariant of `MCGralloc0Hal` is violated in the same way.

## Proofs

Every invariant and action property that a passing run checks, and both refinements, are
theorems: they hold for every value of the constants that satisfies the named
assumptions. Each proof has an inductive invariant `Inv`, a lemma that every
step of the specification keeps it, and a theorem `Invariance`; the properties
follow.

| Theorem | States | About |
|---|---|---|
| `HealthProofs!TypeCorrect`, `EntriesStayWatched`, `UnregisterIsFinal`, `NotifyIsComplete`, `IteratorSafe` | `TypeOK`, `EveryEntryWatched`, `UnregisterSticks`, `NotifyReachesAll`, `IteratorStaysValid` | any numbers of threads, clients, registrations |
| `HealthProofs!QueriesTypeCorrect`, `ReportsAlwaysAgree`, `QueriesLeaveAlarm` | `QueriesTypeOK`, `ReportsAgree`, `QueriesKeepAlarm` | any width of the integer, any readings |
| `HealthLoopProofs!TypeCorrect`, `SingletonAlwaysReady`, `TimeoutAlwaysFits` | `TypeOK`, `SingletonReady`, `TimeoutFitsAlarm` | any number of failures, uevents, calls |
| `HealthServiceProofs!LockAlwaysFree`, `ServiceImplementsLoop` | `LockFreeBetweenEvents`, `ImplementsLoop` | any number of clients, calls, registrations, restarts |
| `Gralloc1HalProofs!TypeCorrect`, `HandlesAlwaysOwned`, `BuffersNeverLeak`, `DescriptorsAlwaysOwned`, `StridesAlwaysFit`, `KeepsPromise` | `TypeOK`, `HandlesOwned`, `NoBufferLeak`, `DescriptorsOwned`, `DefinedStridesUniform`, `AllOrNothing` | any number of threads, handles, descriptors, buffers per call |
| `Gralloc1HalProofs!AccessesAlwaysKept` | `AccessesKept` | every usage word |
| `Gralloc0HalProofs!HandlesAlwaysOwned`, `BuffersNeverLeak`, `StridesAlwaysFit`, `KeepsPromise` | `HandlesOwned`, `NoBufferLeak`, `DefinedStridesUniform`, `AllOrNothing` | any number of threads, handles, strides, buffers per call |
| `GrallocDumpProofs!DumpStaysInBounds`, `DumpAlwaysFaithful` | `DumpInBounds`, `DumpFaithful` | any lengths that a uint32_t can tell, any number of concurrent dumps |
| `GrallocLoaderProofs!TypeCorrect`, `ClosedOnce`, `NoNullFunction` | `TypeOK`, `DeviceClosedOnce`, `DispatchComplete` | any set of versions, any number of failures |

### The arguments

**`Health`** (from `IntervalAssumption`, `HealthAssumption`). `Inv` adds to the
properties what they rest on: `LockHeld` (a thread is at a locked step exactly
when it holds the mutex), `ArgsMatch` (a handler works for a real callback, and
for the callback of its registration), `ErasedBeforeUnlink` (when unlinkToDeath
runs no registration of the callback is left, so it cannot take a link somebody
still needs), `GoneMeansGone` (an unregistered client has no push_back on its
way) and `Numbered` (no two registrations share a position). Without the first,
nothing stops another thread between `Erase` and `Unlink`; without the last, the
iterator could pass a registration it never called.

**`HealthQueries`** (from `IntervalAssumption`, `QueriesAssumption`; in `HealthProofs`,
which extends both modules). `CopiesAgree` shows that the two copies assemble the
same record from the same reading. `QueriesInv` says that every answer given is one
the code assembles, that a report made since the monitor last changed has the reading there is, and that the alarm is at the fast rate:
the last is why an `update()` inside `getHealthInfo` changes nothing. The width
of an int32_t is given by `IntHalf`, half the number of its values, because the prover
has no facts about exponentiation.

**`HealthLoop`.** For the two safety properties `Inv` is `StartedUp` (what each stage of
the start-up can rely on) and `AlarmRuns` (the believed interval is the fast
one throughout, and a registered alarm that could be set runs at it), without an
assumption on the constants. The second is what makes the early read of the timeout
harmless: `UpdateKeepsAlarm` shows that update() never changes the alarm while
the charger is online. The type invariant (from `LoopAssumption`, `IntervalAssumption`) is not
inductive alone: `EventsCounted` (eventct is the cardinality of the epoll set, and each
source is registered at its own stage) bounds `eventct` and `nevents` by three, and
`UeventWaits` (an event of the socket finds a message) keeps `Tail` from an
empty socket.

**`HealthService`** (from `ServiceAssumption`). `HandlerInv`: a handler is half done
only inside `binder_event`, and the mutex is held exactly in its critical
sections. `QueueInv`: what the queue holds, that no obituary is queued twice and that an
event of the binder descriptor finds work. `NumbersInv`: registrations, also those whose
obituary is queued and which are already erased, have different numbers below
`nextReg`, and there are none unless the service is published. The refinement needs all
three. When a handler returns, the step is `BinderEvent`; the steps before it leave the
alarm alone, because only `RunUpdate` writes it and it returns. When work arrives, the
step must be a `BinderArrive` within the bound of the loop's driver: the number
of obituaries is bounded by an injection into the numbers (`QueueBounded`).
The step that ends a process takes the queue with it, so the next process
starts with distinct numbers again.

**The allocator.** `CallsInv` (from `CallsAssumption`) is the types, `HandlesOwned`,
`NoBufferLeak`, `StridesCollected` (while a call collects, every buffer fits the stride
collected so far, in the sense of `StrideFits`) and `Staged`: `tmpBuffer` is a handle exactly between alloc and
push_back, nothing is collected before the loop, no error is set while a call goes on, and a call
that goes to its reply has all its buffers. Without the first part a buffer could
be counted twice or lost at push_back; the last is what makes `Reply` grant
everything. Both back ends share one lemma per step and add their own: gralloc1
`DescriptorsOwned`, which is inductive with the types, gralloc0 nothing. For `AllOrNothing` each step is mapped to a step of
`AllocatorSpec` or to none; `PhaseStep` and `HeldStep` say how the mapped
phase and the number of held buffers change.

**`GrallocDump`** (from `DumpAssumption`). `Sized` has the size of the buffer at each
stage, `TextOrder` that the device's stored text is never newer than its text
and equals it if the version does, `Fresh` that a length asked for after the call began is not
older than the call. `RoomForFits` splits on the one length that wraps: it is the only case in
which the buffer is empty when the text is asked for. `Fresh` makes the race harmless in which another thread's
question replaces the stored text between the two calls of this one.

**`GrallocUsage`** (in `Gralloc1HalProofs`; no assumption is needed). `FieldValues` says which values the CPU
fields have, `ReadBits` and `WriteBits` what the conversion makes of each.

**`GrallocLoader`** (from `LoaderAssumption`). `Inv` is the type invariant,
`DeviceTracked` (mDevice is set exactly while the device is open, with the
stages at which it is) and `DispatchReady`. It holds across restarts because
`DestroyHal` leaves nothing behind.

### Only model-checked

Liveness (`DeadDropped` of both modules, `HandlersReturn`, `UpdateHappens`, `CallsAnswered`,
`ComesUp`, `UpdateNotStarved`, `CallsReturn`, `ServiceLoads`): fairness and
`ENABLED` are out of the prover's reach. The refinements are proved for `Spec`, the
safety part; `AllocatorSpec` and `HealthLoop!Spec` promise no more. The findings are
counterexamples and need a run, not a proof.

## Plan

The system's operations are modelled and its safety properties proved. What a next
step could add:

1. The safety part of the liveness arguments as theorems: what a step towards the
   goal never undoes (an obituary of a registration in the vector stays in the
   driver until it is served; a due update stays due until an update runs).
2. The properties proved of `HealthLoop` and of `Health`, stated of `HealthService`
   where its restarts allow it.

## Not modelled

`img_gralloc1_public.h` (constants, types and prototypes that no code here
calls), the configuration (make files, overlays, manifests, init scripts, SELinux
policy), the wording of dumps and logging. The suspend behaviour of the wake alarm
is the kernel's.
