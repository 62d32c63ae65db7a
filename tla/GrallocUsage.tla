---------------------------- MODULE GrallocUsage ----------------------------
(***************************************************************************)
(* toProducerUsage and toConsumerUsage (hals/allocator/Gralloc1Hal.h), and *)
(* the last two set calls of createDescriptor, which tell a gralloc1       *)
(* device what a buffer is for.  A BufferUsage word becomes two words with *)
(* another encoding of the CPU accesses.                                   *)
(*                                                                         *)
(* A 64-bit word is the set of the bits that are set, so that & ~mask is \ *)
(* and | is \cup.  The encodings are external: BufferUsage of              *)
(* graphics.common 1.2 and the usages of hardware/gralloc1.h.              *)
(***************************************************************************)
EXTENDS Naturals

CONSTANT Bit   \* bits a usage may have

ASSUME BitAssumption == Bit \subseteq 0..63

\* BufferUsage: the CPU accesses are two fields of four bits.
CPU_READ_MASK      == 0..3
CPU_READ_RARELY    == {1}
CPU_READ_OFTEN     == {0, 1}
CPU_WRITE_MASK     == 4..7
CPU_WRITE_RARELY   == {5}
CPU_WRITE_OFTEN    == {4, 5}
SENSOR_DIRECT_DATA == {23}
GPU_DATA_BUFFER    == {24}

\* gralloc1: each CPU access is a bit, and "often" is one more.  Producer and
\* consumer agree on the bits of a read.
USAGE_CPU_READ        == {1}
USAGE_CPU_READ_OFTEN  == {1, 2}
USAGE_CPU_WRITE       == {5}
USAGE_CPU_WRITE_OFTEN == {5, 6}

VARIABLES
  setCall,   \* the next set call of createDescriptor
  usage,     \* descriptorInfo.usage
  producer,  \* external: the device's producer usage of the descriptor
  consumer   \* external: the device's consumer usage of the descriptor

usageVars == <<setCall, usage, producer, consumer>>

UsageInit ==
  /\ setCall = "setProducerUsage"
  /\ usage \in SUBSET Bit
  /\ producer = {} /\ consumer = {}

-----------------------------------------------------------------------------
\* The switch over the read field.
ReadUsage(u) ==
  CASE u \cap CPU_READ_MASK = CPU_READ_RARELY -> USAGE_CPU_READ
    [] u \cap CPU_READ_MASK = CPU_READ_OFTEN  -> USAGE_CPU_READ_OFTEN
    [] OTHER -> {}

\* The switch over the write field.
WriteUsage(u) ==
  CASE u \cap CPU_WRITE_MASK = CPU_WRITE_RARELY -> USAGE_CPU_WRITE
    [] u \cap CPU_WRITE_MASK = CPU_WRITE_OFTEN  -> USAGE_CPU_WRITE_OFTEN
    [] OTHER -> {}

ToProducerUsage(u) ==
  (u \ (CPU_READ_MASK \cup CPU_WRITE_MASK \cup GPU_DATA_BUFFER))
    \cup WriteUsage(u) \cup ReadUsage(u)

\* Mutant: GPU_DATA_BUFFER is filtered out and not put back.
ToConsumerUsageNoGpuData(u) ==
  (u \ (CPU_READ_MASK \cup CPU_WRITE_MASK \cup SENSOR_DIRECT_DATA \cup GPU_DATA_BUFFER))
    \cup ReadUsage(u)

ToConsumerUsage(u) ==
  (u \ (CPU_READ_MASK \cup CPU_WRITE_MASK \cup SENSOR_DIRECT_DATA \cup GPU_DATA_BUFFER))
    \cup ReadUsage(u)
    \cup (IF u \cap GPU_DATA_BUFFER # {} THEN GPU_DATA_BUFFER ELSE {})

\* mDispatch.setProducerUsage, when it succeeds; a failure ends the chain.
SetProducerUsage ==
  /\ setCall = "setProducerUsage"
  /\ producer' = ToProducerUsage(usage)
  /\ setCall' = "setConsumerUsage"
  /\ UNCHANGED <<usage, consumer>>

\* mDispatch.setConsumerUsage
SetConsumerUsage ==
  /\ setCall = "setConsumerUsage"
  /\ consumer' = ToConsumerUsage(usage)
  /\ setCall' = "ready"
  /\ UNCHANGED <<usage, producer>>

UsageNext == SetProducerUsage \/ SetConsumerUsage

UsageSpec == UsageInit /\ [][UsageNext]_usageVars

-----------------------------------------------------------------------------
(***************************************************************************)
(* The reference: what a word asks for, in either encoding.                *)
(***************************************************************************)
Access == {"read", "readOften", "write", "writeOften", "sensor", "gpuData"}

\* What a BufferUsage asks for; the other values of the fields are reserved.
Asked(u) ==
  [a \in Access |->
     CASE a = "read"       -> u \cap CPU_READ_MASK \in {CPU_READ_RARELY, CPU_READ_OFTEN}
       [] a = "readOften"  -> u \cap CPU_READ_MASK = CPU_READ_OFTEN
       [] a = "write"      -> u \cap CPU_WRITE_MASK \in {CPU_WRITE_RARELY, CPU_WRITE_OFTEN}
       [] a = "writeOften" -> u \cap CPU_WRITE_MASK = CPU_WRITE_OFTEN
       [] a = "sensor"     -> SENSOR_DIRECT_DATA \subseteq u
       [] a = "gpuData"    -> GPU_DATA_BUFFER \subseteq u]

\* What a device with producer usage p and consumer usage c is told, by single
\* bits: reads are of both sides, writes and sensor data of the producer alone,
\* GPU data of the consumer alone.
Told(p, c) ==
  [a \in Access |->
     CASE a = "read"       -> 1 \in p \cap c
       [] a = "readOften"  -> 2 \in p \cap c
       [] a = "write"      -> 5 \in p \ c
       [] a = "writeOften" -> 6 \in p \ c
       [] a = "sensor"     -> 23 \in p \ c
       [] a = "gpuData"    -> 24 \in c \ p]

(***************************************************************************)
(* toProducerUsage and toConsumerUsage lose no access the caller asked for *)
(* and invent none, for all sixteen values of both CPU fields, and neither *)
(* side is told of an access that is the other's alone.                    *)
(***************************************************************************)
AccessesKept == setCall = "ready" => Told(producer, consumer) = Asked(usage)
==============================================================================
