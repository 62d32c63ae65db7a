-------------------------- MODULE GrallocDumpProofs --------------------------
(***************************************************************************)
(* dumpDebugInfo, for any number of threads, texts of any length that a    *)
(* uint32_t can tell and any number of changes of the device's text: the   *)
(* terminator of a text of 2^32 - 1 bytes is the only write that leaves    *)
(* the buffer, and a dump is the text of its own call.                     *)
(***************************************************************************)
EXTENDS GrallocDump, TLAPS

\* The types of the state.
DumpTypeOK ==
  /\ hal \in {"gralloc0", "gralloc1"}
  /\ hasDump \in BOOLEAN
  /\ pc \in [Thread -> {"idle", "size", "text", "reply"}]
  /\ len \in [Thread -> 0..MaxLen]
  /\ size \in [Thread -> Nat]
  /\ buf \in [Thread -> [version : Int, len : Nat]]
  /\ nul \in [Thread -> Int]
  /\ began \in [Thread -> 0..MaxVersion]
  /\ text \in Text /\ stored \in Text

(***************************************************************************)
(* The device's texts: the stored one is not newer than the one of the     *)
(* moment, and it is that one if it has its version.                       *)
(***************************************************************************)
TextOrder ==
  /\ stored.version <= text.version
  /\ stored.version = text.version => stored = text

\* The size of the buffer and the place of the terminator at each stage.
Sized(t) ==
  /\ pc[t] = "size" => hal = "gralloc1"
  /\ pc[t] # "reply" => nul[t] = -1
  /\ pc[t] \in {"idle", "size"} => len[t] = 0
  /\ pc[t] = "text" => size[t] = IF hal = "gralloc1" THEN RoomFor(len[t]) ELSE BufSize
  /\ pc[t] = "text" /\ hal = "gralloc0" => len[t] = 0
  /\ nul[t] < size[t] \/ (hal = "gralloc1" /\ Wraps(nul[t]))

\* The version and the length a call has asked for are not older than the call.
Fresh(t) ==
  /\ pc[t] # "idle" => began[t] <= text.version
  /\ pc[t] = "text" /\ hal = "gralloc1" =>
       /\ began[t] <= stored.version
       /\ text.version = began[t] => len[t] = text.len

\* What DumpFaithful says of one call.
Faithful(t) ==
  (pc[t] = "reply" /\ nul[t] # -1) =>
    /\ buf[t].version >= began[t]
    /\ text.version = began[t] /\ ~(hal = "gralloc1" /\ Wraps(text.len)) =>
         Least(buf[t].len, nul[t]) =
           IF hal = "gralloc1" THEN text.len ELSE Least(text.len, BufSize - 1)

\* The inductive invariant.
CallInv(t) == Sized(t) /\ Fresh(t) /\ Faithful(t)
Inv == DumpTypeOK /\ TextOrder /\ \A t \in Thread : CallInv(t)

\* There is room for a text and its terminator unless len + 1 wraps around.
LEMMA RoomForFits ==
  ASSUME NEW n \in 0..MaxLen
  PROVE  RoomFor(n) \in Nat /\ RoomFor(n) = (IF Wraps(n) THEN 0 ELSE n + 1)
<1>1. CASE n = SizeRange - 1
  <2>1. (n + 1) % SizeRange = 0
    BY <1>1, DumpAssumption
  <2> QED BY <2>1 DEF RoomFor, Wraps
<1>2. CASE n # SizeRange - 1
  <2>1. (n + 1) % SizeRange = n + 1 /\ n + 1 # 0
    BY <1>2, DumpAssumption
  <2> QED BY <2>1 DEF RoomFor, Wraps
<1> QED BY <1>1, <1>2

\* The lesser of two lengths.
LEMMA LeastFacts ==
  ASSUME NEW m \in Int, NEW n \in Int
  PROVE  /\ Least(m, n) \in {m, n} /\ Least(m, n) <= m /\ Least(m, n) <= n
         /\ m <= n => Least(m, n) = m
BY DEF Least

-----------------------------------------------------------------------------
(***************************************************************************)
(* The steps                                                               *)
(***************************************************************************)

\* The initial states satisfy the invariant.
LEMMA InitInv == Init => Inv
<1> SUFFICES ASSUME Init PROVE Inv
  OBVIOUS
<1> USE DEF Init
<1>1. DumpTypeOK
  BY DumpAssumption DEF DumpTypeOK, Text, Empty
<1>2. TextOrder
  BY DEF TextOrder, Text
<1>3. \A t \in Thread : CallInv(t)
  <2> TAKE t \in Thread
  <2>1. pc[t] = "idle" /\ nul[t] = -1 /\ size[t] = 0 /\ len[t] = 0
    OBVIOUS
  <2> QED BY <2>1 DEF CallInv, Sized, Fresh, Faithful
<1> QED BY <1>1, <1>2, <1>3 DEF Inv

\* A call that a step of another thread does not touch keeps what is said of it,
\* also when that thread asks for the size.
LEMMA OthersKept ==
  ASSUME Inv, NEW u \in Thread, UNCHANGED <<hal, text>>,
         pc'[u] = pc[u], len'[u] = len[u], size'[u] = size[u], buf'[u] = buf[u],
         nul'[u] = nul[u], began'[u] = began[u],
         stored' \in {stored, text}
  PROVE  CallInv(u)'
<1>1. CallInv(u) /\ stored.version <= text.version
  BY DEF Inv, TextOrder
<1>2. Sized(u)'
  BY <1>1 DEF CallInv, Sized
<1>3. Fresh(u)'
  BY <1>1 DEF CallInv, Fresh, Inv, DumpTypeOK, Text
<1>4. Faithful(u)'
  BY <1>1 DEF CallInv, Faithful
<1> QED BY <1>2, <1>3, <1>4 DEF CallInv

\* The back end starts.
LEMMA CallStepInv ==
  ASSUME Inv, NEW t \in Thread, Call(t)
  PROVE  Inv'
<1> USE DEF Call
<1>1. DumpTypeOK'
  BY DumpAssumption DEF Inv, DumpTypeOK, Text
<1>2. TextOrder'
  BY DEF Inv, TextOrder
<1>3. CallInv(t)'
  <2>1. nul'[t] = -1 /\ len'[t] = 0 /\ hal' = hal /\ text' = text
    BY DEF Inv, CallInv, Sized
  <2>2. /\ pc'[t] = IF hal = "gralloc1" THEN "size" ELSE "text"
        /\ size'[t] = IF hal = "gralloc1" THEN 0 ELSE BufSize
        /\ began'[t] = text.version /\ text.version \in Int
        /\ hal \in {"gralloc0", "gralloc1"}
    BY DEF Inv, DumpTypeOK, Text
  <2>3. Sized(t)'
    BY <2>1, <2>2, DumpAssumption DEF Sized
  <2>4. Fresh(t)' /\ Faithful(t)'
    BY <2>1, <2>2 DEF Fresh, Faithful
  <2> QED BY <2>3, <2>4 DEF CallInv
<1>4. \A u \in Thread \ {t} : CallInv(u)'
  BY OthersKept DEF Inv, DumpTypeOK
<1> QED BY <1>1, <1>2, <1>3, <1>4 DEF Inv

\* The device is asked for the size; a buffer with one byte more is made.
LEMMA AskSizeInv ==
  ASSUME Inv, NEW t \in Thread, AskSize(t)
  PROVE  Inv'
<1> USE DEF AskSize
<1>1. text.len \in 0..MaxLen /\ RoomFor(text.len) \in Nat
  BY RoomForFits DEF Inv, DumpTypeOK, Text
<1>2. DumpTypeOK'
  BY <1>1, DumpAssumption DEF Inv, DumpTypeOK
<1>3. TextOrder'
  BY DEF Inv, DumpTypeOK, Text, TextOrder
<1>4. CallInv(t)'
  <2>1. /\ pc'[t] = "text" /\ len'[t] = text.len /\ size'[t] = RoomFor(text.len)
        /\ nul'[t] = -1 /\ began'[t] = began[t] /\ hal = "gralloc1"
    BY <1>1 DEF Inv, DumpTypeOK, CallInv, Sized
  <2>2. began[t] <= text.version
    BY DEF Inv, CallInv, Fresh
  <2> QED BY <1>1, <2>1, <2>2, DumpAssumption DEF CallInv, Sized, Fresh, Faithful
<1>5. \A u \in Thread \ {t} : CallInv(u)'
  BY OthersKept DEF Inv, DumpTypeOK
<1> QED BY <1>2, <1>3, <1>4, <1>5 DEF Inv

\* The device writes the text of the moment or the one it stored.
LEMMA AskTextInv ==
  ASSUME Inv, NEW t \in Thread, AskText(t)
  PROVE  Inv'
<1> DEFINE n(x) == Least(x.len, len[t])
<1>1. PICK x \in {text, stored} :
        UNCHANGED stored /\ len' = [len EXCEPT ![t] = n(x)] /\ Written(t, x, n(x), n(x), RoomFor(n(x)))
  BY DEF AskText
<1>2. pc[t] = "text" /\ hal = "gralloc1"
  BY DEF AskText
<1>3. x \in Text /\ x.len \in 0..MaxLen /\ len[t] \in 0..MaxLen /\ n(x) \in 0..MaxLen
  BY LeastFacts, DumpAssumption DEF Inv, DumpTypeOK, Text
<1>4. RoomFor(n(x)) \in Nat /\ (n(x) < RoomFor(n(x)) \/ Wraps(n(x)))
  BY <1>3, RoomForFits
<1> HIDE DEF n
<1> USE DEF Written
<1>5. DumpTypeOK'
  BY <1>1, <1>3, <1>4, DumpAssumption DEF Inv, DumpTypeOK, Text
<1>6. TextOrder'
  BY <1>1 DEF Inv, TextOrder
<1>7. /\ pc'[t] = "reply" /\ nul'[t] = n(x) /\ size'[t] = RoomFor(n(x))
      /\ buf'[t].version = x.version /\ buf'[t].len = n(x) /\ UNCHANGED <<hal, text, began>>
  BY <1>1, <1>4 DEF Inv, DumpTypeOK
<1>8. CallInv(t)'
  <2>1. Sized(t)' /\ Fresh(t)'
    BY <1>2, <1>3, <1>4, <1>7, DumpAssumption DEF Inv, CallInv, Sized, Fresh
  <2>2. x.version >= began[t]
    BY <1>2 DEF Inv, CallInv, Fresh, DumpTypeOK, Text
  <2>3. ASSUME text.version = began[t] PROVE n(x) = text.len
    <3>1. stored.version = text.version
      <4>1. began[t] <= stored.version /\ stored.version <= text.version
        BY <1>2 DEF Inv, CallInv, Fresh, TextOrder
      <4>2. stored.version \in Int /\ text.version \in Int
        BY DEF Inv, DumpTypeOK, Text
      <4> QED BY <2>3, <4>1, <4>2
    <3>2. x = text /\ len[t] = text.len
      BY <1>2, <2>3, <3>1 DEF Inv, CallInv, Fresh, TextOrder
    <3> QED BY <1>3, <3>2, LeastFacts DEF n
  <2>4. Least(n(x), n(x)) = n(x)
    BY DEF Least
  <2>5. Faithful(t)'
    BY <1>2, <1>7, <2>2, <2>3, <2>4 DEF Faithful
  <2> QED BY <2>1, <2>5 DEF CallInv
<1>9. \A u \in Thread \ {t} : CallInv(u)'
  BY <1>1, OthersKept DEF Inv, DumpTypeOK
<1> QED BY <1>5, <1>6, <1>8, <1>9 DEF Inv

\* The device is asked for the size again, because the first one wrapped around.
LEMMA AskAgainInv ==
  ASSUME Inv, NEW t \in Thread, AskAgain(t)
  PROVE  Inv'
<1> USE DEF AskAgain, Written
<1>1. pc[t] = "text" /\ hal = "gralloc1" /\ Wraps(len[t])
  BY DEF Inv, CallInv, Sized, Wraps
<1>2. /\ text \in Text /\ text.len \in 0..MaxLen /\ RoomFor(text.len) \in Nat
      /\ text.len < RoomFor(text.len) \/ Wraps(text.len)
  BY RoomForFits DEF Inv, DumpTypeOK, Text
<1>3. DumpTypeOK'
  BY <1>2, DumpAssumption DEF Inv, DumpTypeOK, Text
<1>4. TextOrder'
  BY <1>2 DEF Inv, TextOrder, Text
<1>5. /\ pc'[t] = "reply" /\ nul'[t] = text.len /\ size'[t] = RoomFor(text.len)
      /\ buf'[t].version = text.version /\ UNCHANGED <<hal, text, began>>
  BY DEF Inv, DumpTypeOK
<1>6. CallInv(t)'
  <2>1. Sized(t)' /\ Fresh(t)'
    BY <1>1, <1>2, <1>5 DEF Inv, CallInv, Sized, Fresh
  <2>2. text.version >= began[t]
    BY <1>1 DEF Inv, CallInv, Fresh, DumpTypeOK, Text
  <2>3. text.version = began[t] => Wraps(text.len)
    BY <1>1 DEF Inv, CallInv, Fresh
  <2>4. Faithful(t)'
    BY <1>1, <1>5, <2>2, <2>3 DEF Faithful, Wraps, RoomFor
  <2> QED BY <2>1, <2>4 DEF CallInv
<1>7. \A u \in Thread \ {t} : CallInv(u)'
  BY OthersKept DEF Inv, DumpTypeOK
<1> QED BY <1>3, <1>4, <1>6, <1>7 DEF Inv

\* gralloc0 fills the fixed buffer, and the terminator overwrites its last byte.
LEMMA FillBufferInv ==
  ASSUME Inv, NEW t \in Thread, FillBuffer(t)
  PROVE  Inv'
<1> USE DEF FillBuffer, Written
<1>1. /\ pc[t] = "text" /\ hal = "gralloc0" /\ size[t] = BufSize
      /\ text.len \in 0..MaxLen /\ Least(text.len, BufSize) \in Nat
  BY LeastFacts, DumpAssumption DEF Inv, CallInv, Sized, DumpTypeOK, Text
<1>2. DumpTypeOK'
  BY <1>1, DumpAssumption DEF Inv, DumpTypeOK, Text
<1>3. TextOrder'
  BY DEF Inv, TextOrder
<1>4. /\ pc'[t] = "reply" /\ nul'[t] = BufSize - 1 /\ size'[t] = BufSize
      /\ buf'[t].version = text.version /\ buf'[t].len = Least(text.len, BufSize)
      /\ UNCHANGED <<hal, text, began>>
  BY <1>1 DEF Inv, DumpTypeOK
<1>5. CallInv(t)'
  <2>1. Sized(t)' /\ Fresh(t)'
    BY <1>1, <1>4, DumpAssumption DEF Inv, CallInv, Sized, Fresh
  <2>2. text.version >= began[t]
    BY <1>1 DEF Inv, CallInv, Fresh, DumpTypeOK, Text
  <2>3. Least(Least(text.len, BufSize), BufSize - 1) = Least(text.len, BufSize - 1)
    BY <1>1, DumpAssumption DEF Least
  <2>4. Faithful(t)'
    BY <1>1, <1>4, <2>2, <2>3 DEF Faithful
  <2> QED BY <2>1, <2>4 DEF CallInv
<1>6. \A u \in Thread \ {t} : CallInv(u)'
  BY OthersKept DEF Inv, DumpTypeOK
<1> QED BY <1>2, <1>3, <1>5, <1>6 DEF Inv

\* A device without dump, and the reply.
LEMMA ReplyInv ==
  ASSUME Inv, NEW t \in Thread, NoDump(t) \/ Reply(t)
  PROVE  Inv'
<1> USE DEF NoDump, Reply
<1>1. DumpTypeOK'
  <2>1. CASE NoDump(t)
    BY <2>1 DEF Inv, DumpTypeOK
  <2>2. CASE Reply(t)
    <3>1. buf' \in [Thread -> [version : Int, len : Nat]]
      BY <2>2 DEF Inv, DumpTypeOK, Empty
    <3>2. len' \in [Thread -> 0..MaxLen] /\ began' \in [Thread -> 0..MaxVersion]
      BY <2>2, DumpAssumption DEF Inv, DumpTypeOK
    <3>3. size' \in [Thread -> Nat] /\ nul' \in [Thread -> Int]
      BY <2>2 DEF Inv, DumpTypeOK
    <3> QED BY <2>2, <3>1, <3>2, <3>3 DEF Inv, DumpTypeOK
  <2> QED BY <2>1, <2>2
<1>2. TextOrder'
  BY DEF Inv, TextOrder
<1>3. CallInv(t)'
  <2>1. CASE NoDump(t)
    BY <2>1 DEF Inv, DumpTypeOK, CallInv, Sized, Fresh, Faithful
  <2>2. CASE Reply(t)
    BY <2>2 DEF Inv, DumpTypeOK, CallInv, Sized, Fresh, Faithful
  <2> QED BY <2>1, <2>2
<1>4. \A u \in Thread \ {t} : CallInv(u)'
  BY OthersKept DEF Inv, DumpTypeOK
<1> QED BY <1>1, <1>2, <1>3, <1>4 DEF Inv

\* The device's text changes: no call that has begun is owed the new one.
LEMMA ChangeInv ==
  ASSUME Inv, Change
  PROVE  Inv'
<1> USE DEF Change, callVars
<1>1. text'.version = text.version + 1 /\ text' \in Text /\ text.version \in Int
  BY DumpAssumption DEF Inv, DumpTypeOK, Text
<1>2. DumpTypeOK'
  BY <1>1 DEF Inv, DumpTypeOK
<1>3. TextOrder'
  BY <1>1 DEF Inv, TextOrder, DumpTypeOK, Text
<1>4. ASSUME NEW t \in Thread PROVE CallInv(t)'
  <2>1. CallInv(t) /\ began[t] \in Int /\ stored.version \in Int
    BY DEF Inv, DumpTypeOK, Text
  <2>2. pc[t] # "idle" => text'.version > began[t]
    BY <1>1, <2>1 DEF CallInv, Fresh
  <2>3. Sized(t)'
    BY <2>1 DEF CallInv, Sized
  <2>4. Fresh(t)'
    BY <1>1, <2>1, <2>2 DEF CallInv, Fresh
  <2>5. Faithful(t)'
    BY <1>1, <2>1, <2>2 DEF CallInv, Faithful
  <2> QED BY <2>3, <2>4, <2>5 DEF CallInv
<1> QED BY <1>2, <1>3, <1>4 DEF Inv

\* Every step keeps the invariant.
LEMMA NextInv == Inv /\ [Next]_vars => Inv'
<1> SUFFICES ASSUME Inv, [Next]_vars PROVE Inv'
  OBVIOUS
<1>1. ASSUME NEW t \in Thread,
             \/ Call(t) \/ AskSize(t) \/ AskText(t) \/ AskAgain(t)
             \/ FillBuffer(t) \/ NoDump(t) \/ Reply(t)
      PROVE  Inv'
  BY <1>1, CallStepInv, AskSizeInv, AskTextInv, AskAgainInv, FillBufferInv, ReplyInv
<1>2. CASE UNCHANGED vars
  BY <1>2 DEF vars, callVars, Inv, DumpTypeOK, TextOrder, CallInv, Sized, Fresh, Faithful
<1> QED BY <1>1, <1>2, ChangeInv DEF Next

\* The invariant holds in every reachable state.
THEOREM Invariance == Spec => []Inv
BY InitInv, NextInv, PTL DEF Spec

(***************************************************************************)
(* Whenever the device writes, the buffer has the size it is given, though *)
(* the text may have changed since it was asked for; and the terminator is *)
(* inside the buffer, except, over gralloc1, for a text of 2^32 - 1 bytes. *)
(* Lengths are any that a uint32_t can tell.                               *)
(***************************************************************************)
THEOREM DumpStaysInBounds == Spec => []DumpInBounds
<1>1. Inv => DumpInBounds
  <2> SUFFICES ASSUME Inv, NEW t \in Thread
               PROVE  /\ pc[t] = "text" /\ size[t] # 0 => len[t] <= size[t]
                      /\ nul[t] < size[t] \/ (hal = "gralloc1" /\ Wraps(nul[t]))
    BY DEF DumpInBounds
  <2>1. Sized(t) /\ len[t] \in 0..MaxLen /\ hal \in {"gralloc0", "gralloc1"}
    BY DEF Inv, CallInv, DumpTypeOK
  <2>2. RoomFor(len[t]) = 0 \/ RoomFor(len[t]) = len[t] + 1
    BY <2>1, RoomForFits
  <2> QED BY <2>1, <2>2, DumpAssumption DEF Sized
<1> QED BY <1>1, Invariance, PTL

(***************************************************************************)
(* A dump is a text the device had since the call began, however the other *)
(* threads' queries for the size interleave, and it is complete if the     *)
(* text has not changed since and its size has not wrapped around.         *)
(***************************************************************************)
THEOREM DumpAlwaysFaithful == Spec => []DumpFaithful
<1>1. Inv => DumpFaithful
  BY DEF Inv, CallInv, Faithful, DumpFaithful
<1> QED BY <1>1, Invariance, PTL
==============================================================================
