---------------------------- MODULE GrallocDump -----------------------------
(***************************************************************************)
(* dumpDebugInfo of both gralloc back ends, under Allocator::dumpDebugInfo *)
(* (hals/allocator).  Over gralloc1 the device is asked for the size of    *)
(* its text, a buffer is made, and the device is asked for the text: the   *)
(* device may have more or less to say by then, and another thread may     *)
(* have asked in between.  Over gralloc0 one call fills a fixed buffer.    *)
(*                                                                         *)
(* The device is the environment.  Its text is a version number and a      *)
(* length.  As hardware/gralloc1.h asks, it writes no more than the size   *)
(* it is given; it writes the text of the moment, or the one it stored     *)
(* when somebody last asked for the size.                                  *)
(***************************************************************************)
EXTENDS Integers

CONSTANTS
  Thread,      \* threads of the service
  SizeRange,   \* number of values of a uint32_t, 2^32
  BufSize,     \* sizeof(buf) of the gralloc0 back end, 4096
  MaxLen,      \* length of the longest text
  MaxVersion   \* bound: how often the text changes

\* The device reports the length of its text as a uint32_t, whichever it is.
ASSUME DumpAssumption ==
  /\ BufSize \in Nat \ {0}
  /\ MaxVersion \in Nat
  /\ MaxLen \in Nat
  /\ SizeRange \in Nat /\ MaxLen < SizeRange

VARIABLES
  hal,      \* the back end: "gralloc0" or "gralloc1"
  hasDump,  \* external: mDevice->dump is not null (gralloc0)
  pc,       \* what each thread does next
  len,      \* local of dumpDebugInfo (gralloc1)
  size,     \* buf.size(), or sizeof(buf)
  buf,      \* the version of the text in the buffer and how much of it
  nul,      \* index of the terminator that is written last, -1 before that
  began,    \* history: version of the text when the call began
  text,     \* external: what the device has to say now
  stored    \* external: the text of the latest query for the size

callVars == <<pc, len, size, buf, nul, began>>
vars == <<hal, hasDump, callVars, text, stored>>

Text == [version : 0..MaxVersion, len : 0..MaxLen]

\* A buffer of zeros.
Empty == [version |-> -1, len |-> 0]

Init ==
  /\ hal \in {"gralloc0", "gralloc1"}
  /\ hasDump \in BOOLEAN
  /\ pc = [t \in Thread |-> "idle"]
  /\ len = [t \in Thread |-> 0]
  /\ size = [t \in Thread |-> 0]
  /\ buf = [t \in Thread |-> Empty]
  /\ nul = [t \in Thread |-> -1]
  /\ began = [t \in Thread |-> 0]
  /\ text \in {x \in Text : x.version = 0}
  /\ stored = text

-----------------------------------------------------------------------------
Least(m, n) == IF m <= n THEN m ELSE n

\* len + 1 in uint32_t arithmetic, which is 0 for the greatest length.
RoomFor(n) == (n + 1) % SizeRange
Wraps(n) == RoomFor(n) = 0

\* hidl_cb(mHal->dumpDebugInfo()): the back end starts.
Call(t) ==
  /\ pc[t] = "idle"
  /\ pc' = [pc EXCEPT ![t] = IF hal = "gralloc1" THEN "size" ELSE "text"]
  /\ size' = [size EXCEPT ![t] = IF hal = "gralloc1" THEN 0 ELSE BufSize]
  /\ began' = [began EXCEPT ![t] = text.version]
  /\ UNCHANGED <<hal, hasDump, len, buf, nul, text, stored>>

\* Mutant: the buffer is made before the device is asked.
BufferBeforeSize(t) ==
  /\ pc[t] = "size"
  /\ size' = [size EXCEPT ![t] = RoomFor(len[t])]
  /\ len' = [len EXCEPT ![t] = text.len]
  /\ stored' = text
  /\ pc' = [pc EXCEPT ![t] = "text"]
  /\ UNCHANGED <<hal, hasDump, buf, nul, began, text>>

\* mDispatch.dump(mDevice, &len, nullptr); std::vector<char> buf(len + 1)
AskSize(t) ==
  /\ pc[t] = "size"
  /\ len' = [len EXCEPT ![t] = text.len]
  /\ size' = [size EXCEPT ![t] = RoomFor(text.len)]
  /\ stored' = text
  /\ pc' = [pc EXCEPT ![t] = "text"]
  /\ UNCHANGED <<hal, hasDump, buf, nul, began, text>>

\* The device has written n bytes of the text x, and the terminator follows
\* at index z of a buffer that has grown or shrunk to the given size.
Written(t, x, n, z, newSize) ==
  /\ buf' = [buf EXCEPT ![t] = [version |-> x.version, len |-> n]]
  /\ nul' = [nul EXCEPT ![t] = z]
  /\ size' = [size EXCEPT ![t] = newSize]
  /\ pc' = [pc EXCEPT ![t] = "reply"]
  /\ UNCHANGED <<hal, hasDump, began, text>>

\* Mutant: a byte of the size is kept for a terminator.
AskTextOneLess(t) ==
  /\ pc[t] = "text"
  /\ hal = "gralloc1" /\ size[t] # 0
  /\ \E x \in {text, stored} :
       LET n == Least(x.len, IF len[t] = 0 THEN 0 ELSE len[t] - 1)
       IN  len' = [len EXCEPT ![t] = n] /\ Written(t, x, n, n, RoomFor(n))
  /\ UNCHANGED stored

\* mDispatch.dump(mDevice, &len, buf.data()); resize(len + 1); buf[len] = '\0'
AskText(t) ==
  /\ pc[t] = "text"
  /\ hal = "gralloc1" /\ size[t] # 0
  /\ \E x \in {text, stored} :
       LET n == Least(x.len, len[t])
       IN  len' = [len EXCEPT ![t] = n] /\ Written(t, x, n, n, RoomFor(n))
  /\ UNCHANGED stored

\* The same lines when len + 1 has wrapped around: the data() of an empty vector
\* is null in the C++ library of the platform, so the device takes the second
\* call for another question for the size and writes nothing, and resize and
\* the terminator go by its answer.  If that wraps around too the terminator
\* has no place; what such a write does is undefined, and the call goes on here.
AskAgain(t) ==
  /\ pc[t] = "text"
  /\ hal = "gralloc1" /\ size[t] = 0
  /\ len' = [len EXCEPT ![t] = text.len]
  /\ stored' = text
  /\ Written(t, text, 0, text.len, RoomFor(text.len))

\* mDevice->dump(mDevice, buf, sizeof(buf)); buf[sizeof(buf) - 1] = '\0'
FillBuffer(t) ==
  /\ pc[t] = "text"
  /\ hal = "gralloc0" /\ hasDump
  /\ Written(t, text, Least(text.len, size[t]), size[t] - 1, size[t])
  /\ UNCHANGED <<len, stored>>

\* A gralloc0 device without dump leaves the buffer empty.
NoDump(t) ==
  /\ pc[t] = "text"
  /\ hal = "gralloc0" /\ ~hasDump
  /\ pc' = [pc EXCEPT ![t] = "reply"]
  /\ UNCHANGED <<hal, hasDump, len, size, buf, nul, began, text, stored>>

\* The string ends at the first zero byte and goes to the caller.
Reply(t) ==
  /\ pc[t] = "reply"
  /\ pc' = [pc EXCEPT ![t] = "idle"]
  /\ len' = [len EXCEPT ![t] = 0]
  /\ size' = [size EXCEPT ![t] = 0]
  /\ buf' = [buf EXCEPT ![t] = Empty]
  /\ nul' = [nul EXCEPT ![t] = -1]
  /\ began' = [began EXCEPT ![t] = 0]
  /\ UNCHANGED <<hal, hasDump, text, stored>>

\* external: the device has something else to say.
Change ==
  /\ text.version < MaxVersion
  /\ \E n \in 0..MaxLen : text' = [version |-> text.version + 1, len |-> n]
  /\ UNCHANGED <<hal, hasDump, callVars, stored>>

Next ==
  \/ Change
  \/ \E t \in Thread :
       \/ Call(t) \/ AskSize(t) \/ AskText(t) \/ AskAgain(t)
       \/ FillBuffer(t) \/ NoDump(t) \/ Reply(t)

Spec == Init /\ [][Next]_vars

-----------------------------------------------------------------------------
(***************************************************************************)
(* When the device writes, it is given a size that the buffer has,         *)
(* although the size was asked for before and the text may have changed,   *)
(* and the terminator has a place in the buffer as it is then.  The only   *)
(* exception is over gralloc1 a text of 2^32 - 1 bytes, for which len + 1  *)
(* is 0: then the terminator is written outside the buffer, and this is    *)
(* the only write that is.                                                 *)
(***************************************************************************)
DumpInBounds ==
  \A t \in Thread :
    /\ pc[t] = "text" /\ size[t] # 0 => len[t] <= size[t]
    /\ nul[t] < size[t] \/ (hal = "gralloc1" /\ Wraps(nul[t]))

(***************************************************************************)
(* A dump is of this call: the text is one the device had since the call   *)
(* began, whichever thread asked for the size last, and if the device's    *)
(* text has not changed since then it is all there (over gralloc0, what    *)
(* fits before the terminator), unless len + 1 wraps around.               *)
(***************************************************************************)
DumpFaithful ==
  \A t \in Thread :
    (pc[t] = "reply" /\ nul[t] # -1) =>
      /\ buf[t].version >= began[t]
      /\ text.version = began[t] /\ ~(hal = "gralloc1" /\ Wraps(text.len)) =>
           Least(buf[t].len, nul[t]) =
             IF hal = "gralloc1" THEN text.len ELSE Least(text.len, BufSize - 1)
==============================================================================
