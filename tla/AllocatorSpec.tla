--------------------------- MODULE AllocatorSpec ----------------------------
(***************************************************************************)
(* What IAllocator::allocate promises, whichever gralloc version is below: *)
(* a call is granted with every buffer it asked for or refused with none,  *)
(* a refused call leaves nothing behind, and a granted call gives the      *)
(* service's own handles back before it ends.                              *)
(***************************************************************************)
EXTENDS Naturals

CONSTANTS
  Thread,    \* threads of the service, one call each at a time
  MaxCount   \* bound: buffers a call asks for

VARIABLES
  phase,  \* "idle", "busy" or "granted" for each thread
  want,   \* the count of the call
  held    \* handles the service holds for the call

vars == <<phase, want, held>>

Init ==
  /\ phase = [t \in Thread |-> "idle"]
  /\ want = [t \in Thread |-> 0]
  /\ held = [t \in Thread |-> 0]

Ask(t, n) ==
  /\ phase[t] = "idle"
  /\ phase' = [phase EXCEPT ![t] = "busy"]
  /\ want' = [want EXCEPT ![t] = n]
  /\ UNCHANGED held

\* A buffer is allocated for the call or given back.
Work(t) ==
  /\ phase[t] = "busy"
  /\ \E n \in 0..want[t] : held' = [held EXCEPT ![t] = n]
  /\ UNCHANGED <<phase, want>>

\* An error is answered when nothing is held any more.
Refuse(t) ==
  /\ phase[t] = "busy"
  /\ held[t] = 0
  /\ phase' = [phase EXCEPT ![t] = "idle"]
  /\ want' = [want EXCEPT ![t] = 0]
  /\ UNCHANGED held

\* All the buffers are sent to the caller.
Grant(t) ==
  /\ phase[t] = "busy"
  /\ held[t] = want[t]
  /\ phase' = [phase EXCEPT ![t] = "granted"]
  /\ UNCHANGED <<want, held>>

\* A local handle is given back.
Drop(t) ==
  /\ phase[t] = "granted"
  /\ held[t] > 0
  /\ held' = [held EXCEPT ![t] = @ - 1]
  /\ UNCHANGED <<phase, want>>

Finish(t) ==
  /\ phase[t] = "granted"
  /\ held[t] = 0
  /\ phase' = [phase EXCEPT ![t] = "idle"]
  /\ want' = [want EXCEPT ![t] = 0]
  /\ UNCHANGED held

Next ==
  \E t \in Thread :
    \/ \E n \in 0..MaxCount : Ask(t, n)
    \/ Work(t) \/ Refuse(t) \/ Grant(t) \/ Drop(t) \/ Finish(t)

Spec == Init /\ [][Next]_vars
==============================================================================
