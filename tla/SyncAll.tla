------------------------------- MODULE SyncAll -------------------------------
(***************************************************************************)
(* sync_all_processors() of core/ap.c, the barrier at which all processors *)
(* meet during start-up, cache control and the calibration of the clock.   *)
(* It is called again and again, with one counter and one number of the    *)
(* current meeting, which wraps around.                                    *)
(***************************************************************************)
EXTENDS Integers, FiniteSets

CONSTANTS
    CPU,        \* the num_of_processors + 1 processors
    W,          \* width of sync_id (32)
    MaxCalls    \* bound: calls per processor

VARIABLES
    sync_id,
    sync_count,
    id,         \* local variable: the meeting a processor waits for
    pc,         \* "out", or "in" the loop
    calls, returns   \* of each processor (history variables)

vars == <<sync_id, sync_count, id, pc, calls, returns>>

Init ==
    /\ sync_id = 0
    /\ sync_count = 0
    /\ id = [c \in CPU |-> 0]
    /\ pc = [c \in CPU |-> "out"]
    /\ calls = [c \in CPU |-> 0]
    /\ returns = [c \in CPU |-> 0]

-----------------------------------------------------------------------------
(* A slip: num_of_processors, which does not count the first one. *)
LastToCome_OneShort == sync_count + 1 = Cardinality(CPU) - 1

LastToCome == sync_count + 1 = Cardinality(CPU)

(* A slip: the counter goes on counting. *)
Count_NoReset == sync_count + 1

Count == IF LastToCome THEN 0 ELSE sync_count + 1

(* What is done under sync_lock.  The last processor to come does not wait. *)
sync_all_processors(c) ==
    /\ pc[c] = "out"
    /\ calls[c] < MaxCalls
    /\ calls' = [calls EXCEPT ![c] = @ + 1]
    /\ id' = [id EXCEPT ![c] = sync_id]
    /\ sync_count' = Count
    /\ IF LastToCome
       THEN /\ sync_id' = (sync_id + 1) % 2^W
            /\ returns' = [returns EXCEPT ![c] = @ + 1]
            /\ UNCHANGED pc
       ELSE /\ pc' = [pc EXCEPT ![c] = "in"]
            /\ UNCHANGED <<sync_id, returns>>

(* asm_lock_cmpxchgl(&sync_id, &id, id): true if they differ *)
Over(c) == sync_id # id[c]

Leave(c) ==
    /\ pc[c] = "in"
    /\ Over(c)
    /\ pc' = [pc EXCEPT ![c] = "out"]
    /\ returns' = [returns EXCEPT ![c] = @ + 1]
    /\ UNCHANGED <<sync_id, sync_count, id, calls>>

Next == \E c \in CPU : sync_all_processors(c) \/ Leave(c)

(* All processors execute the same calls, and none is stopped. *)
Fairness == \A c \in CPU : WF_vars(sync_all_processors(c)) /\ WF_vars(Leave(c))

Spec == Init /\ [][Next]_vars /\ Fairness

-----------------------------------------------------------------------------
TypeOK ==
    /\ sync_id \in 0 .. 2^W - 1
    /\ sync_count \in 0 .. Cardinality(CPU) - 1
    /\ pc \in [CPU -> {"out", "in"}]

(***************************************************************************)
(* Nobody returns from the k-th meeting before everybody has come to it,   *)
(* also when fast processors enter the next meeting before slow ones have  *)
(* left the last.                                                          *)
(***************************************************************************)
NobodyLeavesEarly == \A c, d \in CPU : returns[c] <= calls[d]

(* Every call returns: no processor misses the end of a meeting. *)
EveryCallReturns == \A c \in CPU : pc[c] = "in" ~> pc[c] = "out"
=============================================================================
