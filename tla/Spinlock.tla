------------------------------ MODULE Spinlock ------------------------------
(***************************************************************************)
(* The byte lock of include/core/spinlock.h (without SPINLOCK_DEBUG): one  *)
(* step for each access to the byte.  An xchg is atomic.                   *)
(***************************************************************************)
EXTENDS Integers

CONSTANTS CPU

VARIABLES
    l,     \* the byte
    pc     \* "out", "try": before the xchg, "spin": in the inner loop, "in"

vars == <<l, pc>>

(* spinlock_init *)
Init == l = 0 /\ pc = [c \in CPU |-> "out"]

Want(c) ==
    /\ pc[c] = "out"
    /\ pc' = [pc EXCEPT ![c] = "try"]
    /\ UNCHANGED l

(* `test %0, %0' on what the xchg has returned *)
Got == l = 0

Xchg(c) ==
    /\ pc[c] = "try"
    /\ l' = 1
    /\ pc' = [pc EXCEPT ![c] = IF Got THEN "in" ELSE "spin"]

(* `cmp %1, %0': leaves the inner loop when the byte has changed *)
Released == l # 1

Spin(c) ==
    /\ pc[c] = "spin"
    /\ Released
    /\ pc' = [pc EXCEPT ![c] = "try"]
    /\ UNCHANGED l

spinlock_unlock(c) ==
    /\ pc[c] = "in"
    /\ l' = 0
    /\ pc' = [pc EXCEPT ![c] = "out"]

Next == \E c \in CPU : Want(c) \/ Xchg(c) \/ Spin(c) \/ spinlock_unlock(c)

Spec == Init /\ [][Next]_vars

(* A processor that is after the lock goes on, one that has it releases it. *)
Fairness ==
    \A c \in CPU : WF_vars(Xchg(c)) /\ WF_vars(Spin(c)) /\ WF_vars(spinlock_unlock(c))

FairSpec == Spec /\ Fairness

-----------------------------------------------------------------------------
TypeOK == l \in {0, 1} /\ pc \in [CPU -> {"out", "try", "spin", "in"}]

(* At most one processor has the lock. *)
MutualExclusion == \A c, d \in CPU : pc[c] = "in" /\ pc[d] = "in" => c = d

(* The lock never stays free while processors spin for it: some processor   *)
(* gets it (which one, this lock does not say: unlike the ticket lock).     *)
SomebodyGetsIt ==
    (\E c \in CPU : pc[c] \in {"try", "spin"}) ~> (\E c \in CPU : pc[c] = "in")
=============================================================================
