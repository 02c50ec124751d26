----------------------------- MODULE RwSpinlock -----------------------------
(***************************************************************************)
(* The reader-writer lock of include/core/spinlock.h, one step for each    *)
(* locked instruction.  The sign bit of the word says that a writer is in, *)
(* the other bits count the readers, those that wait for the writer        *)
(* included: a reader counts itself before it looks at the sign.           *)
(***************************************************************************)
EXTENDS Integers

CONSTANTS
    CPU,
    W        \* bits of rw_spinlock_t (32), enough to count CPU in W - 1

VARIABLES
    l,     \* the word
    pc     \* what each processor is doing

vars == <<l, pc>>

Sign == 2^(W - 1)
Word == 2 * Sign      \* the word takes the values 0 .. Word - 1
Negative(x) == x >= Sign

(* "out", "sh_wait" and "sh": readers, "ex_wait" and "ex": writers *)
Init == l = 0 /\ pc = [c \in CPU |-> "out"]

(* `lock addl' and `jns' on its result *)
rw_spinlock_lock_sh(c) ==
    /\ pc[c] = "out"
    /\ l' = (l + 1) % Word
    /\ pc' = [pc EXCEPT ![c] = IF Negative(l') THEN "sh_wait" ELSE "sh"]

(* The loop of rw_spinlock_lock_sh ends.  A slip: it waits for a free lock. *)
WriterGone_Zero == l = 0

WriterGone == ~Negative(l)

EnterShared(c) ==
    /\ pc[c] = "sh_wait"
    /\ WriterGone
    /\ pc' = [pc EXCEPT ![c] = "sh"]
    /\ UNCHANGED l

rw_spinlock_unlock_sh(c) ==
    /\ pc[c] = "sh"
    /\ l' = (l - 1) % Word
    /\ pc' = [pc EXCEPT ![c] = "out"]

(* The cmpxchg of rw_spinlock_lock_ex and rw_spinlock_trylock_ex succeeds. *)
EnterExclusive(c) ==
    /\ pc[c] \in {"out", "ex_wait"}
    /\ l = 0
    /\ l' = Sign
    /\ pc' = [pc EXCEPT ![c] = "ex"]

(* It fails: rw_spinlock_lock_ex goes into its loop, trylock gives up. *)
WaitExclusive(c) ==
    /\ pc[c] = "out"
    /\ l # 0
    /\ pc' = [pc EXCEPT ![c] = "ex_wait"]
    /\ UNCHANGED l

(* `lock andl'.  A slip: the word is set to zero. *)
WithoutWriter_Zero == 0

WithoutWriter == l % Sign

rw_spinlock_unlock_ex(c) ==
    /\ pc[c] = "ex"
    /\ l' = WithoutWriter
    /\ pc' = [pc EXCEPT ![c] = "out"]

Next == \E c \in CPU : \/ rw_spinlock_lock_sh(c)
                       \/ EnterShared(c)
                       \/ rw_spinlock_unlock_sh(c)
                       \/ EnterExclusive(c)
                       \/ WaitExclusive(c)
                       \/ rw_spinlock_unlock_ex(c)

Spec == Init /\ [][Next]_vars

(* Waiting readers go on spinning and writers leave.  Nothing is assumed   *)
(* about how long readers stay.                                            *)
Fairness ==
    \A c \in CPU : WF_vars(EnterShared(c)) /\ WF_vars(rw_spinlock_unlock_ex(c))

FairSpec == Spec /\ Fairness

-----------------------------------------------------------------------------
TypeOK ==
    /\ l \in 0 .. Word - 1
    /\ pc \in [CPU -> {"out", "sh_wait", "sh", "ex_wait", "ex"}]

(* A writer is alone: no reader and no other writer is in with it, also    *)
(* when readers have counted themselves while it was in.                   *)
WriterAlone == \A c, d \in CPU : pc[c] = "ex" /\ pc[d] \in {"sh", "ex"} => c = d

(* A reader that waits for a writer gets in before any further writer, so  *)
(* it gets in (writers, on the other hand, can be starved by readers).     *)
ReaderGetsIn == \A c \in CPU : pc[c] = "sh_wait" ~> pc[c] = "sh"
=============================================================================
