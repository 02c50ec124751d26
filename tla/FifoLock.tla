------------------------------ MODULE FifoLock ------------------------------
(***************************************************************************)
(* What LOCK_LOCK and LOCK_UNLOCK of core/thread.c promise: one holder at  *)
(* a time, and the lock is granted in the order in which it was asked for. *)
(***************************************************************************)
EXTENDS Sequences

CONSTANTS CPU, NULL

VARIABLES
    queue,    \* processors that wait, the first one first
    holder    \* the processor that has the lock, or NULL

vars == <<queue, holder>>

Init == queue = <<>> /\ holder = NULL

Enqueue(c) == queue' = Append(queue, c) /\ UNCHANGED holder

Acquire ==
    /\ holder = NULL /\ queue # <<>>
    /\ holder' = Head(queue)
    /\ queue' = Tail(queue)

Release ==
    /\ holder # NULL
    /\ holder' = NULL
    /\ UNCHANGED queue

Next == (\E c \in CPU : Enqueue(c)) \/ Acquire \/ Release

Spec == Init /\ [][Next]_vars
=============================================================================
