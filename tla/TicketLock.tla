----------------------------- MODULE TicketLock -----------------------------
(***************************************************************************)
(* The ticket lock of include/core/spinlock.h, the lock behind LOCK_LOCK   *)
(* and LOCK_UNLOCK of core/thread.c: one step for each locked instruction. *)
(* A ticket is W bits wide (32 in the code) and wraps.                     *)
(***************************************************************************)
EXTENDS Integers, Sequences, FiniteSets

CONSTANTS
    CPU,
    W,       \* bits of next_ticket and now_serving
    NULL

ASSUME TicketAssumption ==
    /\ W \in Nat
    /\ IsFiniteSet(CPU) /\ Cardinality(CPU) < 2^W
    /\ NULL \notin CPU

VARIABLES
    next_ticket, now_serving,    \* the two words of ticketlock_t
    a,                           \* register eax of each processor
    pc                           \* what each processor is doing

vars == <<next_ticket, now_serving, a, pc>>

Ticket == 0 .. 2^W - 1

Inc(x) == (x + 1) % 2^W

(***************************************************************************)
(* "out"  does not want the lock                                           *)
(* "take" in the first loop, has read next_ticket                          *)
(* "wait" in the second loop, has a ticket                                 *)
(* "in"   has the lock                                                     *)
(***************************************************************************)
Init ==
    /\ next_ticket = 0 /\ now_serving = 0
    /\ a = [c \in CPU |-> 0]
    /\ pc = [c \in CPU |-> "out"]

(* The first cmpxchg: whatever eax holds, it now holds next_ticket. *)
ReadTicket(c) ==
    /\ pc[c] = "out"
    /\ a' = [a EXCEPT ![c] = next_ticket]
    /\ pc' = [pc EXCEPT ![c] = "take"]
    /\ UNCHANGED <<next_ticket, now_serving>>

(* The cmpxchg of the first loop succeeds ...  A slip: a plain store that  *)
(* does not compare                                                        *)
Compare_Blind(c) == TRUE

Compare(c) == next_ticket = a[c]

TakeTicket(c) ==
    /\ pc[c] = "take"
    /\ Compare(c)
    /\ next_ticket' = Inc(a[c])
    /\ pc' = [pc EXCEPT ![c] = "wait"]
    /\ UNCHANGED <<now_serving, a>>

(* ... or fails and loads eax *)
RetryTicket(c) ==
    /\ pc[c] = "take"
    /\ next_ticket # a[c]
    /\ a' = [a EXCEPT ![c] = next_ticket]
    /\ UNCHANGED <<next_ticket, now_serving, pc>>

(* The cmpxchg of the second loop: spins until the ticket is served.  A    *)
(* slip: compares with "not later than" instead of equality.               *)
Served_NotLater(c) == a[c] <= now_serving

Served(c) == now_serving = a[c]

Enter(c) ==
    /\ pc[c] = "wait"
    /\ Served(c)
    /\ pc' = [pc EXCEPT ![c] = "in"]
    /\ UNCHANGED <<next_ticket, now_serving, a>>

(* `lock addl $1'.  A slip: now_serving catches up with next_ticket. *)
Serve_All == now_serving' = next_ticket

Serve == now_serving' = Inc(now_serving)

ticketlock_unlock(c) ==
    /\ pc[c] = "in"
    /\ Serve
    /\ pc' = [pc EXCEPT ![c] = "out"]
    /\ UNCHANGED <<next_ticket, a>>

Next == \E c \in CPU : \/ ReadTicket(c)
                       \/ TakeTicket(c)
                       \/ RetryTicket(c)
                       \/ Enter(c)
                       \/ ticketlock_unlock(c)

Spec == Init /\ [][Next]_vars

(* A processor that spins goes on spinning and one that has the lock       *)
(* releases it.  Nothing is assumed about the retries for a ticket.        *)
Fairness == \A c \in CPU : WF_vars(Enter(c)) /\ WF_vars(ticketlock_unlock(c))

FairSpec == Spec /\ Fairness

-----------------------------------------------------------------------------
TypeOK ==
    /\ next_ticket \in Ticket /\ now_serving \in Ticket
    /\ a \in [CPU -> Ticket]
    /\ pc \in [CPU -> {"out", "take", "wait", "in"}]

(* The lock excludes, also after the tickets have wrapped around. *)
MutualExclusion == \A c, d \in CPU : pc[c] = "in" /\ pc[d] = "in" => c = d

-----------------------------------------------------------------------------
(* Refinement: waiting processors, by the distance of their tickets. *)
Distance(c) == (a[c] - now_serving) % 2^W
Waiters == {c \in CPU : pc[c] = "wait"}
Rank(c) == Cardinality({d \in Waiters : Distance(d) < Distance(c)}) + 1

Queue == [i \in 1 .. Cardinality(Waiters) |-> CHOOSE c \in Waiters : Rank(c) = i]
Holder == IF \E c \in CPU : pc[c] = "in" THEN CHOOSE c \in CPU : pc[c] = "in" ELSE NULL

Fifo == INSTANCE FifoLock WITH queue <- Queue, holder <- Holder

(* The lock is granted in the order in which tickets were taken. *)
FirstComeFirstServed == Fifo!Spec

(* A processor that has taken a ticket gets the lock. *)
TicketIsServed == \A c \in CPU : pc[c] = "wait" ~> pc[c] = "in"
=============================================================================
