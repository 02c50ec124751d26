-------------------------------- MODULE Timer --------------------------------
(***************************************************************************)
(* The timers of the VMM (core/timer.c): three lists under timer_lock, and *)
(* the thread that takes expired timers off the head of list1_timer_on and *)
(* calls their callbacks outside the lock.  Every operation is one step,   *)
(* taken by some processor when the lock is free.  Each processor has a    *)
(* clock of its own (module Clock), so the differences of times, which are *)
(* unsigned, may be those of an earlier and a later time.                  *)
(***************************************************************************)
EXTENDS List1, FiniteSets

CONSTANTS
    CPU,
    MAX_TIMER,   \* 128
    Interval,    \* intervals that are asked for, in microseconds
    MaxTime,     \* bound on the time
    U64,         \* number of values of a u64
    NULL

ASSUME TimerAssumption ==
    /\ MAX_TIMER \in Nat \ {0}
    /\ Interval \subseteq Nat \ {0}
    /\ MaxTime \in Nat /\ U64 \in Nat
    /\ \A i \in Interval : MaxTime + i < U64

Handle == 1 .. MAX_TIMER

ASSUME NullAssumption == NULL \notin Handle

VARIABLES
    time,        \* what get_time () returns on a processor
    locked,      \* timer_lock is taken and nobody will release it
    list1_timer_on, list1_timer_off, list1_timer_free,
    enable, settime, interval,     \* fields of struct timer_data
    held,        \* timers that timer_new() has returned and nobody has freed
    timer_thread_run,
    calling,     \* the timer whose callback the thread calls, or NULL
    behind       \* running timers that were set by a clock that lay behind
                 \* the settime of another running timer (history)

lists  == <<list1_timer_on, list1_timer_off, list1_timer_free>>
fields == <<enable, settime, interval>>
vars   == <<time, locked, lists, fields, held, timer_thread_run, calling,
            behind>>

-----------------------------------------------------------------------------
(* timer_init_global *)
Init ==
    /\ time = [c \in CPU |-> 0]
    /\ locked = FALSE
    /\ list1_timer_on = <<>> /\ list1_timer_off = <<>>
    /\ list1_timer_free = [i \in Handle |-> MAX_TIMER + 1 - i]
    /\ enable = [p \in Handle |-> FALSE]
    /\ settime = [p \in Handle |-> 0] /\ interval = [p \in Handle |-> 0]
    /\ held = {}
    /\ timer_thread_run = FALSE
    /\ calling = NULL
    /\ behind = {}

(* A processor's clock goes on: get_time() does not go back on one         *)
(* processor (NeverBack of Clock), and promises nothing between two.       *)
get_time(c) ==
    /\ time[c] < MaxTime
    /\ time' = [time EXCEPT ![c] = @ + 1]
    /\ UNCHANGED <<locked, lists, fields, held, timer_thread_run, calling, behind>>

(* After a suspend every clock goes on from lastcputime, which may be      *)
(* behind any of them.                                                     *)
time_wakeup ==
    /\ \E last \in 0 .. MaxTime : /\ \E c \in CPU : last <= time[c]
                                  /\ time' = [c \in CPU |-> last]
    /\ UNCHANGED <<locked, lists, fields, held, timer_thread_run, calling, behind>>

timer_new ==
    /\ ~locked
    /\ list1_timer_free # <<>>
    /\ LET p == Head(list1_timer_free)
       IN  /\ list1_timer_free' = LIST1_POP(list1_timer_free)
           /\ list1_timer_off' = LIST1_ADD(list1_timer_off, p)
           /\ enable' = [enable EXCEPT ![p] = FALSE]
           /\ held' = held \cup {p}
    /\ UNCHANGED <<time, locked, list1_timer_on, settime, interval,
                   timer_thread_run, calling, behind>>

(* No timer is free: NULL is returned, and the lock is not released. *)
timer_new_null ==
    /\ ~locked
    /\ list1_timer_free = <<>>
    /\ locked' = TRUE
    /\ UNCHANGED <<time, lists, fields, held, timer_thread_run, calling, behind>>

(* time - d->settime, unsigned *)
Elapsed(d, now) == (now - settime[d]) % U64

(* timer_set stops searching at timer d.  A slip: intervals are compared,  *)
(* not the time that remains.                                              *)
Later_Interval(d, now, usec) == interval[d] > usec

Later(d, now, usec) ==
    /\ interval[d] > Elapsed(d, now)
    /\ interval[d] - Elapsed(d, now) > usec

(* list without p, and the position that timer_set inserts p at *)
Without(list, p) == IF enable[p] THEN LIST1_DEL(list, p) ELSE list

InsertPosition(list, now, usec) ==
    LET Stops == {i \in 1 .. Len(list) : Later(list[i], now, usec)}
    IN  IF Stops = {} THEN Len(list) + 1
        ELSE CHOOSE i \in Stops : \A j \in Stops : i <= j

timer_set(c, p, interval_usec) ==
    /\ ~locked
    /\ p \in held
    /\ LET rest == Without(list1_timer_on, p)
           i    == InsertPosition(rest, time[c], interval_usec)
       IN  /\ list1_timer_on' = LIST1_INSERT(rest, i, p)
           /\ behind' = IF \E d \in Range(rest) : settime[d] > time[c]
                        THEN behind \cup {p} ELSE behind \ {p}
    /\ list1_timer_off' = IF enable[p] THEN list1_timer_off ELSE LIST1_DEL(list1_timer_off, p)
    /\ enable' = [enable EXCEPT ![p] = TRUE]
    /\ settime' = [settime EXCEPT ![p] = time[c]]
    /\ interval' = [interval EXCEPT ![p] = interval_usec]
    /\ timer_thread_run' = TRUE
    /\ UNCHANGED <<time, locked, list1_timer_free, held, calling>>

(* The times of a timer that does not run are not read before timer_set    *)
(* writes them; here they are cleared.                                     *)
Clear(p) ==
    /\ settime' = [settime EXCEPT ![p] = 0]
    /\ interval' = [interval EXCEPT ![p] = 0]

timer_free(p) ==
    /\ ~locked
    /\ p \in held
    /\ list1_timer_on' = Without(list1_timer_on, p)
    /\ list1_timer_off' = IF enable[p] THEN list1_timer_off ELSE LIST1_DEL(list1_timer_off, p)
    /\ enable' = [enable EXCEPT ![p] = FALSE]
    /\ list1_timer_free' = LIST1_ADD(list1_timer_free, p)
    /\ held' = held \ {p}
    /\ Clear(p)
    /\ behind' = behind \ {p}
    /\ UNCHANGED <<time, locked, timer_thread_run, calling>>

(* A slip: the moment is missed if the thread comes late. *)
Expired_Exactly(p, now) == Elapsed(p, now) = interval[p]

Expired(p, now) == Elapsed(p, now) >= interval[p]

(* timer_thread: the critical section of a round that finds an expired     *)
(* timer at the head.  Any other round changes nothing: the timer is       *)
(* pushed back where it was.                                               *)
Expire(c) ==
    /\ timer_thread_run /\ calling = NULL
    /\ ~locked
    /\ list1_timer_on # <<>>
    /\ LET p == Head(list1_timer_on)
       IN  /\ enable[p] /\ Expired(p, time[c])
           /\ enable' = [enable EXCEPT ![p] = FALSE]
           /\ list1_timer_on' = LIST1_POP(list1_timer_on)
           /\ list1_timer_off' = LIST1_ADD(list1_timer_off, p)
           /\ Clear(p)
           /\ calling' = p
           /\ behind' = behind \ {p}
    /\ UNCHANGED <<time, locked, list1_timer_free, held, timer_thread_run>>

(* callback (p, data) returns; it may have called the operations above. *)
CallbackReturns ==
    /\ calling # NULL
    /\ calling' = NULL
    /\ UNCHANGED <<time, locked, lists, fields, held, timer_thread_run, behind>>

Next == \/ \E c \in CPU : get_time(c)
        \/ time_wakeup
        \/ timer_new
        \/ timer_new_null
        \/ \E c \in CPU, p \in Handle, i \in Interval : timer_set(c, p, i)
        \/ \E p \in Handle : timer_free(p)
        \/ \E c \in CPU : Expire(c)
        \/ CallbackReturns

Spec == Init /\ [][Next]_vars

(* The timer thread, which calls schedule() when it has nothing to do, is  *)
(* run again and again (ReadyThreadRuns of module Thread), by any processor. *)
Fairness == WF_vars(\E c \in CPU : Expire(c)) /\ WF_vars(CallbackReturns)

FairSpec == Spec /\ Fairness

-----------------------------------------------------------------------------
TypeOK ==
    /\ time \in [CPU -> 0 .. MaxTime]
    /\ {locked, timer_thread_run} \subseteq BOOLEAN
    /\ \A l \in {list1_timer_on, list1_timer_off, list1_timer_free} : l \in Seq(Handle)
    /\ enable \in [Handle -> BOOLEAN]
    /\ settime \in [Handle -> 0 .. MaxTime]
    /\ interval \in [Handle -> Interval \cup {0}]
    /\ held \subseteq Handle
    /\ calling \in Handle \cup {NULL}
    /\ behind \subseteq Handle

(***************************************************************************)
(* A timer is linked once, into the list that its enable flag and its      *)
(* owner imply.  timer_set and timer_free choose the list to unlink from   *)
(* by that flag; unlinking from another one would corrupt the tail pointer *)
(* of a list.                                                              *)
(***************************************************************************)
RightList ==
    /\ \A l \in {list1_timer_on, list1_timer_off, list1_timer_free} : IsInjective(l)
    /\ Range(list1_timer_on) = {p \in held : enable[p]}
    /\ Range(list1_timer_off) = {p \in held : ~enable[p]}
    /\ Range(list1_timer_free) = Handle \ held

(***************************************************************************)
(* The running timers are in the order in which they expire, although they *)
(* were set at different times and a timer may have expired long before    *)
(* the thread looks: the thread only ever looks at the head.  A timer may  *)
(* be behind one that expires later only if the clock of the processor     *)
(* that set it lay behind the time at which a running timer had been set:  *)
(* then the difference of the two, unsigned, is large, and that timer      *)
(* looks expired to timer_set.                                             *)
(***************************************************************************)
Expiry(p) == settime[p] + interval[p]

ExpiryOrder ==
    \A i, j \in 1 .. Len(list1_timer_on) :
        i < j => \/ Expiry(list1_timer_on[i]) <= Expiry(list1_timer_on[j])
                 \/ list1_timer_on[j] \in behind

(***************************************************************************)
(* A timer whose time has come on every processor fires, unless it is set  *)
(* again or freed first, whatever is done with the other timers, or        *)
(* timer_new() has kept the lock, or time has gone back in a suspend.  One *)
(* that was set by a clock that lay behind may have to wait for others.    *)
(***************************************************************************)
Due(p) == \A c \in CPU : time[c] >= Expiry(p)

Fires ==
    \A p \in Handle :
        (p \in Range(list1_timer_on) \ behind /\ Due(p))
            ~> (calling = p \/ ~Due(p) \/ p \notin held \/ locked)
=============================================================================
