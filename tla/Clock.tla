-------------------------------- MODULE Clock --------------------------------
(***************************************************************************)
(* get_time() of core/time.c, which every processor calls without a lock.  *)
(* It is computed from the processor's own time stamp counter, and kept    *)
(* from falling behind the other processors by means of lastcputime, or    *)
(* from the ACPI timer, one for all processors and W bits wide, which      *)
(* lastacpitime extends.  Either way the last time is loaded, the counter  *)
(* read, and the last time replaced by a cmpxchg whose failure is ignored. *)
(***************************************************************************)
EXTENDS Integers

CONSTANTS
    CPU,
    W,           \* width of the ACPI timer (24)
    MaxTsc,      \* bound: ticks of a time stamp counter
    MaxTime,     \* bound: ticks of the ACPI timer
    MaxSleeps    \* bound: suspends

VARIABLES
    source,      \* "tsc" or "acpi"
    tsc,         \* ticks of a processor since currentcpu->tsc was set
    now,         \* ticks of the ACPI timer, without the wrap-around
    last,        \* lastcputime or lastacpitime
    timediff,
    pc,
    oldnow,      \* the last time as loaded: lasttime or oldnow
    time,        \* the processor's own time, or the timer as read
    result,      \* the last result of get_time() on a processor (history)
    start,       \* the timer when the call began (history)
    sleeps

vars == <<source, tsc, now, last, timediff, pc, oldnow, time, result, start, sleeps>>

Init ==
    /\ source \in {"tsc", "acpi"}
    /\ tsc = [c \in CPU |-> 0]
    /\ now = 0
    /\ last = 0
    /\ timediff = [c \in CPU |-> 0]
    /\ pc = [c \in CPU |-> "idle"]
    /\ oldnow = [c \in CPU |-> 0]
    /\ time = [c \in CPU |-> 0]
    /\ result = [c \in CPU |-> 0]
    /\ start = [c \in CPU |-> 0]
    /\ sleeps = 0

-----------------------------------------------------------------------------
(* Time stamp counters go on, each at its own pace. *)
TickTsc(c) ==
    /\ source = "tsc"
    /\ tsc[c] < MaxTsc
    /\ tsc' = [tsc EXCEPT ![c] = @ + 1]
    /\ UNCHANGED <<source, now, last, timediff, pc, oldnow, time, result, start, sleeps>>

(* The ACPI timer goes on.  Somebody asks for the time at least once in    *)
(* every round of the timer (4.7 s), and a call takes less than a round.   *)
TickAcpi ==
    /\ source = "acpi"
    /\ now < MaxTime
    /\ now + 1 - last < 2^W
    /\ \A c \in CPU : pc[c] # "idle" => now + 1 - oldnow[c] < 2^W
    /\ now' = now + 1
    /\ UNCHANGED <<source, tsc, last, timediff, pc, oldnow, time, result, start, sleeps>>

(* Suspend and resume; time_wakeup() sets currentcpu->tsc. *)
time_wakeup ==
    /\ source = "tsc"
    /\ sleeps < MaxSleeps
    /\ \A c \in CPU : pc[c] = "idle"
    /\ tsc' = [c \in CPU |-> 0]
    /\ sleeps' = sleeps + 1
    /\ result' = [c \in CPU |-> last]
    /\ UNCHANGED <<source, now, last, timediff, pc, oldnow, time, start>>

(* get_cpu_time, get_acpi_time: the last time is loaded ... *)
Load(c) ==
    /\ pc[c] = "idle"
    /\ oldnow' = [oldnow EXCEPT ![c] = last]
    /\ start' = [start EXCEPT ![c] = now]
    /\ pc' = [pc EXCEPT ![c] = "read"]
    /\ UNCHANGED <<source, tsc, now, last, timediff, time, result, sleeps>>

(* ... and the counter is read. *)
Read(c) ==
    /\ pc[c] = "read"
    /\ time' = [time EXCEPT ![c] = IF source = "tsc" THEN tsc[c] + timediff[c]
                                                     ELSE now % 2^W]
    /\ pc' = [pc EXCEPT ![c] = "store"]
    /\ UNCHANGED <<source, tsc, now, last, timediff, oldnow, result, start, sleeps>>

-----------------------------------------------------------------------------
(* The local variables are gone. *)
Return(c, r) ==
    /\ result' = [result EXCEPT ![c] = r]
    /\ pc' = [pc EXCEPT ![c] = "idle"]
    /\ oldnow' = [oldnow EXCEPT ![c] = 0]
    /\ time' = [time EXCEPT ![c] = 0]

(* asm_lock_cmpxchgq.  A slip: the new time is stored in any case. *)
Cmpxchg_Store(c, new) == last' = new

Cmpxchg(c, new) == last' = IF last = oldnow[c] THEN new ELSE last

Behind(c) == timediff' = [timediff EXCEPT ![c] = @ + oldnow[c] - time[c]]

get_cpu_time(c) ==
    /\ pc[c] = "store" /\ source = "tsc"
    /\ IF oldnow[c] <= time[c]
       THEN Cmpxchg(c, time[c]) /\ Return(c, time[c]) /\ UNCHANGED timediff
       ELSE Behind(c) /\ Return(c, oldnow[c]) /\ UNCHANGED last
    /\ UNCHANGED <<source, tsc, now, start, sleeps>>

(* The time that the timer's W bits stand for, given an earlier time *)
Extend(old, tmr) == old + (IF tmr < old % 2^W THEN tmr + 2^W ELSE tmr) - (old % 2^W)

get_acpi_time(c) ==
    LET new == Extend(oldnow[c], time[c])
    IN  /\ pc[c] = "store" /\ source = "acpi"
        /\ Cmpxchg(c, new)
        /\ Return(c, new)
        /\ UNCHANGED <<source, tsc, now, timediff, start, sleeps>>

Next == \/ TickAcpi \/ time_wakeup
        \/ \E c \in CPU : \/ TickTsc(c) \/ Load(c) \/ Read(c)
                          \/ get_cpu_time(c) \/ get_acpi_time(c)

Spec == Init /\ [][Next]_vars

-----------------------------------------------------------------------------
TypeOK ==
    /\ {last, now} \subseteq Nat
    /\ pc \in [CPU -> {"idle", "read", "store"}]
    /\ \A c \in CPU : {tsc[c], timediff[c], time[c], result[c]} \subseteq Nat

(***************************************************************************)
(* The clock does not go back: neither the last time, which restrains the  *)
(* other processors, nor the time that one processor sees, although its    *)
(* cmpxchg may fail and its own counter may be behind or start again.      *)
(* Timers compute time - settime, unsigned.                                *)
(***************************************************************************)
NeverBack == [][last' >= last /\ \A c \in CPU : result'[c] >= result[c] \/ sleeps' # sleeps]_vars

(***************************************************************************)
(* The time from the ACPI timer is one the timer really had during the     *)
(* call, however the calls of several processors and the wrap-around       *)
(* fall.                                                                   *)
(***************************************************************************)
TrueTime ==
    source = "acpi" =>
        \A c \in CPU : pc[c] = "idle" => start[c] <= result[c] /\ result[c] <= now
=============================================================================
