-------------------------------- MODULE MCSmp --------------------------------
(***************************************************************************)
(* What processors do to each other directly, for TLC: the three locks of  *)
(* include/core/spinlock.h, the barrier of core/ap.c, panic() and the      *)
(* clock.  They share no state: a behaviour exercises one of them, chosen  *)
(* at the start.                                                           *)
(***************************************************************************)
EXTENDS TicketLock

CONSTANTS MaxCalls, MaxPanics, LIMIT, NONE, MaxTsc, MaxTime, MaxSleeps,
          SyncW,    \* width of sync_id
          TwoCPU    \* the processors that use the clock

(* sync_id has at least one bit, and -1 is the number of no processor. *)
ASSUME SmpAssumption ==
    /\ SyncW \in Nat /\ 2^SyncW > 1
    /\ NONE \notin CPU

VARIABLES
    kind,            \* the part that is exercised
    byte, bytepc,    \* Spinlock
    word, wordpc,    \* RwSpinlock
    sync_id, sync_count, id, syncpc, calls, returns,           \* SyncAll
    paniccpu, panic_count, panicmsg, panicmsg_tmp, do_wakeup,  \* Panic
    panic_shell, panicpc, msg, count, can_send, nmi, panics, first, dropped,
    source, tsc, now, last, timediff, clockpc, oldnow, time,   \* Clock
    result, start, sleeps

Byte == INSTANCE Spinlock WITH l <- byte, pc <- bytepc

(* One bit more than a ticket: TicketAssumption says that W bits count CPU. *)
Rw == INSTANCE RwSpinlock WITH W <- W + 1, l <- word, pc <- wordpc

Sync == INSTANCE SyncAll WITH W <- SyncW, pc <- syncpc

Pan == INSTANCE Panic WITH pc <- panicpc

Clk == INSTANCE Clock WITH CPU <- TwoCPU, pc <- clockpc

bytevars  == <<byte, bytepc>>
rwvars    == <<word, wordpc>>
syncvars  == <<sync_id, sync_count, id, syncpc, calls, returns>>
panicvars == <<paniccpu, panic_count, panicmsg, panicmsg_tmp, do_wakeup, panic_shell,
               panicpc, msg, count, can_send, nmi, panics, first, dropped>>
clockvars == <<source, tsc, now, last, timediff, clockpc, oldnow, time, result, start, sleeps>>
smpvars   == <<kind, vars, bytevars, rwvars, syncvars, panicvars, clockvars>>

(* The other parts do not move; the clock and panic() have several initial *)
(* states.                                                                 *)
SmpInit ==
    /\ kind \in {"ticket", "byte", "rw", "sync", "panic", "clock"}
    /\ Init /\ Byte!Init /\ Rw!Init /\ Sync!Init /\ Pan!Init /\ Clk!Init
    /\ kind # "clock" => source = "tsc"
    /\ kind # "panic" => can_send

SmpNext ==
    /\ UNCHANGED kind
    /\ kind # "ticket" => UNCHANGED vars
    /\ kind # "byte" => UNCHANGED bytevars
    /\ kind # "rw" => UNCHANGED rwvars
    /\ kind # "sync" => UNCHANGED syncvars
    /\ kind # "panic" => UNCHANGED panicvars
    /\ kind # "clock" => UNCHANGED clockvars
    /\ \/ kind = "ticket" /\ Next
       \/ kind = "byte" /\ Byte!Next
       \/ kind = "rw" /\ Rw!Next
       \/ kind = "sync" /\ Sync!Next
       \/ kind = "panic" /\ Pan!Next
       \/ kind = "clock" /\ Clk!Next

(* Every part's own fairness.  The barrier's is about calls that would be  *)
(* possible in the other parts' behaviours, too.                           *)
SyncFairness ==
    \A c \in CPU : /\ WF_syncvars(kind = "sync" /\ Sync!sync_all_processors(c))
                   /\ WF_syncvars(kind = "sync" /\ Sync!Leave(c))

SmpSpec == SmpInit /\ [][SmpNext]_smpvars
               /\ Fairness /\ Byte!Fairness /\ Rw!Fairness /\ SyncFairness /\ Pan!Fairness

-----------------------------------------------------------------------------
(* The byte lock has one holder, and a writer is alone, although readers    *)
(* count themselves while it is in.                                         *)
LocksExclude == Byte!MutualExclusion /\ Rw!WriterAlone

(* The byte lock is not left free while processors spin for it, and a       *)
(* waiting reader is not overtaken by writers.                              *)
WaitersGetIn == Byte!SomebodyGetsIt /\ Rw!ReaderGetsIn

(* Nobody returns from sync_all_processors() before everybody has come. *)
NobodyLeavesEarly == Sync!NobodyLeavesEarly

(* Every call of sync_all_processors() returns. *)
EveryCallReturns == Sync!EveryCallReturns

(* The first panic message is kept whole, and one processor dumps at a time. *)
OneMessage == Pan!OneMessage

(* After a panic every processor stops, if NMIs can be sent. *)
EverybodyStops == Pan!EverybodyStops

(* Neither lastcputime nor the time a processor sees goes back, and the    *)
(* time from the ACPI timer is a true one, across its wrap-around.         *)
TimeRight == Clk!NeverBack /\ []Clk!TrueTime
=============================================================================
