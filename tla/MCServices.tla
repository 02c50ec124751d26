----------------------------- MODULE MCServices -----------------------------
(***************************************************************************)
(* Services of the VMM's core to its other parts, for TLC: timers,         *)
(* processes with their messages, the debug shell's channel and the log.   *)
(* They share no state: a behaviour exercises one of them, chosen at the   *)
(* start.                                                                  *)
(***************************************************************************)
EXTENDS Timer

CONSTANTS
    Thread, NUM_OF_PID, NUM_OF_MSGDSC, NUM_OF_MSGDSCRECV, Name,           \* Process
    MaxNew, MaxCalls, MaxDepth,
    Output, Input, EOT, MaxSends,                                         \* DbgSh
    SIZE, W, Area, MaxSaid, MaxResets                                     \* Log

(***************************************************************************)
(* What the code's constants are like: -1 means "no character" to the      *)
(* debug shell and is none, there is a process (the VMM), and the size of  *)
(* the log divides the number of values of an unsigned int.                *)
(***************************************************************************)
ASSUME ServAssumption ==
    /\ -1 \notin Output \cup Input \cup {EOT}
    /\ IsFiniteSet(Thread)
    /\ NUM_OF_PID \in Nat \ {0} /\ NUM_OF_MSGDSC \in Nat \ {0}
    /\ MaxDepth \in Nat /\ MaxNew \in Nat
    /\ SIZE \in Nat \ {0} /\ 2^W \in Nat \ {0} /\ 2^W % SIZE = 0
    /\ Area \subseteq Nat

VARIABLES
    part,
    valid, gen, running, exitflag, msgdsc, msg_data_used,    \* Process
    stack, procpc, arg, born, calls,
    s, r, stopped, state, pc, gpc, b, quitting,              \* DbgSh
    sent, seen, answers, taken,
    logoffset, loglen, log, logflag, area, phase, chars,     \* Log
    said, old, resets

Proc == INSTANCE Process WITH pc <- procpc

Shell == INSTANCE DbgSh

Tty == INSTANCE Log

procvars  == <<valid, gen, running, exitflag, msgdsc, msg_data_used, stack, procpc, arg,
               born, calls>>
shellvars == <<s, r, stopped, state, pc, gpc, b, quitting, sent, seen, answers, taken>>
logvars   == <<logoffset, loglen, log, logflag, area, phase, chars, said, old, resets>>
servvars  == <<part, vars, procvars, shellvars, logvars>>

ServInit ==
    /\ part \in {"timer", "process", "dbgsh", "log"}
    /\ Init /\ Proc!Init /\ Shell!Init /\ Tty!Init

ServNext ==
    /\ UNCHANGED part
    /\ part # "timer" => UNCHANGED vars
    /\ part # "process" => UNCHANGED procvars
    /\ part # "dbgsh" => UNCHANGED shellvars
    /\ part # "log" => UNCHANGED logvars
    /\ \/ part = "timer" /\ Next
       \/ part = "process" /\ Proc!Next
       \/ part = "dbgsh" /\ Shell!Next
       \/ part = "log" /\ Tty!Next

ServSpec == ServInit /\ [][ServNext]_servvars /\ Fairness

-----------------------------------------------------------------------------
(***************************************************************************)
(* The timers' lists agree with the flags by which timer_set and           *)
(* timer_free choose one, and the running timers are in the order in which *)
(* they expire, apart from timers that were set by a clock that lay behind *)
(* the others': the thread looks at the first one only.                    *)
(***************************************************************************)
ListsAgree == RightList /\ ExpiryOrder

(* A process lives as long as a thread is inside of it, and a message      *)
(* reaches the process that was meant.                                     *)
InsideLiving == Proc!InsideLiving

(* A registered name refers to a process that exists. *)
NamesLive == Proc!NamesLive

(* Characters and answers of the debug shell are neither lost nor mixed up. *)
InStep == Shell!InStep

(* The log is the end of what was printed, across panics and resets. *)
LogIsTail == Tty!LogIsTail
=============================================================================
