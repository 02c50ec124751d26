-------------------------------- MODULE Panic --------------------------------
(***************************************************************************)
(* panic() of core/panic.c on several processors.  One at a time may use   *)
(* panicmsg_tmp and print its dump; it is paniccpu.  The first one to      *)
(* finish wakes up the others with an NMI, which then find panicmsg not    *)
(* empty and panic as well (panic_test), and one of them runs the panic    *)
(* shell.  A processor can panic again while it prints, and one that does  *)
(* so too often is stopped.                                                *)
(***************************************************************************)
EXTENDS Integers, FiniteSets

CONSTANTS
    CPU,
    LIMIT,      \* panics after which a processor is only stopped (5)
    MaxPanics,  \* bound: panics for a reason of their own
    NONE        \* paniccpu = -1, an empty message

VARIABLES
    paniccpu, panic_count, panicmsg, panicmsg_tmp, do_wakeup, panic_shell,
    pc,         \* where a processor is in panic()
    msg,        \* the message it was called with, NONE for ""
    count,      \* its local variable
    can_send,   \* what panic_wakeup_all() needs to send NMIs is there
    nmi,        \* processors that have been sent an NMI
    panics,     \* panics so far
    first,      \* message of the first processor that printed one (history)
    dropped     \* a panic in the middle of panic_wakeup_all() (history)

local == <<pc, msg, count>>
vars == <<paniccpu, panic_count, panicmsg, panicmsg_tmp, do_wakeup, panic_shell,
          local, can_send, nmi, panics, first, dropped>>

(* panic_init_global, panic_init_pcpu; "run" is the guest or any VMM code. *)
(* can_send is what panic_wakeup_all(), which is called once, will find:   *)
(* an APIC, started processors, the enable bit, which is the guest's, set  *)
(* in the APIC's base register, and memory to map the APIC.                *)
Init ==
    /\ paniccpu = NONE
    /\ panic_count = 0
    /\ panicmsg = NONE /\ panicmsg_tmp = NONE
    /\ do_wakeup = TRUE
    /\ panic_shell = FALSE
    /\ pc = [c \in CPU |-> "run"]
    /\ msg = [c \in CPU |-> NONE]
    /\ count = [c \in CPU |-> 0]
    /\ can_send \in BOOLEAN
    /\ nmi = {}
    /\ panics = 0
    /\ first = NONE
    /\ dropped = FALSE

-----------------------------------------------------------------------------
Go(c, where) == pc' = [pc EXCEPT ![c] = where]

(* The beginning of panic(), up to wait_for_other_cpu() *)
Call(c, m) ==
    /\ Go(c, "claim")
    /\ msg' = [msg EXCEPT ![c] = m]
    /\ count' = [count EXCEPT ![c] = panic_count]
    /\ panic_count' = panic_count + 1
    /\ UNCHANGED <<paniccpu, panicmsg, panicmsg_tmp, do_wakeup, panic_shell, can_send, nmi,
                   first>>

(* Something is wrong: anywhere, or again in panic() itself.  The calls    *)
(* are numbered: the number is the message.                                *)
panic(c) ==
    /\ pc[c] \in {"run", "dump", "wakeup", "swap", "shell"}
    /\ panics < MaxPanics
    /\ Call(c, panics)
    /\ panics' = panics + 1
    /\ dropped' = (dropped \/ pc[c] = "wakeup")

(* panic_test in the main loop *)
panic_test(c) ==
    /\ pc[c] = "run"
    /\ panicmsg # NONE
    /\ Call(c, NONE)
    /\ UNCHANGED <<panics, dropped>>

(* wait_for_other_cpu, under panic_lock.  A slip: after the spinning loop  *)
(* paniccpu is not looked at again.                                        *)
MayClaim_NoRecheck(c) == paniccpu \in {NONE, c} \/ pc[c] = "reclaim"

MayClaim(c) == paniccpu \in {NONE, c}

wait_for_other_cpu(c) ==
    /\ pc[c] \in {"claim", "reclaim"}
    /\ IF MayClaim(c) THEN paniccpu' = c /\ Go(c, "format")
                      ELSE UNCHANGED paniccpu /\ Go(c, "spin")
    /\ UNCHANGED <<panic_count, panicmsg, panicmsg_tmp, do_wakeup, panic_shell,
                   msg, count, can_send, nmi, panics, first, dropped>>

(* the loop without the lock *)
Spin(c) ==
    /\ pc[c] = "spin"
    /\ paniccpu = NONE
    /\ Go(c, "reclaim")
    /\ UNCHANGED <<paniccpu, panic_count, panicmsg, panicmsg_tmp, do_wakeup, panic_shell,
                   msg, count, can_send, nmi, panics, first, dropped>>

Format(c) ==
    /\ pc[c] = "format"
    /\ panicmsg_tmp' = msg[c]
    /\ Go(c, "message")
    /\ UNCHANGED <<paniccpu, panic_count, panicmsg, do_wakeup, panic_shell,
                   msg, count, can_send, nmi, panics, first, dropped>>

(* What is printed, and kept in panicmsg if it is the first message *)
Message(c) ==
    /\ pc[c] = "message"
    /\ panicmsg' = IF panicmsg = NONE THEN panicmsg_tmp ELSE panicmsg
    /\ first' = IF first = NONE THEN msg[c] ELSE first
    /\ IF count[c] > LIMIT THEN paniccpu' = NONE /\ Go(c, "frozen")
                           ELSE UNCHANGED paniccpu /\ Go(c, "dump")
    /\ UNCHANGED <<panic_count, panicmsg_tmp, do_wakeup, panic_shell, msg, count,
                   can_send, nmi, panics, dropped>>

(* The dump has been printed. *)
Release(c) ==
    /\ pc[c] = "dump"
    /\ do_wakeup' = FALSE
    /\ Go(c, IF do_wakeup THEN "wakeup" ELSE "swap")
    /\ paniccpu' = NONE
    /\ UNCHANGED <<panic_count, panicmsg, panicmsg_tmp, panic_shell,
                   msg, count, can_send, nmi, panics, first, dropped>>

(* A slip: the processor interrupts itself only. *)
Woken_Self(c) == {c}

Woken(c) == IF can_send THEN CPU \ {c} ELSE {}

panic_wakeup_all(c) ==
    /\ pc[c] = "wakeup"
    /\ nmi' = nmi \cup Woken(c)
    /\ Go(c, "swap")
    /\ UNCHANGED <<paniccpu, panic_count, panicmsg, panicmsg_tmp, do_wakeup, panic_shell,
                   msg, count, can_send, panics, first, dropped>>

(* One processor runs the panic shell, the others wait for a reboot. *)
Swap(c) ==
    /\ pc[c] = "swap"
    /\ panic_shell' = TRUE
    /\ Go(c, IF panic_shell THEN "halt" ELSE "shell")
    /\ UNCHANGED <<paniccpu, panic_count, panicmsg, panicmsg_tmp, do_wakeup,
                   msg, count, can_send, nmi, panics, first, dropped>>

InPanic(c) == \/ wait_for_other_cpu(c) \/ Spin(c) \/ Format(c) \/ Message(c)
              \/ Release(c) \/ panic_wakeup_all(c) \/ Swap(c)

Next == \E c \in CPU : panic(c) \/ panic_test(c) \/ InPanic(c)

(* A processor in panic() goes on; an NMI ends the guest or the halt.  A   *)
(* processor that gets none may be in the guest forever.                   *)
Fairness == \A c \in CPU : WF_vars(InPanic(c)) /\ WF_vars(c \in nmi /\ panic_test(c))

Spec == Init /\ [][Next]_vars /\ Fairness

-----------------------------------------------------------------------------
TypeOK ==
    /\ paniccpu \in CPU \cup {NONE}
    /\ pc \in [CPU -> {"run", "claim", "reclaim", "spin", "format", "message", "dump",
                       "wakeup", "swap", "shell", "halt", "frozen"}]
    /\ {do_wakeup, panic_shell, can_send} \subseteq BOOLEAN

(***************************************************************************)
(* The message that is kept, and shown by the panic shell, is the one of   *)
(* the first processor that printed, not mixed with that of another: only  *)
(* paniccpu is between taking panicmsg_tmp and the end of its dump,        *)
(* although processors wait without the lock and panics may nest.          *)
(***************************************************************************)
OneMessage ==
    /\ \A c \in CPU : pc[c] \in {"format", "message", "dump"} => paniccpu = c
    /\ \A c \in CPU : pc[c] = "message" => panicmsg_tmp = msg[c]
    /\ panicmsg = first

(***************************************************************************)
(* "stop if there is panic on other processors" (panic.c:592): after a     *)
(* panic every processor stops, also one that stays in the guest, provided *)
(* that NMIs can be sent.  The exceptions: a processor is frozen because   *)
(* of too many panics, or panics again when it has cleared do_wakeup and   *)
(* not yet sent the NMIs.                                                  *)
(***************************************************************************)
EverybodyStops ==
    (panicmsg # NONE /\ can_send)
        ~> \/ \A c \in CPU : pc[c] \in {"shell", "halt"}
           \/ \E c \in CPU : pc[c] = "frozen"
           \/ dropped
=============================================================================
