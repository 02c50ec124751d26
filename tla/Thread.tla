------------------------------- MODULE Thread -------------------------------
(***************************************************************************)
(* The cooperative thread scheduler of the VMM (core/thread.c): the table  *)
(* td[], the lists td_free and td_runnable, the per-CPU current thread,    *)
(* thread_lock, and the stacks that threads execute on.                    *)
(*                                                                         *)
(* Granularity.  Everything done between LOCK_LOCK and LOCK_UNLOCK of      *)
(* thread_lock is one step, with one exception: schedule() keeps the lock  *)
(* across thread_switch() and it is the *new* thread that releases it, so  *)
(* schedule() is three steps (pick, switch stacks, unlock).  thread_exit() *)
(* and thread_wakeup() take the lock twice and are two steps.  thread_lock *)
(* is an ideal mutex here; module TicketLock shows that the ticket lock    *)
(* behind LOCK_LOCK is one.                                                *)
(***************************************************************************)
EXTENDS List1

CONSTANTS
    CPU,                \* the processors that may start (currentcpu->cpunum)
    MAXNUM_OF_THREADS,  \* size of td[]
    Stack,              \* the stacks alloc() can hand out: bounds the heap
    CPUNUM_ANY,         \* "may run on every processor"
    NULL

ASSUME ThreadAssumption ==
    /\ MAXNUM_OF_THREADS \in Nat \ {0}
    /\ CPUNUM_ANY \notin CPU
    /\ NULL \notin CPU \cup Stack
    /\ CPU \cap Stack = {}

VARIABLES
    state,        \* td[t].state
    cpunum,       \* td[t].cpunum
    context,      \* td[t].context: the stack that holds the saved registers
    stack,        \* td[t].stack
    func,         \* what the thread was created to run
    td_free,      \* list heads
    td_runnable,
    lock,         \* holder of thread_lock, NULL when it is free
    old_stack,    \* stack of an exited thread, still to be freed
    heap,         \* stacks that are not allocated
    tid,          \* currentcpu->thread.tid
    stackaddr,    \* currentcpu->stackaddr
    rsp,          \* the stack the processor really executes on
    pc,           \* what the processor is doing
    arg           \* oldtid of schedule(), tid of thread_wakeup()

tdvars  == <<state, cpunum, context, stack, func>>
memvars == <<old_stack, heap>>
cpuvars == <<tid, stackaddr, rsp>>
vars    == <<tdvars, td_free, td_runnable, lock, memvars, cpuvars, pc, arg>>

-----------------------------------------------------------------------------
Tid == 0 .. MAXNUM_OF_THREADS - 1

ThreadState == {"EXIT", "RUN", "WILL_STOP", "STOP"}

(***************************************************************************)
(* The roles of the threads of the VMM.  "boot" is the thread a processor  *)
(* starts in: its main loop (vt_mainloop, svm_mainloop) never stops and    *)
(* never exits.  A "server" loops forever and may stop itself until it is  *)
(* woken up (dbgsh_thread is the only one).  A "job" runs to its end (the  *)
(* command threads of the storage drivers, for example).                   *)
(***************************************************************************)
Role == {"boot", "server", "job"}

(* The boot stack of processor c is named c itself. *)
AnyStack == Stack \cup CPU

(***************************************************************************)
(* "off"      not started yet                                              *)
(* "run"      executes the code of thread tid[c]                           *)
(* "exit"     in thread_exit(), about to call schedule()                   *)
(* "wakeup"   in thread_wakeup() between its two critical sections         *)
(* "switch"   in schedule(), lock held, about to call thread_switch()      *)
(* "switched" on the new stack, lock still held                            *)
(* "assert"   ASSERT (d) failed in thread_new(): no free thread_data       *)
(* "noboot"   ASSERT (d) failed in thread_init_pcpu()                      *)
(* "panic"    a "bad state" panic                                          *)
(* "returned" thread_exit() has returned to its caller                     *)
(***************************************************************************)
Location == {"off", "run", "exit", "wakeup", "switch", "switched",
             "assert", "noboot", "panic", "returned"}

Started(c) == pc[c] \notin {"off", "noboot"}
Halted     == \E c \in CPU : pc[c] \in {"assert", "noboot", "panic", "returned"}

-----------------------------------------------------------------------------
(* A slip: schedule_skip() forgotten *)
EligibleAnywhere(c) == 1 .. Len(td_runnable)

(* The positions of td_runnable that schedule() accepts on processor c. *)
Eligible(c) ==
    {i \in 1 .. Len(td_runnable) : cpunum[td_runnable[i]] \in {CPUNUM_ANY, c}}

(* thread_data_init: what a fresh table entry holds *)
thread_data_init(t, ctx, stk, cpu, f) ==
    /\ context' = [context EXCEPT ![t] = ctx]
    /\ cpunum'  = [cpunum EXCEPT ![t] = cpu]
    /\ stack'   = [stack EXCEPT ![t] = stk]
    /\ state'   = [state EXCEPT ![t] = "RUN"]
    /\ func'    = [func EXCEPT ![t] = f]

(* A slip: currentcpu->stackaddr stays that of the old thread *)
thread_data_SaveOnly(c, old, new) ==
    /\ stack' = [stack EXCEPT ![old] = stackaddr[c]]
    /\ UNCHANGED stackaddr

(* thread_data_save_and_load *)
thread_data_save_and_load(c, old, new) ==
    /\ stack'     = [stack EXCEPT ![old] = stackaddr[c]]
    /\ stackaddr' = [stackaddr EXCEPT ![c] = stack[new]]

-----------------------------------------------------------------------------
(* thread_init_global: the table before any processor has started *)
Init ==
    /\ state       = [t \in Tid |-> "EXIT"]
    /\ cpunum      = [t \in Tid |-> CPUNUM_ANY]
    /\ context     = [t \in Tid |-> NULL]
    /\ stack       = [t \in Tid |-> NULL]
    /\ func        = [t \in Tid |-> "job"]
    /\ td_free     = [i \in 1 .. MAXNUM_OF_THREADS |-> i - 1]
    /\ td_runnable = <<>>
    /\ lock        = NULL
    /\ old_stack   = NULL
    /\ heap        = Stack
    /\ tid         = [c \in CPU |-> 0]
    /\ stackaddr   = [c \in CPU |-> c]
    /\ rsp         = [c \in CPU |-> c]
    /\ pc          = [c \in CPU |-> "off"]
    /\ arg         = [c \in CPU |-> 0]

(* ASSERT (d) in thread_new0 and thread_init_pcpu: thread_lock stays taken *)
NoFreeThread(c, where) ==
    /\ td_free = <<>>
    /\ lock' = c
    /\ pc' = [pc EXCEPT ![c] = where]
    /\ UNCHANGED <<tdvars, td_free, td_runnable, old_stack, cpuvars, arg>>

thread_init_pcpu(c) ==
    /\ pc[c] = "off"
    /\ lock = NULL
    /\ \/ /\ td_free # <<>>
          /\ td_free' = LIST1_POP(td_free)
          /\ thread_data_init(Head(td_free), NULL, NULL, c, "boot")
          /\ tid' = [tid EXCEPT ![c] = Head(td_free)]
          /\ pc' = [pc EXCEPT ![c] = "run"]
          /\ UNCHANGED <<td_runnable, lock, old_stack, stackaddr, rsp, arg>>
       \/ NoFreeThread(c, "noboot")
    /\ UNCHANGED heap

(***************************************************************************)
(* thread_new: alloc() of the stack, then thread_new0.  When no thread is  *)
(* free the machine stops, and the stack matters no more.                  *)
(***************************************************************************)
thread_new(c, f) ==
    /\ pc[c] = "run"
    /\ lock = NULL
    /\ \/ \E s \in heap :
             /\ heap' = heap \ {s}
             /\ td_free # <<>>
             /\ td_free' = LIST1_POP(td_free)
             /\ thread_data_init(Head(td_free), s, s, CPUNUM_ANY, f)
             /\ td_runnable' = LIST1_ADD(td_runnable, Head(td_free))
             /\ UNCHANGED <<lock, old_stack, cpuvars, pc, arg>>
       \/ NoFreeThread(c, "assert") /\ UNCHANGED heap

-----------------------------------------------------------------------------
(***************************************************************************)
(* schedule(), up to the call of thread_switch().  The stack left by an    *)
(* exited thread is freed first.                                           *)
(***************************************************************************)
FreeOldStack == heap' = heap \cup ({old_stack} \ {NULL})

(***************************************************************************)
(* No thread to switch to: schedule() returns.  thread_exit() would then   *)
(* return to a caller that has nothing left to execute.                    *)
(***************************************************************************)
schedule_none(c) ==
    /\ pc[c] \in {"run", "exit"}
    /\ lock = NULL
    /\ Eligible(c) = {}
    /\ FreeOldStack
    /\ old_stack' = NULL
    /\ pc' = [pc EXCEPT ![c] = IF @ = "exit" THEN "returned" ELSE "run"]
    /\ UNCHANGED <<tdvars, td_free, td_runnable, lock, cpuvars, arg>>

(* What becomes of the thread that is switched out.  rest is td_runnable   *)
(* without the thread that is switched in.  A slip: nothing becomes of it. *)
Leave_Forget(c, old, rest) ==
    /\ td_runnable' = rest
    /\ old_stack' = NULL
    /\ pc' = [pc EXCEPT ![c] = "switch"]
    /\ UNCHANGED <<td_free, state>>

Leave(c, old, rest) ==
    \/ /\ state[old] = "EXIT"
       /\ old_stack' = stackaddr[c]
       /\ td_free' = LIST1_ADD(td_free, old)
       /\ td_runnable' = rest
       /\ pc' = [pc EXCEPT ![c] = "switch"]
       /\ UNCHANGED state
    \/ /\ state[old] = "RUN"
       /\ td_runnable' = LIST1_ADD(rest, old)
       /\ old_stack' = NULL
       /\ pc' = [pc EXCEPT ![c] = "switch"]
       /\ UNCHANGED <<td_free, state>>
    \/ /\ state[old] = "WILL_STOP"
       /\ state' = [state EXCEPT ![old] = "STOP"]
       /\ td_runnable' = rest
       /\ old_stack' = NULL
       /\ pc' = [pc EXCEPT ![c] = "switch"]
       /\ UNCHANGED td_free
    \/ /\ state[old] = "STOP"
       /\ td_runnable' = rest
       /\ old_stack' = NULL
       /\ pc' = [pc EXCEPT ![c] = "panic"]
       /\ UNCHANGED <<td_free, state>>

schedule_found(c) ==
    /\ pc[c] \in {"run", "exit"}
    /\ lock = NULL
    /\ \E i \in Eligible(c) :
          /\ \A j \in Eligible(c) : i <= j
          /\ tid' = [tid EXCEPT ![c] = td_runnable[i]]
          /\ arg' = [arg EXCEPT ![c] = tid[c]]
          /\ thread_data_save_and_load(c, tid[c], td_runnable[i])
          /\ Leave(c, tid[c], DeleteAt(td_runnable, i))
    /\ FreeOldStack
    /\ lock' = c
    /\ UNCHANGED <<cpunum, context, func, rsp>>

schedule(c) == schedule_none(c) \/ schedule_found(c)

(* thread_switch (&td[oldtid].context, d->context, 0) *)
thread_switch(c) ==
    /\ pc[c] = "switch"
    /\ context' = [context EXCEPT ![arg[c]] = rsp[c]]
    /\ rsp' = [rsp EXCEPT ![c] = context[tid[c]]]
    /\ pc' = [pc EXCEPT ![c] = "switched"]
    /\ UNCHANGED <<state, cpunum, stack, func, td_free, td_runnable, lock,
                   memvars, tid, stackaddr, arg>>

(* switched(), called by schedule() and by thread_start1() *)
switched(c) ==
    /\ pc[c] = "switched"
    /\ lock' = NULL
    /\ pc' = [pc EXCEPT ![c] = "run"]
    /\ UNCHANGED <<tdvars, td_free, td_runnable, memvars, cpuvars, arg>>

-----------------------------------------------------------------------------
(* thread_set_state *)
thread_set_state(t, s) == state' = [state EXCEPT ![t] = s]

thread_will_stop(c) ==
    /\ pc[c] = "run"
    /\ lock = NULL
    /\ func[tid[c]] = "server"
    /\ thread_set_state(tid[c], "WILL_STOP")
    /\ pc' = [pc EXCEPT ![c] =
                IF state[tid[c]] \in {"RUN", "WILL_STOP"} THEN "run" ELSE "panic"]
    /\ UNCHANGED <<cpunum, context, stack, func, td_free, td_runnable, lock,
                   memvars, cpuvars, arg>>

(* thread_exit, up to its call of schedule() *)
thread_exit(c) ==
    /\ pc[c] = "run"
    /\ lock = NULL
    /\ func[tid[c]] = "job"
    /\ thread_set_state(tid[c], "EXIT")
    /\ pc' = [pc EXCEPT ![c] =
                IF state[tid[c]] = "STOP" THEN "panic" ELSE "exit"]
    /\ UNCHANGED <<cpunum, context, stack, func, td_free, td_runnable, lock,
                   memvars, cpuvars, arg>>

(* thread_wakeup: the first critical section ... *)
thread_wakeup(c, t) ==
    /\ pc[c] = "run"
    /\ lock = NULL
    /\ func[t] = "server"
    /\ thread_set_state(t, "RUN")
    /\ pc' = [pc EXCEPT ![c] = CASE state[t] \in {"RUN", "WILL_STOP"} -> "run"
                                 [] state[t] = "STOP" -> "wakeup"
                                 [] state[t] = "EXIT" -> "panic"]
    /\ arg' = [arg EXCEPT ![c] = t]
    /\ UNCHANGED <<cpunum, context, stack, func, td_free, td_runnable, lock,
                   memvars, cpuvars>>

(* A slip: the woken thread is not linked *)
thread_wakeup_Forget(c) ==
    /\ pc[c] = "wakeup"
    /\ lock = NULL
    /\ pc' = [pc EXCEPT ![c] = "run"]
    /\ UNCHANGED <<tdvars, td_free, td_runnable, lock, memvars, cpuvars, arg>>

(* ... and the second one, for a thread that was stopped *)
thread_wakeup_add(c) ==
    /\ pc[c] = "wakeup"
    /\ lock = NULL
    /\ td_runnable' = LIST1_ADD(td_runnable, arg[c])
    /\ pc' = [pc EXCEPT ![c] = "run"]
    /\ UNCHANGED <<tdvars, td_free, lock, memvars, cpuvars, arg>>

-----------------------------------------------------------------------------
(* The machine sits in the panic shell. *)
PanicShell == Halted /\ UNCHANGED vars

CpuStep(c) ==
    \/ thread_init_pcpu(c)
    \/ \E f \in {"server", "job"} : thread_new(c, f)
    \/ schedule_none(c)
    \/ schedule_found(c)
    \/ thread_switch(c)
    \/ switched(c)
    \/ thread_will_stop(c)
    \/ thread_exit(c)
    \/ \E t \in Tid : thread_wakeup(c, t)
    \/ thread_wakeup_add(c)

Next == (\E c \in CPU : CpuStep(c)) \/ PanicShell

Spec == Init /\ [][Next]_vars

(***************************************************************************)
(* Every processor starts, every thread calls schedule() again and again   *)
(* (the main loops do so on every VM exit, the drivers' threads poll with  *)
(* it), and a processor in the middle of a call goes on.  Fairness is      *)
(* strong because thread_lock is a ticket lock: a processor that wants it  *)
(* gets it.                                                                *)
(***************************************************************************)
Fairness ==
    \A c \in CPU : /\ SF_vars(schedule(c))
                   /\ SF_vars(thread_init_pcpu(c) \/ thread_wakeup_add(c))
                   /\ WF_vars(thread_switch(c) \/ switched(c))

FairSpec == Spec /\ Fairness

-----------------------------------------------------------------------------
(* Type invariant of the scheduler's data. *)
TypeOK ==
    /\ state \in [Tid -> ThreadState]
    /\ cpunum \in [Tid -> CPU \cup {CPUNUM_ANY}]
    /\ context \in [Tid -> AnyStack \cup {NULL}]
    /\ stack \in [Tid -> AnyStack \cup {NULL}]
    /\ func \in [Tid -> Role]
    /\ td_free \in Seq(Tid)
    /\ td_runnable \in Seq(Tid)
    /\ lock \in CPU \cup {NULL}
    /\ old_stack \in AnyStack \cup {NULL}
    /\ heap \subseteq Stack
    /\ tid \in [CPU -> Tid]
    /\ stackaddr \in [CPU -> AnyStack \cup {NULL}]
    /\ rsp \in [CPU -> AnyStack \cup {NULL}]
    /\ pc \in [CPU -> Location]
    /\ arg \in [CPU -> Tid]

(* Where a thread can be found. *)
Free     == Range(td_free)
Runnable == Range(td_runnable)
OnCpu    == {tid[c] : c \in {d \in CPU : Started(d)}}
Waking   == {arg[c] : c \in {d \in CPU : pc[d] = "wakeup"}}
Stopped  == {t \in Tid : state[t] = "STOP"}

(***************************************************************************)
(* A thread_data is in exactly one place: linked once into one of the two  *)
(* lists, the current thread of one processor, stopped, or in the hands of *)
(* the one thread_wakeup() call that is about to link it.  LIST1_ADD of an *)
(* entry that is still linked would corrupt the list, and an entry that is *)
(* nowhere would never run again.                                          *)
(***************************************************************************)
OnePlace ==
    /\ IsInjective(td_free) /\ IsInjective(td_runnable)
    /\ Free \cap Runnable = {}
    /\ (Free \cup Runnable) \cap (OnCpu \cup Waking \cup Stopped) = {}
    /\ OnCpu \cap (Waking \cup Stopped) = {}
    /\ Waking \cap Stopped = {}
    /\ \A c, d \in CPU : Started(c) /\ Started(d) /\ tid[c] = tid[d] => c = d
    /\ \A c, d \in CPU :
          pc[c] = "wakeup" /\ pc[d] = "wakeup" /\ arg[c] = arg[d] => c = d
    /\ Free \cup Runnable \cup OnCpu \cup Waking \cup Stopped = Tid

(***************************************************************************)
(* Processors never execute on the same stack nor on a stack that has been *)
(* freed, and a thread that schedule() may hand to another processor has   *)
(* its registers saved on a stack that nobody executes on.  This is what   *)
(* keeping thread_lock across thread_switch(), and freeing old_stack only  *)
(* in a later schedule(), is for.                                          *)
(***************************************************************************)
StackSafety ==
    /\ \A c \in CPU : rsp[c] \in AnyStack \ heap
    /\ \A c, d \in CPU : rsp[c] = rsp[d] => c = d
    /\ old_stack \notin heap
    /\ lock = NULL =>
          /\ \A c \in CPU : rsp[c] # old_stack
          /\ \A t \in Runnable \cup Waking \cup Stopped, c \in CPU :
                context[t] \in AnyStack \ heap /\ context[t] # rsp[c]

(***************************************************************************)
(* thread_exit() never returns and no "bad state" panic is reached: when a *)
(* thread other than the boot thread runs on a processor, the boot thread  *)
(* of that processor is runnable and schedule() finds it.                  *)
(***************************************************************************)
NoBadState == \A c \in CPU : pc[c] \notin {"panic", "returned"}

(* The boot thread of a processor, and only that one, is bound to it and   *)
(* never leaves it: it is current or runnable there.                       *)
BootThreadStays ==
    \A c \in CPU : Started(c) =>
        /\ cpunum[tid[c]] \in {c, CPUNUM_ANY}
        /\ \E t \in Tid : /\ cpunum[t] = c
                          /\ t = tid[c] \/ t \in Runnable

(* A runnable thread gets a processor: nobody starves in td_runnable, and  *)
(* a wakeup that has found the thread stopped is not lost on its way into  *)
(* the list.                                                               *)
ReadyThreadRuns ==
    \A t \in Tid : t \in Runnable \cup Waking ~> (t \in OnCpu \/ Halted)
=============================================================================
