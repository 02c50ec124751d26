---------------------------- MODULE ThreadProofs ----------------------------
(***************************************************************************)
(* Proofs about the scheduler for any number of processors, threads and    *)
(* stacks: a thread is in one place, stacks are not shared, and the "bad   *)
(* state" panics and the return of thread_exit() are unreachable.          *)
(***************************************************************************)
EXTENDS Thread, Lemmas

(* thread_lock is held exactly between the pick and the unlock of schedule *)
(* and by a processor whose ASSERT failed.                                 *)
LockInv ==
    /\ \A c \in CPU :
          lock = c <=> pc[c] \in {"switch", "switched", "assert", "noboot"}
    /\ NoBadState

(* The state of a thread tells where it is.                                *)
ListInv ==
    /\ IsInjective(td_free) /\ IsInjective(td_runnable)
    /\ \A t \in Free : state[t] = "EXIT"
    /\ \A t \in Runnable : state[t] = "RUN"

CurrentInv ==
    /\ \A c \in CPU : Started(c) =>
          /\ tid[c] \notin Free
          /\ tid[c] \notin Runnable
          /\ state[tid[c]] \in IF pc[c] = "exit" THEN {"EXIT"}
                                                ELSE {"RUN", "WILL_STOP"}
    /\ \A c, d \in CPU : Started(c) /\ Started(d) /\ tid[c] = tid[d] => c = d

WakingInv ==
    /\ \A c \in CPU : pc[c] = "wakeup" =>
          /\ arg[c] \notin Runnable
          /\ state[arg[c]] = "RUN"
          /\ \A d \in CPU : Started(d) => tid[d] # arg[c]
    /\ \A c, d \in CPU :
          pc[c] = "wakeup" /\ pc[d] = "wakeup" /\ arg[c] = arg[d] => c = d

NobodyLost ==
    \A t \in Tid : \/ t \in Free
                   \/ t \in Runnable
                   \/ state[t] = "STOP"
                   \/ \E c \in CPU : Started(c) /\ tid[c] = t
                   \/ \E c \in CPU : pc[c] = "wakeup" /\ arg[c] = t

PlaceInv == ListInv /\ CurrentInv /\ WakingInv /\ NobodyLost

(* What a thread's role allows it.                                         *)
RoleInv ==
    /\ \A t \in Tid : /\ func[t] = "boot" => state[t] = "RUN"
                      /\ func[t] = "job" => state[t] \in {"RUN", "EXIT"}
                      /\ func[t] = "server" => state[t] # "EXIT"
                      /\ func[t] # "boot" => cpunum[t] = CPUNUM_ANY
    /\ \A c \in CPU : Started(c) =>
          /\ cpunum[tid[c]] \in {c, CPUNUM_ANY}
          /\ \E t \in Tid : /\ cpunum[t] = c
                            /\ t = tid[c] \/ t \in Runnable

(* Threads that exist and are not current on a processor.                  *)
Parked(t) == \/ t \in Runnable
             \/ state[t] = "STOP"
             \/ \E c \in CPU : pc[c] = "wakeup" /\ arg[c] = t

(* Every thread that exists has a stack of its own.                        *)
StackInv ==
    /\ old_stack \in Stack \cup {NULL} /\ old_stack \notin heap
    /\ \A c \in CPU : /\ stackaddr[c] \in AnyStack \ heap
                      /\ stackaddr[c] # old_stack
                      /\ ~Started(c) => stackaddr[c] = c
                      /\ Started(c) /\ func[tid[c]] # "boot"
                            => stackaddr[c] \in Stack
    /\ \A c, d \in CPU : stackaddr[c] = stackaddr[d] => c = d
    /\ \A t \in Tid : Parked(t) =>
          /\ stack[t] \in AnyStack \ heap
          /\ stack[t] # old_stack
          /\ func[t] # "boot" => stack[t] \in Stack
          /\ \A c \in CPU : stack[t] # stackaddr[c]
    /\ \A t, u \in Tid :
          Parked(t) /\ Parked(u) /\ stack[t] = stack[u] => t = u

(* Where the saved registers are, and which stack a processor is on.       *)
SwitchInv ==
    /\ \A t \in Tid : Parked(t) =>
          \/ context[t] = stack[t]
          \/ \E c \in CPU : pc[c] = "switch" /\ arg[c] = t
    /\ \A c \in CPU :
          IF pc[c] = "switch"
          THEN /\ context[tid[c]] = stackaddr[c]
               /\ arg[c] # tid[c]
               /\ \/ Parked(arg[c]) /\ rsp[c] = stack[arg[c]]
                  \/ arg[c] \in Free /\ rsp[c] = old_stack /\ old_stack # NULL
          ELSE rsp[c] = stackaddr[c]

IInv == TypeOK /\ LockInv /\ PlaceInv /\ RoleInv /\ StackInv /\ SwitchInv

-----------------------------------------------------------------------------
USE ThreadAssumption

(* Before any processor has started the invariant holds.                   *)
LEMMA InitIInv == Init => IInv
  <1> SUFFICES ASSUME Init PROVE IInv
    OBVIOUS
  <1>1. /\ td_free \in Seq(Tid)
        /\ IsInjective(td_free)
        /\ Free = Tid
    <2>1. \A i \in 1 .. MAXNUM_OF_THREADS : i - 1 \in Tid
      BY SMT DEF Tid
    <2>2. td_free \in [1 .. MAXNUM_OF_THREADS -> Tid]
      BY <2>1 DEF Init
    <2>3. td_free \in Seq(Tid)
      BY <2>2, SMT
    <2>4. IsInjective(td_free)
      BY SMT DEF Init, IsInjective
    <2>5. \A t \in Tid : t + 1 \in 1 .. MAXNUM_OF_THREADS /\ td_free[t + 1] = t
      BY SMT DEF Init, Tid
    <2>6. \A t \in Tid : t \in Free
      BY <2>2, <2>5 DEF Free, Range
    <2>7. \A t \in Free : t \in Tid
      BY <2>2 DEF Free, Range
    <2>8. QED  BY <2>3, <2>4, <2>6, <2>7
  <1>2. /\ td_runnable \in Seq(Tid)
        /\ IsInjective(td_runnable)
        /\ Runnable = {}
    BY DEF Init, Runnable, Range, IsInjective
  <1>3. 0 \in Tid
    BY SMT DEF Tid
  <1>4. TypeOK
    BY <1>1, <1>2, <1>3 DEF Init, TypeOK, ThreadState, Role, Location, AnyStack
  <1>5. LockInv
    BY DEF Init, LockInv, NoBadState
  <1>6. PlaceInv
    BY <1>1, <1>2 DEF Init, PlaceInv, ListInv, CurrentInv, WakingInv, NobodyLost, Started
  <1>7. RoleInv
    BY DEF Init, RoleInv, Started
  <1>8. \A t \in Tid : ~Parked(t)
    BY <1>2 DEF Init, Parked
  <1>9. StackInv
    BY <1>8 DEF Init, StackInv, Started, AnyStack
  <1>10. SwitchInv
    BY <1>8 DEF Init, SwitchInv
  <1>11. QED  BY <1>4, <1>5, <1>6, <1>7, <1>9, <1>10 DEF IInv

(* The lists before a step, as the sets the invariant talks about.         *)
LEMMA ListFacts ==
    ASSUME IInv
    PROVE  /\ td_free \in Seq(Tid) /\ IsInjective(td_free) /\ Free \subseteq Tid
           /\ td_runnable \in Seq(Tid) /\ IsInjective(td_runnable)
           /\ Runnable \subseteq Tid
  <1>1. td_free \in Seq(Tid) /\ td_runnable \in Seq(Tid)
    BY DEF IInv, TypeOK
  <1>2. Free \subseteq Tid /\ Runnable \subseteq Tid
    BY <1>1 DEF Free, Runnable, Range
  <1>3. QED  BY <1>1, <1>2 DEF IInv, PlaceInv, ListInv

(* Starting a processor takes its boot thread from the free list.          *)
LEMMA InitPcpuIInv ==
    ASSUME IInv, NEW c \in CPU, thread_init_pcpu(c)
    PROVE  IInv'
  <1>1. CASE td_free # <<>>
    <2> DEFINE h == Head(td_free)
    <2>1. /\ h \in Tid /\ h \in Free
          /\ td_free' \in Seq(Tid) /\ IsInjective(td_free')
          /\ Free' = Free \ {h}
          /\ Runnable' = Runnable
      BY <1>1, ListFacts, PopProperties
         DEF thread_init_pcpu, NoFreeThread, Free, Runnable
    <2>2. /\ pc[c] = "off" /\ lock = NULL /\ lock' = NULL
          /\ context' = [context EXCEPT ![h] = NULL]
          /\ cpunum' = [cpunum EXCEPT ![h] = c]
          /\ stack' = [stack EXCEPT ![h] = NULL]
          /\ state' = [state EXCEPT ![h] = "RUN"]
          /\ func' = [func EXCEPT ![h] = "boot"]
          /\ tid' = [tid EXCEPT ![c] = h]
          /\ pc' = [pc EXCEPT ![c] = "run"]
          /\ UNCHANGED <<td_runnable, lock, old_stack, heap, stackaddr, rsp, arg>>
      BY <1>1 DEF thread_init_pcpu, NoFreeThread, thread_data_init
    <2> HIDE DEF h
    <2>3. TypeOK'
      BY <2>1, <2>2, ListFacts
         DEF IInv, TypeOK, ThreadState, Role, Location, AnyStack
    <2>4. LockInv'
      BY <2>2 DEF IInv, TypeOK, LockInv, NoBadState
    <2>5. state[h] = "EXIT" /\ h \notin Runnable
      BY <2>1 DEF IInv, PlaceInv, ListInv
    <2>6. \A d \in CPU : Started(d) => tid[d] # h
      BY <2>1 DEF IInv, PlaceInv, CurrentInv
    <2>7. \A d \in CPU : pc[d] = "wakeup" => arg[d] # h
      BY <2>5 DEF IInv, PlaceInv, WakingInv
    <2>8. PlaceInv'
      <3>1. ListInv'
        BY <2>1, <2>2, <2>5, ListFacts DEF IInv, TypeOK, PlaceInv, ListInv
      <3>2. CurrentInv'
        BY <2>1, <2>2, <2>5, <2>6
           DEF IInv, TypeOK, PlaceInv, CurrentInv, Started
      <3>3. WakingInv'
        BY <2>1, <2>2, <2>5, <2>7 DEF IInv, TypeOK, PlaceInv, WakingInv, Started
      <3>4. NobodyLost'
        BY <2>1, <2>2 DEF IInv, TypeOK, PlaceInv, NobodyLost, Started
      <3>5. QED  BY <3>1, <3>2, <3>3, <3>4 DEF PlaceInv
    <2>9. RoleInv'
      BY <2>1, <2>2, <2>5, <2>6 DEF IInv, TypeOK, RoleInv, Started
    <2>10. \A t \in Tid : Parked(t)' <=> Parked(t) /\ t # h
      BY <2>1, <2>2, <2>5, <2>7 DEF IInv, TypeOK, Parked
    <2>11. StackInv'
      BY <2>1, <2>2, <2>6, <2>10 DEF IInv, TypeOK, StackInv, Started, AnyStack
    <2>12. SwitchInv'
      BY <2>1, <2>2, <2>10 DEF IInv, TypeOK, LockInv, SwitchInv
    <2>13. QED  BY <2>3, <2>4, <2>8, <2>9, <2>11, <2>12 DEF IInv
  <1>2. CASE td_free = <<>>
    <2>1. /\ pc[c] = "off" /\ lock = NULL /\ lock' = c
          /\ pc' = [pc EXCEPT ![c] = "noboot"]
          /\ UNCHANGED <<tdvars, td_free, td_runnable, memvars, cpuvars, arg>>
      BY <1>2 DEF thread_init_pcpu, NoFreeThread, memvars
    <2>2. Free' = Free /\ Runnable' = Runnable
      BY <2>1 DEF Free, Runnable
    <2>3. \A t \in Tid : Parked(t)' <=> Parked(t)
      BY <2>1, <2>2 DEF IInv, TypeOK, Parked, tdvars
    <2>4. TypeOK' /\ LockInv'
      BY <2>1 DEF IInv, TypeOK, LockInv, NoBadState, Location, tdvars, memvars, cpuvars
    <2>5. PlaceInv' /\ RoleInv'
      <3>1. ListInv'
        BY <2>1, <2>2 DEF IInv, PlaceInv, ListInv, tdvars
      <3>2. CurrentInv' /\ WakingInv'
        BY <2>1, <2>2 DEF IInv, TypeOK, PlaceInv, CurrentInv, WakingInv,
                          Started, tdvars, cpuvars
      <3>3. NobodyLost'
        BY <2>1, <2>2
           DEF IInv, TypeOK, PlaceInv, NobodyLost, Started, tdvars, cpuvars
      <3>4. RoleInv'
        BY <2>1, <2>2 DEF IInv, TypeOK, RoleInv, Started, tdvars, cpuvars
      <3>5. QED  BY <3>1, <3>2, <3>3, <3>4 DEF PlaceInv
    <2>6. StackInv' /\ SwitchInv'
      BY <2>1, <2>2, <2>3
         DEF IInv, TypeOK, StackInv, SwitchInv, Started, tdvars, memvars, cpuvars
    <2>7. QED  BY <2>4, <2>5, <2>6 DEF IInv
  <1>3. QED  BY <1>1, <1>2

(* A new thread gets a free table entry and a stack nobody has.            *)
LEMMA NewIInv ==
    ASSUME IInv, NEW c \in CPU, NEW f \in {"server", "job"}, thread_new(c, f)
    PROVE  IInv'
  <1>1. CASE td_free # <<>>
    <2>0. PICK s \in heap :
            /\ heap' = heap \ {s}
            /\ td_free' = LIST1_POP(td_free)
            /\ thread_data_init(Head(td_free), s, s, CPUNUM_ANY, f)
            /\ td_runnable' = LIST1_ADD(td_runnable, Head(td_free))
            /\ UNCHANGED <<lock, old_stack, cpuvars, pc, arg>>
      BY <1>1 DEF thread_new, NoFreeThread
    <2> DEFINE h == Head(td_free)
    <2>1. /\ h \in Tid /\ h \in Free
          /\ td_free' \in Seq(Tid) /\ IsInjective(td_free')
          /\ Free' = Free \ {h}
      BY <2>0, <1>1, ListFacts, PopProperties DEF Free
    <2>2. state[h] = "EXIT" /\ h \notin Runnable
      BY <2>1 DEF IInv, PlaceInv, ListInv
    <2>3. /\ td_runnable' \in Seq(Tid) /\ IsInjective(td_runnable')
          /\ Runnable' = Runnable \cup {h}
      <3>1. td_runnable' = LIST1_ADD(td_runnable, h)
        BY <2>0
      <3> HIDE DEF h
      <3>2. /\ LIST1_ADD(td_runnable, h) \in Seq(Tid)
            /\ Range(LIST1_ADD(td_runnable, h)) = Range(td_runnable) \cup {h}
            /\ h \notin Range(td_runnable) => IsInjective(LIST1_ADD(td_runnable, h))
        BY <2>1, ListFacts, AddProperties
      <3>3. QED  BY <2>2, <3>1, <3>2 DEF Runnable
    <2>4. /\ context' = [context EXCEPT ![h] = s]
          /\ cpunum' = [cpunum EXCEPT ![h] = CPUNUM_ANY]
          /\ stack' = [stack EXCEPT ![h] = s]
          /\ state' = [state EXCEPT ![h] = "RUN"]
          /\ func' = [func EXCEPT ![h] = f]
          /\ heap' = heap \ {s}
          /\ UNCHANGED <<lock, old_stack, tid, stackaddr, rsp, pc, arg>>
      BY <2>0 DEF thread_data_init, cpuvars
    <2> HIDE DEF h
    <2>5. TypeOK'
      BY <2>1, <2>3, <2>4
         DEF IInv, TypeOK, ThreadState, Role, Location, AnyStack
    <2>6. LockInv'
      BY <2>4 DEF IInv, TypeOK, LockInv, NoBadState
    <2>7. \A d \in CPU : Started(d) => tid[d] # h
      BY <2>1 DEF IInv, PlaceInv, CurrentInv
    <2>8. \A d \in CPU : pc[d] = "wakeup" => arg[d] # h
      BY <2>2 DEF IInv, PlaceInv, WakingInv
    <2>9. PlaceInv'
      <3>1. ListInv'
        BY <2>1, <2>2, <2>3, <2>4, ListFacts DEF IInv, TypeOK, PlaceInv, ListInv
      <3>2. CurrentInv'
        BY <2>1, <2>3, <2>4, <2>7 DEF IInv, TypeOK, PlaceInv, CurrentInv, Started
      <3>3. WakingInv'
        BY <2>3, <2>4, <2>8 DEF IInv, TypeOK, PlaceInv, WakingInv, Started
      <3>4. NobodyLost'
        BY <2>1, <2>3, <2>4 DEF IInv, TypeOK, PlaceInv, NobodyLost, Started
      <3>5. QED  BY <3>1, <3>2, <3>3, <3>4 DEF PlaceInv
    <2>10. RoleInv'
      <3>1. \A t \in Tid : cpunum[t] \in CPU => t # h
        <4>1. func[h] # "boot"
          BY <2>1, <2>2 DEF IInv, RoleInv
        <4>2. cpunum[h] = CPUNUM_ANY
          BY <2>1, <4>1 DEF IInv, RoleInv
        <4>3. QED  BY <4>2
      <3>2. QED
        <4>1. /\ \A t \in Tid \ {h} : /\ func'[t] = func[t]
                                      /\ state'[t] = state[t]
                                      /\ cpunum'[t] = cpunum[t]
              /\ func'[h] = f /\ state'[h] = "RUN" /\ cpunum'[h] = CPUNUM_ANY
          BY <2>1, <2>4 DEF IInv, TypeOK
        <4>2. \A d \in CPU : Started(d)' <=> Started(d)
          BY <2>4 DEF Started
        <4>3. tid' = tid /\ tid \in [CPU -> Tid]
          BY <2>4 DEF IInv, TypeOK
        <4>4. ASSUME NEW d \in CPU, Started(d)
              PROVE  /\ cpunum'[tid'[d]] \in {d, CPUNUM_ANY}
                     /\ \E t \in Tid : /\ cpunum'[t] = d
                                       /\ t = tid'[d] \/ t \in Runnable'
          <5>1. PICK t \in Tid : cpunum[t] = d /\ (t = tid[d] \/ t \in Runnable)
            BY <4>4 DEF IInv, RoleInv
          <5>2. cpunum'[t] = d /\ (t = tid'[d] \/ t \in Runnable')
            BY <2>3, <3>1, <4>1, <4>3, <5>1
          <5>3. cpunum'[tid'[d]] = cpunum[tid[d]]
            BY <2>7, <4>1, <4>3, <4>4
          <5>4. QED  BY <4>4, <5>2, <5>3 DEF IInv, RoleInv
        <4>5. QED
          BY <4>1, <4>2, <4>4 DEF IInv, RoleInv
    <2>11. \A t \in Tid : Parked(t)' <=> Parked(t) \/ t = h
      BY <2>1, <2>3, <2>4, <2>8 DEF IInv, TypeOK, Parked
    <2>12. ~Parked(h) /\ s \in Stack
      BY <2>1, <2>2, <2>8 DEF IInv, TypeOK, Parked
    <2>13. StackInv'
      BY <2>1, <2>4, <2>7, <2>11, <2>12
         DEF IInv, TypeOK, StackInv, Started, AnyStack
    <2>14. SwitchInv'
      <3>1. \A d \in CPU : pc[d] # "switch"
        BY DEF thread_new, IInv, LockInv
      <3>2. QED  BY <2>1, <2>4, <2>11, <3>1 DEF IInv, TypeOK, SwitchInv
    <2>15. QED  BY <2>5, <2>6, <2>9, <2>10, <2>13, <2>14 DEF IInv
  <1>2. CASE td_free = <<>>
    <2>1. /\ pc[c] = "run" /\ lock = NULL /\ lock' = c
          /\ pc' = [pc EXCEPT ![c] = "assert"]
          /\ heap' = heap
          /\ UNCHANGED <<tdvars, td_free, td_runnable, old_stack, cpuvars, arg>>
      BY <1>2 DEF thread_new, NoFreeThread
    <2>2. Free' = Free /\ Runnable' = Runnable
      BY <2>1 DEF Free, Runnable
    <2>3. \A t \in Tid : Parked(t)' <=> Parked(t)
      BY <2>1, <2>2 DEF IInv, TypeOK, Parked, tdvars
    <2>4. TypeOK' /\ LockInv'
      BY <2>1 DEF IInv, TypeOK, LockInv, NoBadState, Location, tdvars, cpuvars
    <2>5. ListInv'
      BY <2>1, <2>2 DEF IInv, PlaceInv, ListInv, tdvars
    <2>6. CurrentInv' /\ WakingInv'
      BY <2>1, <2>2 DEF IInv, TypeOK, PlaceInv, CurrentInv, WakingInv,
                        Started, tdvars, cpuvars
    <2>7. NobodyLost'
      BY <2>1, <2>2
         DEF IInv, TypeOK, PlaceInv, NobodyLost, Started, tdvars, cpuvars
    <2>8. RoleInv'
      BY <2>1, <2>2 DEF IInv, TypeOK, RoleInv, Started, tdvars, cpuvars
    <2>9. StackInv'
      BY <2>1, <2>3 DEF IInv, TypeOK, StackInv, Started, tdvars, cpuvars
    <2>10. SwitchInv'
      BY <2>1, <2>2, <2>3 DEF IInv, TypeOK, SwitchInv, tdvars, cpuvars
    <2>11. QED
      BY <2>4, <2>5, <2>6, <2>7, <2>8, <2>9, <2>10 DEF IInv, PlaceInv
  <1>3. QED  BY <1>1, <1>2

(* schedule() that finds nobody: thread_exit() is not its caller, because  *)
(* the boot thread of the processor would have been found.                 *)
LEMMA ScheduleNoneIInv ==
    ASSUME IInv, NEW c \in CPU, schedule_none(c)
    PROVE  IInv'
  <1>1. pc[c] = "run"
    <2> SUFFICES ASSUME pc[c] = "exit" PROVE FALSE
      BY DEF schedule_none
    <2>1. Started(c) /\ state[tid[c]] = "EXIT"
      BY DEF Started, IInv, PlaceInv, CurrentInv
    <2>2. PICK t \in Tid : cpunum[t] = c /\ (t = tid[c] \/ t \in Runnable)
      BY <2>1 DEF IInv, RoleInv
    <2>3. func[t] = "boot"
      BY <2>2 DEF IInv, RoleInv
    <2>4. t \in Runnable
      BY <2>1, <2>2, <2>3 DEF IInv, RoleInv
    <2>5. PICK i \in 1 .. Len(td_runnable) : td_runnable[i] = t
      BY <2>4, ListFacts DEF Runnable, Range
    <2>6. i \in Eligible(c)
      BY <2>2, <2>5 DEF Eligible
    <2>7. QED  BY <2>6 DEF schedule_none
  <1>2. /\ pc[c] = "run" /\ lock = NULL
        /\ heap' = heap \cup ({old_stack} \ {NULL})
        /\ old_stack' = NULL
        /\ pc' = [pc EXCEPT ![c] = "run"]
        /\ UNCHANGED <<tdvars, td_free, td_runnable, lock, cpuvars, arg>>
    BY <1>1 DEF schedule_none, FreeOldStack
  <1>3. pc' = pc
    BY <1>2 DEF IInv, TypeOK
  <1>4. Free' = Free /\ Runnable' = Runnable
    BY <1>2 DEF Free, Runnable
  <1>5. \A t \in Tid : Parked(t)' <=> Parked(t)
    BY <1>2, <1>3, <1>4 DEF Parked, tdvars
  <1>6. TypeOK'
    BY <1>2, <1>3 DEF IInv, TypeOK, StackInv, tdvars, cpuvars
  <1>7. LockInv' /\ ListInv'
    BY <1>2, <1>3, <1>4
       DEF IInv, LockInv, NoBadState, PlaceInv, ListInv, tdvars
  <1>8. CurrentInv' /\ WakingInv' /\ NobodyLost' /\ RoleInv'
    BY <1>2, <1>3, <1>4
       DEF IInv, PlaceInv, CurrentInv, WakingInv, NobodyLost, RoleInv,
           Started, tdvars, cpuvars
  <1>9. StackInv'
    <2>1. /\ \A x \in AnyStack : x \in heap' => x \in heap \/ x = old_stack
          /\ old_stack' = NULL /\ NULL \notin heap' /\ NULL \notin AnyStack
      BY <1>2 DEF IInv, TypeOK, AnyStack
    <2>2. /\ stack' = stack /\ stackaddr' = stackaddr /\ pc' = pc
          /\ func' = func /\ tid' = tid
      BY <1>2, <1>3 DEF tdvars, cpuvars
    <2>3. QED  BY <1>5, <2>1, <2>2 DEF IInv, StackInv, Started
  <1>10. SwitchInv'
    <2>1. \A d \in CPU : pc[d] # "switch"
      BY <1>2 DEF IInv, LockInv
    <2>2. QED  BY <1>2, <1>3, <1>5, <2>1 DEF IInv, SwitchInv, tdvars, cpuvars
  <1>11. QED
    BY <1>6, <1>7, <1>8, <1>9, <1>10 DEF IInv, PlaceInv

(* schedule() switches to the first eligible runnable thread: the old one  *)
(* goes where its state says, the new one becomes current.                 *)
LEMMA ScheduleFoundIInv ==
    ASSUME IInv, NEW c \in CPU, schedule_found(c)
    PROVE  IInv'
  <1>o. PICK o \in Tid : o = tid[c]
    BY DEF IInv, TypeOK
  <1>0. PICK i \in Eligible(c) :
          /\ tid' = [tid EXCEPT ![c] = td_runnable[i]]
          /\ arg' = [arg EXCEPT ![c] = o]
          /\ thread_data_save_and_load(c, o, td_runnable[i])
          /\ Leave(c, o, DeleteAt(td_runnable, i))
    BY <1>o DEF schedule_found
  <1>n. PICK n \in Tid : n = td_runnable[i]
    BY <1>0, ListFacts DEF Eligible
  <1> DEFINE rest == DeleteAt(td_runnable, i)
  <1>1. i \in 1 .. Len(td_runnable) /\ cpunum[n] \in {CPUNUM_ANY, c}
    BY <1>0, <1>n DEF Eligible
  <1>2. /\ rest \in Seq(Tid) /\ IsInjective(rest)
        /\ Range(rest) = Runnable \ {n}
        /\ n \in Runnable /\ n \in Tid
    BY <1>1, <1>n, ListFacts, DeleteAtProperties DEF Runnable
  <1>3. /\ pc[c] \in {"run", "exit"} /\ lock = NULL /\ lock' = c
        /\ heap' = heap \cup ({old_stack} \ {NULL})
        /\ cpunum' = cpunum /\ context' = context /\ func' = func /\ rsp' = rsp
        /\ tid' = [tid EXCEPT ![c] = n]
        /\ arg' = [arg EXCEPT ![c] = o]
        /\ stack' = [stack EXCEPT ![o] = stackaddr[c]]
        /\ stackaddr' = [stackaddr EXCEPT ![c] = stack[n]]
    BY <1>0, <1>n DEF schedule_found, thread_data_save_and_load, FreeOldStack
  <1>4. o \in Tid /\ Started(c)
    BY <1>3 DEF Started
  <1>5. /\ o \notin Free /\ o \notin Runnable /\ o # n
        /\ state[o] \in {"RUN", "WILL_STOP", "EXIT"}
        /\ state[n] = "RUN"
    BY <1>o, <1>2, <1>4 DEF IInv, PlaceInv, ListInv, CurrentInv
  <1>6. /\ pc' = [pc EXCEPT ![c] = "switch"]
        /\ state[o] = "EXIT" =>
              /\ td_free' = LIST1_ADD(td_free, o) /\ td_runnable' = rest
              /\ old_stack' = stackaddr[c] /\ state' = state
        /\ state[o] = "RUN" =>
              /\ td_free' = td_free /\ td_runnable' = LIST1_ADD(rest, o)
              /\ old_stack' = NULL /\ state' = state
        /\ state[o] = "WILL_STOP" =>
              /\ td_free' = td_free /\ td_runnable' = rest
              /\ old_stack' = NULL /\ state' = [state EXCEPT ![o] = "STOP"]
    BY <1>0, <1>5 DEF Leave
  <1> HIDE DEF rest
  <1>7. /\ LIST1_ADD(td_free, o) \in Seq(Tid)
        /\ IsInjective(LIST1_ADD(td_free, o))
        /\ Range(LIST1_ADD(td_free, o)) = Free \cup {o}
    BY <1>4, <1>5, ListFacts, AddProperties DEF Free
  <1>8. /\ LIST1_ADD(rest, o) \in Seq(Tid)
        /\ IsInjective(LIST1_ADD(rest, o))
        /\ Range(LIST1_ADD(rest, o)) = (Runnable \ {n}) \cup {o}
    BY <1>2, <1>4, <1>5, AddProperties
  <1>9. /\ td_free' \in Seq(Tid) /\ IsInjective(td_free')
        /\ td_runnable' \in Seq(Tid) /\ IsInjective(td_runnable')
    BY <1>2, <1>5, <1>6, <1>7, <1>8, ListFacts
  <1>10. /\ \A t : t \in Free' <=> t \in Free \/ (state[o] = "EXIT" /\ t = o)
         /\ \A t : t \in Runnable' <=> \/ t \in Runnable /\ t # n
                                       \/ state[o] = "RUN" /\ t = o
    <2>1. CASE state[o] = "EXIT"
      BY <1>2, <1>6, <1>7, <2>1 DEF Free, Runnable
    <2>2. CASE state[o] = "RUN"
      BY <1>6, <1>8, <2>2 DEF Free, Runnable
    <2>3. CASE state[o] = "WILL_STOP"
      BY <1>2, <1>6, <2>3 DEF Free, Runnable
    <2>4. QED  BY <1>5, <2>1, <2>2, <2>3
  <1>11. /\ state' \in [Tid -> ThreadState]
         /\ \A t \in Tid : t # o => state'[t] = state[t]
         /\ state'[o] = IF state[o] = "WILL_STOP" THEN "STOP" ELSE state[o]
    BY <1>4, <1>5, <1>6 DEF IInv, TypeOK, ThreadState
  <1>12. old_stack' = IF state[o] = "EXIT" THEN stackaddr[c] ELSE NULL
    BY <1>5, <1>6
  <1>13. pc[c] = "exit" <=> state[o] = "EXIT"
    BY <1>o, <1>4, <1>5 DEF IInv, PlaceInv, CurrentInv
  <1>14. state[o] = "EXIT" => func[o] = "job"
    BY <1>4 DEF IInv, TypeOK, RoleInv, Role
  <1>15. /\ \A d \in CPU \ {c} : /\ pc'[d] = pc[d]
                                 /\ tid'[d] = tid[d]
                                 /\ arg'[d] = arg[d]
                                 /\ stackaddr'[d] = stackaddr[d]
         /\ pc'[c] = "switch" /\ tid'[c] = n /\ arg'[c] = o
         /\ stackaddr'[c] = stack[n]
         /\ \A t \in Tid \ {o} : stack'[t] = stack[t]
         /\ stack'[o] = stackaddr[c]
    BY <1>3, <1>4, <1>6 DEF IInv, TypeOK
  <1>16. \A d \in CPU : Started(d)' <=> Started(d)
    BY <1>4, <1>15 DEF Started
  <1>17. \A d \in CPU : d # c /\ Started(d) => tid[d] # o /\ tid[d] # n
    BY <1>o, <1>2, <1>4 DEF IInv, PlaceInv, CurrentInv
  <1>18. \A d \in CPU : pc[d] = "wakeup" => arg[d] # o /\ arg[d] # n
    BY <1>o, <1>2, <1>4 DEF IInv, PlaceInv, WakingInv
  <1>19. \A d \in CPU : pc[d] # "switch"
    BY <1>3 DEF IInv, LockInv
  <1>20. \A t \in Tid : Parked(t)' <=> \/ Parked(t) /\ t # n
                                       \/ state[o] # "EXIT" /\ t = o
    <2>1. \A t \in Tid : (\E d \in CPU : pc[d] = "wakeup" /\ arg[d] = t)'
                            <=> \E d \in CPU : pc[d] = "wakeup" /\ arg[d] = t
      BY <1>3, <1>15
    <2>2. QED
      BY <1>2, <1>5, <1>10, <1>11, <1>18, <2>1 DEF Parked
  <1>21. Parked(n) /\ ~Parked(o)
    BY <1>2, <1>5, <1>18 DEF Parked
  <1>22. TypeOK'
    <2>1. old_stack \in Stack \cup {NULL} /\ heap \subseteq Stack
      BY DEF IInv, TypeOK, StackInv
    <2>2. heap' \subseteq Stack
      BY <1>3, <2>1
    <2>3. pc' \in [CPU -> Location]
      BY <1>6 DEF IInv, TypeOK, Location
    <2>4. old_stack' \in AnyStack \cup {NULL}
      BY <1>12 DEF IInv, TypeOK
    <2>5. QED
      BY <1>2, <1>3, <1>4, <1>9, <1>11, <2>2, <2>3, <2>4
         DEF IInv, TypeOK
  <1>23. LockInv'
    BY <1>3, <1>15 DEF IInv, LockInv, NoBadState
  <1>24. PlaceInv'
    <2>1. ListInv'
      BY <1>4, <1>5, <1>9, <1>10, <1>11, ListFacts DEF IInv, PlaceInv, ListInv
    <2>2. CurrentInv'
      <3>1. \A d \in CPU : d # c /\ Started(d) =>
              /\ tid[d] \in Tid \ {o, n}
              /\ tid[d] \notin Free /\ tid[d] \notin Runnable
              /\ state[tid[d]] \in IF pc[d] = "exit" THEN {"EXIT"}
                                                     ELSE {"RUN", "WILL_STOP"}
        BY <1>17 DEF IInv, TypeOK, PlaceInv, CurrentInv
      <3>2. \A d \in CPU : Started(d) =>
              /\ tid'[d] \notin Free'
              /\ tid'[d] \notin Runnable'
              /\ state'[tid'[d]] \in IF pc'[d] = "exit" THEN {"EXIT"}
                                                        ELSE {"RUN", "WILL_STOP"}
        <4>1. /\ n \notin Free' /\ n \notin Runnable' /\ state'[n] = "RUN"
          BY <1>2, <1>5, <1>10, <1>11 DEF IInv, PlaceInv, ListInv
        <4>2. QED  BY <1>10, <1>11, <1>15, <3>1, <4>1
      <3>3. \A d, e \in CPU : Started(d) /\ Started(e) /\ tid'[d] = tid'[e] => d = e
        BY <1>15, <3>1 DEF IInv, PlaceInv, CurrentInv
      <3>4. QED  BY <1>16, <3>2, <3>3 DEF CurrentInv
    <2>3. WakingInv'
      BY <1>2, <1>5, <1>10, <1>11, <1>15, <1>16, <1>18
         DEF IInv, TypeOK, PlaceInv, WakingInv
    <2>4. NobodyLost'
      <3> SUFFICES ASSUME NEW t \in Tid, t \notin Free', t \notin Runnable',
                          state'[t] # "STOP",
                          ~\E d \in CPU : pc'[d] = "wakeup" /\ arg'[d] = t
                   PROVE  \E d \in CPU : Started(d)' /\ tid'[d] = t
        BY DEF NobodyLost
      <3>1. CASE t = n
        BY <1>4, <1>15, <1>16, <3>1
      <3>2. CASE t = o
        BY <1>5, <1>10, <1>11, <3>2
      <3>3. CASE t # n /\ t # o
        <4>1. t \notin Free /\ t \notin Runnable /\ state[t] # "STOP"
          BY <1>10, <1>11, <3>3
        <4>2. ~\E d \in CPU : pc[d] = "wakeup" /\ arg[d] = t
          BY <1>3, <1>15
        <4>3. PICK d \in CPU : Started(d) /\ tid[d] = t
          BY <4>1, <4>2 DEF IInv, PlaceInv, NobodyLost
        <4>4. QED  BY <1>o, <1>15, <1>16, <3>3, <4>3
      <3>4. QED  BY <3>1, <3>2, <3>3
    <2>5. QED  BY <2>1, <2>2, <2>3, <2>4 DEF PlaceInv
  <1>25. RoleInv'
    <2>1. \A t \in Tid : /\ func[t] = "boot" => state'[t] = "RUN"
                         /\ func[t] = "job" => state'[t] \in {"RUN", "EXIT"}
                         /\ func[t] = "server" => state'[t] # "EXIT"
      BY <1>5, <1>11 DEF IInv, RoleInv
    <2>2. ASSUME NEW d \in CPU, Started(d)
          PROVE  /\ cpunum[tid'[d]] \in {d, CPUNUM_ANY}
                 /\ \E t \in Tid : /\ cpunum[t] = d
                                   /\ t = tid'[d] \/ t \in Runnable'
      <3>1. PICK t \in Tid : cpunum[t] = d /\ (t = tid[d] \/ t \in Runnable)
        BY <2>2 DEF IInv, RoleInv
      <3>2. func[t] = "boot" /\ state[t] = "RUN"
        BY <3>1 DEF IInv, RoleInv
      <3>3. CASE d = c
        BY <1>o, <1>n, <1>1, <1>10, <1>15, <3>1, <3>2, <3>3
      <3>4. CASE d # c
        BY <1>n, <1>1, <1>10, <1>15, <2>2, <3>1, <3>4 DEF IInv, RoleInv
      <3>5. QED  BY <3>3, <3>4
    <2>3. QED  BY <1>3, <1>16, <2>1, <2>2 DEF IInv, RoleInv
  <1>26. StackInv'
    <2>1. /\ \A x \in AnyStack : x \in heap' => x \in heap \/ x = old_stack
          /\ NULL \notin heap' /\ NULL \notin AnyStack
          /\ stackaddr[c] \in AnyStack \ heap /\ stackaddr[c] # old_stack
      BY <1>3 DEF IInv, TypeOK, StackInv, AnyStack
    <2>2. func[o] # "boot" => stackaddr[c] \in Stack
      BY <1>o, <1>4 DEF IInv, StackInv
    <2>3. /\ stack[n] \in AnyStack \ heap /\ stack[n] # old_stack
          /\ \A d \in CPU : stack[n] # stackaddr[d]
          /\ func[n] # "boot" => stack[n] \in Stack
      BY <1>2, <1>21 DEF IInv, StackInv
    <2>4. /\ old_stack' \in Stack \cup {NULL}
          /\ old_stack' \notin heap'
      BY <1>12, <1>14, <2>1, <2>2
    <2>5. \A d \in CPU : /\ stackaddr'[d] \in AnyStack \ heap'
                         /\ stackaddr'[d] # old_stack'
      BY <1>12, <1>15, <2>1, <2>3 DEF IInv, StackInv
    <2>6. \A d \in CPU : /\ ~Started(d) => stackaddr'[d] = d
                         /\ Started(d) /\ func[tid'[d]] # "boot"
                               => stackaddr'[d] \in Stack
      BY <1>4, <1>15, <2>3 DEF IInv, StackInv
    <2>7. \A d, e \in CPU : stackaddr'[d] = stackaddr'[e] => d = e
      BY <1>15, <2>3 DEF IInv, StackInv
    <2>8. ASSUME NEW t \in Tid, Parked(t)'
          PROVE  /\ stack'[t] \in AnyStack \ heap'
                 /\ stack'[t] # old_stack'
                 /\ func[t] # "boot" => stack'[t] \in Stack
                 /\ \A d \in CPU : stack'[t] # stackaddr'[d]
      <3>1. CASE t = o
        <4>1. state[o] # "EXIT" /\ stack'[t] = stackaddr[c]
          BY <1>15, <1>20, <1>21, <2>8, <3>1
        <4>2. QED  BY <1>12, <1>15, <2>1, <2>2, <2>3, <3>1, <4>1 DEF IInv, StackInv
      <3>2. CASE t # o
        <4>1. Parked(t) /\ t # n /\ stack'[t] = stack[t]
          BY <1>15, <1>20, <2>8, <3>2
        <4>2. /\ stack[t] \in AnyStack \ heap /\ stack[t] # old_stack
              /\ func[t] # "boot" => stack[t] \in Stack
              /\ \A d \in CPU : stack[t] # stackaddr[d]
              /\ stack[t] # stack[n]
          BY <1>2, <1>21, <4>1 DEF IInv, StackInv
        <4>3. QED  BY <1>12, <1>15, <2>1, <4>1, <4>2
      <3>3. QED  BY <3>1, <3>2
    <2>9. ASSUME NEW t \in Tid, NEW u \in Tid, Parked(t)', Parked(u)',
                 stack'[t] = stack'[u]
          PROVE  t = u
      <3>1. \A x \in Tid : Parked(x)' /\ x # o
                              => Parked(x) /\ stack'[x] = stack[x]
        BY <1>15, <1>20
      <3>2. \A x \in Tid : Parked(x) => stack[x] # stackaddr[c]
        BY DEF IInv, StackInv
      <3>3. QED  BY <1>15, <2>9, <3>1, <3>2 DEF IInv, StackInv
    <2>10. QED
      BY <1>3, <1>16, <2>4, <2>5, <2>6, <2>7, <2>8, <2>9 DEF StackInv
  <1>27. SwitchInv'
    <2>1. context[n] = stack[n]
      BY <1>2, <1>19, <1>21 DEF IInv, SwitchInv
    <2>2. \A d \in CPU : rsp[d] = stackaddr[d]
      BY <1>19 DEF IInv, SwitchInv
    <2>3. ASSUME NEW t \in Tid, Parked(t)'
          PROVE  \/ context[t] = stack'[t]
                 \/ \E d \in CPU : pc'[d] = "switch" /\ arg'[d] = t
      BY <1>15, <1>19, <1>20, <2>3 DEF IInv, SwitchInv
    <2>4. \/ Parked(o)' /\ rsp[c] = stack'[o]
          \/ o \in Free' /\ rsp[c] = old_stack' /\ old_stack' # NULL
      BY <1>4, <1>10, <1>12, <1>15, <1>20, <2>2 DEF IInv, StackInv, AnyStack
    <2>5. QED
      BY <1>3, <1>5, <1>15, <1>19, <2>1, <2>2, <2>3, <2>4 DEF SwitchInv
  <1>28. QED
    BY <1>22, <1>23, <1>24, <1>25, <1>26, <1>27 DEF IInv

(* thread_switch() saves the old registers and moves to the new stack.     *)
LEMMA SwitchIInv ==
    ASSUME IInv, NEW c \in CPU, thread_switch(c)
    PROVE  IInv'
  <1>1. /\ pc[c] = "switch" /\ pc' = [pc EXCEPT ![c] = "switched"]
        /\ context' = [context EXCEPT ![arg[c]] = rsp[c]]
        /\ rsp' = [rsp EXCEPT ![c] = context[tid[c]]]
        /\ UNCHANGED <<state, cpunum, stack, func, td_free, td_runnable, lock,
                       old_stack, heap, tid, stackaddr, arg>>
    BY DEF thread_switch, memvars
  <1>2. Free' = Free /\ Runnable' = Runnable
    BY <1>1 DEF Free, Runnable
  <1>3. \A d \in CPU : Started(d)' <=> Started(d)
    BY <1>1 DEF Started, IInv, TypeOK
  <1>4. \A d \in CPU : /\ pc'[d] = "wakeup" <=> pc[d] = "wakeup"
                       /\ pc'[d] = "exit" <=> pc[d] = "exit"
    BY <1>1 DEF IInv, TypeOK
  <1>5. \A t \in Tid : Parked(t)' <=> Parked(t)
    BY <1>1, <1>2, <1>4 DEF Parked
  <1>6. TypeOK'
    BY <1>1 DEF IInv, TypeOK, Location
  <1>7. LockInv'
    BY <1>1 DEF IInv, TypeOK, LockInv, NoBadState
  <1>8. PlaceInv'
    <2>1. ListInv'
      BY <1>1, <1>2 DEF IInv, PlaceInv, ListInv
    <2>2. CurrentInv' /\ WakingInv' /\ NobodyLost'
      BY <1>1, <1>2, <1>3, <1>4
         DEF IInv, PlaceInv, CurrentInv, WakingInv, NobodyLost
    <2>3. QED  BY <2>1, <2>2 DEF PlaceInv
  <1>9. RoleInv' /\ StackInv'
    BY <1>1, <1>2, <1>3, <1>5 DEF IInv, RoleInv, StackInv
  <1>10. SwitchInv'
    <2>1. \A d \in CPU : d # c => pc[d] # "switch"
      BY <1>1 DEF IInv, LockInv
    <2>2. \A d \in CPU : pc'[d] # "switch"
      BY <1>1, <2>1 DEF IInv, TypeOK
    <2>3. \A d \in CPU : rsp'[d] = stackaddr[d]
      BY <1>1, <2>1 DEF IInv, TypeOK, SwitchInv
    <2>4. ASSUME NEW t \in Tid, Parked(t)
          PROVE  context'[t] = stack[t]
      <3>1. CASE t = arg[c]
        <4>1. t \notin Free
          BY <2>4 DEF Parked, IInv, PlaceInv, ListInv, WakingInv
        <4>2. rsp[c] = stack[t]
          BY <1>1, <3>1, <4>1 DEF IInv, SwitchInv
        <4>3. QED  BY <1>1, <3>1, <4>2 DEF IInv, TypeOK
      <3>2. CASE t # arg[c]
        <4>1. context[t] = stack[t]
          BY <2>1, <2>4, <3>2 DEF IInv, SwitchInv
        <4>2. QED  BY <1>1, <3>2, <4>1 DEF IInv, TypeOK
      <3>3. QED  BY <3>1, <3>2
    <2>5. QED  BY <1>1, <1>5, <2>2, <2>3, <2>4 DEF SwitchInv
  <1>11. QED  BY <1>6, <1>7, <1>8, <1>9, <1>10 DEF IInv

(* The new thread releases thread_lock.                                    *)
LEMMA SwitchedIInv ==
    ASSUME IInv, NEW c \in CPU, switched(c)
    PROVE  IInv'
  <1>1. /\ pc[c] = "switched" /\ pc' = [pc EXCEPT ![c] = "run"] /\ lock' = NULL
        /\ UNCHANGED <<tdvars, td_free, td_runnable, old_stack, heap,
                       tid, stackaddr, rsp, arg>>
    BY DEF switched, memvars, cpuvars
  <1>2. Free' = Free /\ Runnable' = Runnable
    BY <1>1 DEF Free, Runnable
  <1>3. \A d \in CPU : /\ Started(d)' <=> Started(d)
                       /\ pc'[d] = "wakeup" <=> pc[d] = "wakeup"
                       /\ pc'[d] = "exit" <=> pc[d] = "exit"
                       /\ pc'[d] = "switch" <=> pc[d] = "switch"
    BY <1>1 DEF Started, IInv, TypeOK
  <1>4. \A t \in Tid : Parked(t)' <=> Parked(t)
    BY <1>1, <1>2, <1>3 DEF Parked, tdvars
  <1>5. TypeOK'
    BY <1>1 DEF IInv, TypeOK, Location, tdvars
  <1>6. LockInv'
    <2>1. lock = c
      BY <1>1 DEF IInv, LockInv
    <2>2. QED  BY <1>1, <2>1 DEF IInv, TypeOK, LockInv, NoBadState
  <1>7. PlaceInv'
    <2>1. ListInv'
      BY <1>1, <1>2 DEF IInv, PlaceInv, ListInv, tdvars
    <2>2. CurrentInv' /\ WakingInv' /\ NobodyLost'
      BY <1>1, <1>2, <1>3
         DEF IInv, PlaceInv, CurrentInv, WakingInv, NobodyLost, tdvars
    <2>3. QED  BY <2>1, <2>2 DEF PlaceInv
  <1>8. RoleInv' /\ StackInv'
    BY <1>1, <1>2, <1>3, <1>4 DEF IInv, RoleInv, StackInv, tdvars
  <1>9. SwitchInv'
    <2>1. \A d \in CPU : pc[d] # "switch" /\ pc'[d] # "switch"
      BY <1>1, <1>3 DEF IInv, LockInv
    <2>2. QED  BY <1>1, <1>4, <2>1 DEF IInv, SwitchInv, tdvars
  <1>10. QED  BY <1>5, <1>6, <1>7, <1>8, <1>9 DEF IInv

(* thread_will_stop() and thread_exit() change the state of the caller,    *)
(* which is current and therefore not linked anywhere.                     *)
LEMMA WillStopIInv ==
    ASSUME IInv, NEW c \in CPU, thread_will_stop(c)
    PROVE  IInv'
  <1>1. PICK o \in Tid : o = tid[c]
    BY DEF IInv, TypeOK
  <1>2. Started(c) /\ state[o] \in {"RUN", "WILL_STOP"}
    BY <1>1 DEF thread_will_stop, Started, IInv, PlaceInv, CurrentInv
  <1>3. /\ pc[c] = "run" /\ pc' = [pc EXCEPT ![c] = "run"]
        /\ state' = [state EXCEPT ![o] = "WILL_STOP"] /\ func[o] = "server"
        /\ UNCHANGED <<cpunum, context, stack, func, td_free, td_runnable, lock,
                       old_stack, heap, tid, stackaddr, rsp, arg>>
    BY <1>1, <1>2 DEF thread_will_stop, thread_set_state, memvars, cpuvars
  <1>4. pc' = pc
    BY <1>3 DEF IInv, TypeOK
  <1>5. Free' = Free /\ Runnable' = Runnable /\ o \notin Free /\ o \notin Runnable
    BY <1>1, <1>2, <1>3 DEF Free, Runnable, IInv, PlaceInv, CurrentInv
  <1>6. \A t \in Tid : Parked(t)' <=> Parked(t)
    BY <1>2, <1>3, <1>4, <1>5 DEF Parked, IInv, TypeOK
  <1>7. TypeOK' /\ LockInv'
    BY <1>3, <1>4 DEF IInv, TypeOK, LockInv, NoBadState, ThreadState
  <1>8. ListInv'
    BY <1>3, <1>5, ListFacts DEF IInv, TypeOK, PlaceInv, ListInv
  <1>9. CurrentInv'
    BY <1>1, <1>2, <1>3, <1>4, <1>5
       DEF IInv, TypeOK, PlaceInv, CurrentInv, Started
  <1>10. WakingInv' /\ NobodyLost'
    <2>1. WakingInv'
      BY <1>1, <1>2, <1>3, <1>4, <1>5 DEF IInv, TypeOK, PlaceInv, WakingInv, Started
    <2>2. NobodyLost'
      BY <1>1, <1>2, <1>3, <1>4, <1>5 DEF IInv, TypeOK, PlaceInv, NobodyLost, Started
    <2>3. QED  BY <2>1, <2>2
  <1>11. RoleInv'
    BY <1>3, <1>4, <1>5 DEF IInv, TypeOK, RoleInv, Started
  <1>12. StackInv' /\ SwitchInv'
    <2>1. \A d \in CPU : pc[d] # "switch"
      BY DEF thread_will_stop, IInv, LockInv
    <2>2. QED  BY <1>3, <1>4, <1>6, <2>1 DEF IInv, StackInv, SwitchInv, Started
  <1>13. QED
    BY <1>7, <1>8, <1>9, <1>10, <1>11, <1>12 DEF IInv, PlaceInv

LEMMA ExitIInv ==
    ASSUME IInv, NEW c \in CPU, thread_exit(c)
    PROVE  IInv'
  <1>1. PICK o \in Tid : o = tid[c]
    BY DEF IInv, TypeOK
  <1>2. Started(c) /\ state[o] \in {"RUN", "WILL_STOP"}
    BY <1>1 DEF thread_exit, Started, IInv, PlaceInv, CurrentInv
  <1>3. /\ pc[c] = "run" /\ pc' = [pc EXCEPT ![c] = "exit"]
        /\ state' = [state EXCEPT ![o] = "EXIT"] /\ func[o] = "job"
        /\ UNCHANGED <<cpunum, context, stack, func, td_free, td_runnable, lock,
                       old_stack, heap, tid, stackaddr, rsp, arg>>
    BY <1>1, <1>2 DEF thread_exit, thread_set_state, memvars, cpuvars
  <1>4. /\ \A d \in CPU : d # c => pc'[d] = pc[d]
        /\ pc'[c] = "exit"
        /\ \A d \in CPU : Started(d)' <=> Started(d)
    BY <1>2, <1>3 DEF IInv, TypeOK, Started
  <1>5. Free' = Free /\ Runnable' = Runnable /\ o \notin Free /\ o \notin Runnable
    BY <1>1, <1>2, <1>3 DEF Free, Runnable, IInv, PlaceInv, CurrentInv
  <1>6. \A t \in Tid : Parked(t)' <=> Parked(t)
    BY <1>2, <1>3, <1>4, <1>5 DEF Parked, IInv, TypeOK
  <1>7. TypeOK' /\ LockInv'
    BY <1>3 DEF IInv, TypeOK, LockInv, NoBadState, ThreadState, Location
  <1>8. ListInv'
    BY <1>3, <1>5, ListFacts DEF IInv, TypeOK, PlaceInv, ListInv
  <1>9. CurrentInv'
    BY <1>1, <1>2, <1>3, <1>4, <1>5
       DEF IInv, TypeOK, PlaceInv, CurrentInv
  <1>10. WakingInv'
    BY <1>1, <1>2, <1>3, <1>4, <1>5 DEF IInv, TypeOK, PlaceInv, WakingInv
  <1>11. NobodyLost'
    BY <1>1, <1>2, <1>3, <1>4, <1>5 DEF IInv, TypeOK, PlaceInv, NobodyLost
  <1>12. RoleInv'
    BY <1>3, <1>4, <1>5 DEF IInv, TypeOK, RoleInv
  <1>13. StackInv'
    BY <1>3, <1>4, <1>6 DEF IInv, StackInv
  <1>14. SwitchInv'
    <2>1. \A d \in CPU : pc[d] # "switch" /\ pc'[d] # "switch"
      BY <1>4 DEF thread_exit, IInv, LockInv
    <2>2. QED  BY <1>3, <1>6, <2>1 DEF IInv, SwitchInv
  <1>15. QED
    BY <1>7, <1>8, <1>9, <1>10, <1>11, <1>12, <1>13, <1>14 DEF IInv, PlaceInv

(* The first half of thread_wakeup() makes a stopped thread the business   *)
(* of the calling processor alone.                                         *)
LEMMA WakeupIInv ==
    ASSUME IInv, NEW c \in CPU, NEW t \in Tid, thread_wakeup(c, t)
    PROVE  IInv'
  <1>1. /\ pc[c] = "run" /\ lock = NULL
        /\ func[t] = "server" /\ state[t] \in {"RUN", "WILL_STOP", "STOP"}
    BY DEF thread_wakeup, IInv, TypeOK, ThreadState, RoleInv
  <1>2. /\ pc' = [pc EXCEPT ![c] = IF state[t] = "STOP" THEN "wakeup" ELSE "run"]
        /\ state' = [state EXCEPT ![t] = "RUN"]
        /\ arg' = [arg EXCEPT ![c] = t]
        /\ UNCHANGED <<cpunum, context, stack, func, td_free, td_runnable, lock,
                       old_stack, heap, tid, stackaddr, rsp>>
    <2>1. (CASE state[t] \in {"RUN", "WILL_STOP"} -> "run"
             [] state[t] = "STOP" -> "wakeup"
             [] state[t] = "EXIT" -> "panic")
            = IF state[t] = "STOP" THEN "wakeup" ELSE "run"
      BY <1>1
    <2>2. QED  BY <2>1 DEF thread_wakeup, thread_set_state, memvars, cpuvars
  <1>3. /\ \A d \in CPU \ {c} : pc'[d] = pc[d] /\ arg'[d] = arg[d]
        /\ arg'[c] = t
        /\ pc'[c] = IF state[t] = "STOP" THEN "wakeup" ELSE "run"
        /\ \A u \in Tid \ {t} : state'[u] = state[u]
        /\ state'[t] = "RUN"
        /\ \A d \in CPU : Started(d)' <=> Started(d)
        /\ \A d \in CPU : pc[d] # "switch" /\ pc'[d] # "switch"
    BY <1>1, <1>2 DEF IInv, TypeOK, Started, LockInv
  <1>4. Free' = Free /\ Runnable' = Runnable /\ t \notin Free
    BY <1>1, <1>2 DEF Free, Runnable, IInv, PlaceInv, ListInv
  <1>5. state[t] = "STOP" =>
          /\ t \notin Runnable
          /\ \A d \in CPU : Started(d) => tid[d] # t
          /\ \A d \in CPU : pc[d] = "wakeup" => arg[d] # t
    BY DEF IInv, PlaceInv, ListInv, CurrentInv, WakingInv
  <1>6. \A u \in Tid : Parked(u)' <=> Parked(u)
    <2> TAKE u \in Tid
    <2>1. (\E d \in CPU : pc[d] = "wakeup" /\ arg[d] = u)'
             <=> \/ \E d \in CPU : pc[d] = "wakeup" /\ arg[d] = u
                 \/ state[t] = "STOP" /\ u = t
      BY <1>1, <1>3
    <2>2. QED  BY <1>3, <1>4, <2>1 DEF Parked
  <1>7. TypeOK'
    BY <1>2 DEF IInv, TypeOK, ThreadState, Location
  <1>8. LockInv'
    BY <1>1, <1>2, <1>3 DEF IInv, LockInv, NoBadState
  <1>9. ListInv'
    BY <1>2, <1>3, <1>4, ListFacts DEF IInv, PlaceInv, ListInv
  <1>10. CurrentInv'
    <2>1. \A d \in CPU : Started(d) =>
            /\ tid[d] \in Tid /\ tid[d] \notin Free /\ tid[d] \notin Runnable
            /\ state'[tid[d]] \in IF pc'[d] = "exit" THEN {"EXIT"}
                                                    ELSE {"RUN", "WILL_STOP"}
      BY <1>1, <1>3 DEF IInv, TypeOK, PlaceInv, CurrentInv
    <2>2. QED  BY <1>2, <1>3, <1>4, <2>1 DEF IInv, PlaceInv, CurrentInv
  <1>11. WakingInv'
    <2>1. \A d \in CPU : pc'[d] = "wakeup" =>
            /\ arg'[d] \notin Runnable
            /\ state'[arg'[d]] = "RUN"
            /\ \A e \in CPU : Started(e) => tid[e] # arg'[d]
      BY <1>3, <1>5 DEF IInv, TypeOK, PlaceInv, WakingInv
    <2>2. \A d, e \in CPU : pc'[d] = "wakeup" /\ pc'[e] = "wakeup"
                              /\ arg'[d] = arg'[e] => d = e
      BY <1>3, <1>5 DEF IInv, PlaceInv, WakingInv
    <2>3. QED  BY <1>2, <1>3, <1>4, <2>1, <2>2 DEF WakingInv
  <1>12. NobodyLost'
    <2> SUFFICES ASSUME NEW u \in Tid, u \notin Free, u \notin Runnable,
                        ~\E d \in CPU : pc'[d] = "wakeup" /\ arg'[d] = u,
                        state'[u] # "STOP"
                 PROVE  \E d \in CPU : Started(d) /\ tid[d] = u
      BY <1>2, <1>3, <1>4 DEF NobodyLost
    <2>1. ~\E d \in CPU : pc[d] = "wakeup" /\ arg[d] = u
      BY <1>1, <1>3
    <2>2. state[u] # "STOP"
      BY <1>3
    <2>3. QED  BY <2>1, <2>2 DEF IInv, PlaceInv, NobodyLost
  <1>13. RoleInv'
    BY <1>1, <1>2, <1>3, <1>4 DEF IInv, RoleInv
  <1>14. StackInv'
    BY <1>2, <1>3, <1>6 DEF IInv, StackInv
  <1>15. SwitchInv'
    BY <1>2, <1>3, <1>6 DEF IInv, SwitchInv
  <1>16. QED
    BY <1>7, <1>8, <1>9, <1>10, <1>11, <1>12, <1>13, <1>14, <1>15
       DEF IInv, PlaceInv

(* The second half links it.                                               *)
LEMMA WakeupAddIInv ==
    ASSUME IInv, NEW c \in CPU, thread_wakeup_add(c)
    PROVE  IInv'
  <1>1. PICK t \in Tid : t = arg[c]
    BY DEF IInv, TypeOK
  <1>2. /\ pc[c] = "wakeup" /\ lock = NULL
        /\ td_runnable' = LIST1_ADD(td_runnable, t)
        /\ pc' = [pc EXCEPT ![c] = "run"]
        /\ UNCHANGED <<state, cpunum, context, stack, func, td_free, lock,
                       old_stack, heap, tid, stackaddr, rsp, arg>>
    BY <1>1 DEF thread_wakeup_add, tdvars, memvars, cpuvars
  <1>3. /\ t \notin Runnable /\ state[t] = "RUN"
        /\ \A d \in CPU : Started(d) => tid[d] # t
        /\ \A d \in CPU : pc[d] = "wakeup" /\ arg[d] = t => d = c
    BY <1>1, <1>2 DEF IInv, PlaceInv, WakingInv
  <1>4. /\ td_runnable' \in Seq(Tid) /\ IsInjective(td_runnable')
        /\ Runnable' = Runnable \cup {t} /\ Free' = Free
    BY <1>2, <1>3, ListFacts, AddProperties DEF Runnable, Free
  <1>5. /\ \A d \in CPU \ {c} : pc'[d] = pc[d]
        /\ pc'[c] = "run"
        /\ \A d \in CPU : Started(d)' <=> Started(d)
        /\ \A d \in CPU : pc[d] # "switch" /\ pc'[d] # "switch"
    BY <1>2 DEF IInv, TypeOK, Started, LockInv
  <1>6. \A u \in Tid : Parked(u)' <=> Parked(u)
    <2> TAKE u \in Tid
    <2>1. (\E d \in CPU : pc[d] = "wakeup" /\ arg[d] = u) <=>
             \/ (\E d \in CPU : pc[d] = "wakeup" /\ arg[d] = u)'
             \/ u = t
      BY <1>1, <1>2, <1>5
    <2>2. (\E d \in CPU : pc[d] = "wakeup" /\ arg[d] = u)' => u # t
      BY <1>2, <1>3, <1>5
    <2>3. QED  BY <1>2, <1>4, <2>1, <2>2 DEF Parked
  <1>7. TypeOK' /\ LockInv'
    BY <1>2, <1>4 DEF IInv, TypeOK, Location, LockInv, NoBadState
  <1>8. ListInv'
    BY <1>2, <1>3, <1>4 DEF IInv, PlaceInv, ListInv
  <1>9. CurrentInv'
    BY <1>2, <1>3, <1>4, <1>5 DEF IInv, PlaceInv, CurrentInv
  <1>10. WakingInv'
    BY <1>2, <1>3, <1>4, <1>5 DEF IInv, PlaceInv, WakingInv
  <1>11. NobodyLost'
    <2> SUFFICES ASSUME NEW u \in Tid, u \notin Free, u \notin Runnable, u # t,
                        ~\E d \in CPU : pc'[d] = "wakeup" /\ arg[d] = u,
                        state[u] # "STOP"
                 PROVE  \E d \in CPU : Started(d) /\ tid[d] = u
      BY <1>2, <1>4, <1>5 DEF NobodyLost
    <2>1. ~\E d \in CPU : pc[d] = "wakeup" /\ arg[d] = u
      BY <1>1, <1>5
    <2>2. QED  BY <2>1 DEF IInv, PlaceInv, NobodyLost
  <1>12. RoleInv'
    BY <1>2, <1>4, <1>5 DEF IInv, RoleInv
  <1>13. StackInv'
    BY <1>2, <1>5, <1>6 DEF IInv, StackInv
  <1>14. SwitchInv'
    BY <1>2, <1>5, <1>6 DEF IInv, SwitchInv
  <1>15. QED
    BY <1>7, <1>8, <1>9, <1>10, <1>11, <1>12, <1>13, <1>14 DEF IInv, PlaceInv

(* A step that changes nothing.                                            *)
LEMMA StutterIInv ==
    ASSUME IInv, UNCHANGED vars
    PROVE  IInv'
  <1>1. UNCHANGED <<state, cpunum, context, stack, func, td_free, td_runnable,
                    lock, old_stack, heap, tid, stackaddr, rsp, pc, arg>>
    BY DEF vars, tdvars, memvars, cpuvars
  <1>2. TypeOK' /\ LockInv' /\ RoleInv' /\ ListInv' /\ CurrentInv' /\ WakingInv'
    BY <1>1 DEF IInv, TypeOK, LockInv, NoBadState, RoleInv, PlaceInv, ListInv,
                CurrentInv, WakingInv, Started, Free, Runnable
  <1>3. NobodyLost' /\ StackInv' /\ SwitchInv'
    BY <1>1 DEF IInv, PlaceInv, NobodyLost, StackInv, SwitchInv, Parked,
                Started, Free, Runnable
  <1>4. QED  BY <1>2, <1>3 DEF IInv, PlaceInv

(* IInv is an invariant of the scheduler.                                  *)
THEOREM Inductive == Spec => []IInv
  <1>1. IInv /\ [Next]_vars => IInv'
    <2> SUFFICES ASSUME IInv, [Next]_vars PROVE IInv'
      OBVIOUS
    <2>1. CASE \E c \in CPU : CpuStep(c)
      <3>1. PICK c \in CPU : CpuStep(c)
        BY <2>1
      <3>2. QED
        BY <3>1, InitPcpuIInv, NewIInv, ScheduleNoneIInv, ScheduleFoundIInv,
           SwitchIInv, SwitchedIInv, WillStopIInv, ExitIInv, WakeupIInv,
           WakeupAddIInv DEF CpuStep
    <2>2. CASE PanicShell \/ UNCHANGED vars
      BY <2>2, StutterIInv DEF PanicShell
    <2>3. QED  BY <2>1, <2>2 DEF Next
  <1>2. QED  BY InitIInv, <1>1, PTL DEF Spec

(* The scheduler's data always has its type.                               *)
THEOREM TypeCorrect == Spec => []TypeOK
  <1>1. IInv => TypeOK
    BY DEF IInv
  <1>2. QED  BY <1>1, Inductive, PTL

(* schedule() and thread_wakeup() neither lose nor duplicate a thread: a   *)
(* thread_data is linked at most once and found in exactly one place.      *)
THEOREM ThreadsInOnePlace == Spec => []OnePlace
  <1>1. IInv => OnePlace
    <2> SUFFICES ASSUME IInv PROVE OnePlace
      OBVIOUS
    <2>1. Free \subseteq Tid /\ Runnable \subseteq Tid
      BY ListFacts
    <2>2. OnCpu \subseteq Tid /\ Waking \subseteq Tid /\ Stopped \subseteq Tid
      BY DEF OnCpu, Waking, Stopped, IInv, TypeOK
    <2>3. /\ \A t \in Tid : t \in OnCpu <=> \E c \in CPU : Started(c) /\ tid[c] = t
          /\ \A t \in Tid : t \in Waking <=>
                               \E c \in CPU : pc[c] = "wakeup" /\ arg[c] = t
          /\ \A t \in Tid : t \in Stopped <=> state[t] = "STOP"
      BY DEF OnCpu, Waking, Stopped
    <2>4. \A t \in Tid :
            /\ t \in Free => t \notin Runnable \cup OnCpu \cup Waking \cup Stopped
            /\ t \in Runnable => t \notin OnCpu \cup Waking \cup Stopped
            /\ t \in OnCpu => t \notin Waking \cup Stopped
            /\ t \in Waking => t \notin Stopped
            /\ t \in Free \cup Runnable \cup OnCpu \cup Waking \cup Stopped
      <3> TAKE t \in Tid
      <3>1. t \in Free => t \notin Runnable \cup OnCpu \cup Waking \cup Stopped
        BY <2>3 DEF IInv, PlaceInv, ListInv, CurrentInv, WakingInv
      <3>2. t \in Runnable => t \notin OnCpu \cup Waking \cup Stopped
        BY <2>3 DEF IInv, PlaceInv, ListInv, CurrentInv, WakingInv
      <3>3. t \in OnCpu => t \notin Waking \cup Stopped
        BY <2>3 DEF IInv, PlaceInv, CurrentInv, WakingInv
      <3>4. t \in Waking => t \notin Stopped
        BY <2>3 DEF IInv, PlaceInv, WakingInv
      <3>5. t \in Free \cup Runnable \cup OnCpu \cup Waking \cup Stopped
        BY <2>3 DEF IInv, PlaceInv, NobodyLost
      <3>6. QED  BY <3>1, <3>2, <3>3, <3>4, <3>5
    <2>5. QED
      BY <2>1, <2>2, <2>4
         DEF OnePlace, IInv, PlaceInv, ListInv, CurrentInv, WakingInv
  <1>2. QED  BY <1>1, Inductive, PTL

(* Keeping thread_lock across the switch and deferring free (old_stack) is *)
(* enough: stacks are neither shared nor used after they are freed.        *)
THEOREM StacksSafe == Spec => []StackSafety
  <1>1. IInv => StackSafety
    <2> SUFFICES ASSUME IInv PROVE StackSafety
      OBVIOUS
    <2>1. \A c \in CPU : \/ rsp[c] = stackaddr[c]
                         \/ /\ pc[c] = "switch"
                            /\ \/ Parked(arg[c]) /\ rsp[c] = stack[arg[c]]
                               \/ rsp[c] = old_stack /\ old_stack # NULL
      BY DEF IInv, SwitchInv
    <2>2. \A c, d \in CPU : pc[c] = "switch" /\ pc[d] = "switch" => c = d
      BY DEF IInv, LockInv
    <2>3. \A c \in CPU : arg[c] \in Tid
      BY DEF IInv, TypeOK
    <2>4. \A c \in CPU : rsp[c] \in AnyStack \ heap
      BY <2>1, <2>3 DEF IInv, StackInv, AnyStack
    <2>5. \A c, d \in CPU : rsp[c] = rsp[d] => c = d
      BY <2>1, <2>2, <2>3 DEF IInv, StackInv
    <2>6. ASSUME lock = NULL
          PROVE  /\ \A c \in CPU : rsp[c] # old_stack
                 /\ \A t \in Runnable \cup Waking \cup Stopped, c \in CPU :
                       context[t] \in AnyStack \ heap /\ context[t] # rsp[c]
      <3>1. \A c \in CPU : pc[c] # "switch"
        BY <2>6 DEF IInv, LockInv
      <3>2. \A c \in CPU : rsp[c] = stackaddr[c]
        BY <2>1, <3>1
      <3>3. \A t \in Runnable \cup Waking \cup Stopped : t \in Tid /\ Parked(t)
        BY ListFacts DEF Waking, Stopped, Parked, IInv, TypeOK
      <3>4. \A t \in Tid : Parked(t) => context[t] = stack[t]
        BY <3>1 DEF IInv, SwitchInv
      <3>5. QED  BY <3>2, <3>3, <3>4 DEF IInv, StackInv
    <2>7. old_stack \notin heap
      BY DEF IInv, StackInv
    <2>8. QED  BY <2>4, <2>5, <2>6, <2>7 DEF StackSafety
  <1>2. QED  BY <1>1, Inductive, PTL

(* No "bad state" panic, and thread_exit() does not return.                *)
THEOREM ExitNeverReturns == Spec => []NoBadState
  <1>1. IInv => NoBadState
    BY DEF IInv, LockInv
  <1>2. QED  BY <1>1, Inductive, PTL

(* A processor always keeps its own boot thread at hand.                   *)
THEOREM BootThreadAtHand == Spec => []BootThreadStays
  <1>1. IInv => BootThreadStays
    BY DEF IInv, RoleInv, BootThreadStays
  <1>2. QED  BY <1>1, Inductive, PTL
=============================================================================
