------------------------------- MODULE Process -------------------------------
(***************************************************************************)
(* Processes and messages of the VMM (core/process.c, core/msg.c).  A      *)
(* process has no thread of its own: whoever sends it a message executes   *)
(* its function, so several threads may be inside one process, also one    *)
(* thread several times.  A process that exits is cleaned up when the last *)
(* of them has left it.  Descriptors refer to a process by its number and  *)
(* generation, and a number is used again.  Process 0 is the VMM.          *)
(*                                                                         *)
(* What is done under process_lock or msg_lock is one step.                *)
(***************************************************************************)
EXTENDS Integers, Sequences, FiniteSets, FiniteSetsExt

CONSTANTS
    Thread,
    NUM_OF_PID,
    NUM_OF_MSGDSC,
    NUM_OF_MSGDSCRECV,  \* descriptors that others can send to a process
    Name,           \* names for msgregister()
    MaxNew,         \* bound: processes created
    MaxCalls,       \* bound: descriptors opened, sent, closed, (un)registered
    MaxDepth        \* bound: messages a thread is inside of

Pid == 0 .. NUM_OF_PID - 1
Desc == 0 .. NUM_OF_MSGDSC - 1

VARIABLES
    valid, gen, running, exitflag,   \* process[]
    msgdsc,         \* its descriptors
    msg_data_used,  \* registered names
    stack,          \* the functions a thread is in, innermost last
    pc,             \* what a thread is doing
    arg,            \* mpid, mgen and mdesc between two critical sections
    born,           \* which of the processes created so far has a number
    calls           \* counts for MaxCalls

process == <<valid, gen, running, exitflag, msgdsc>>
vars == <<process, msg_data_used, stack, pc, arg, born, calls>>

-----------------------------------------------------------------------------
(* incarnation: which process is meant (history), 0 for the VMM *)
Target(p, g, d, i) == [pid |-> p, gen |-> g, dsc |-> d, incarnation |-> i]
NoTarget == Target(0, 0, 0, 0)

NoMsgdsc == [to |-> NoTarget, func |-> FALSE]

(* process_init_global *)
Init ==
    /\ valid = [p \in Pid |-> p = 0]
    /\ gen = [p \in Pid |-> 1]
    /\ running = [p \in Pid |-> 0]
    /\ exitflag = [p \in Pid |-> FALSE]
    /\ msgdsc = [p \in Pid |-> [d \in Desc |-> NoMsgdsc]]
    /\ msg_data_used = {}
    /\ stack = [t \in Thread |-> <<>>]
    /\ pc = [t \in Thread |-> "run"]
    /\ arg = [t \in Thread |-> NoTarget]
    /\ born = [p \in Pid |-> 0]
    /\ calls = 0

Counted == calls < MaxCalls /\ calls' = calls + 1

(* The process whose code a thread executes *)
Self(t) == IF stack[t] = <<>> THEN 0 ELSE stack[t][Len(stack[t])].pid

(* Descriptors that are not open; the generation of a process is never 0. *)
Closed(p) == {d \in Desc : msgdsc[p][d].to.pid = 0 /\ msgdsc[p][d].to.gen = 0}

Runs(t) == pc[t] = "run"

Becomes(t, where, target) ==
    /\ pc' = [pc EXCEPT ![t] = where]
    /\ arg' = [arg EXCEPT ![t] = target]

-----------------------------------------------------------------------------
(* process_new, up to the call of _msgopen_2.  There is always memory, and *)
(* built-in programs can be loaded.                                        *)
process_new(t) ==
    LET p == Min({q \in Pid : ~valid[q]})
        n == 1 + Max({born[q] : q \in Pid})
    IN  /\ Runs(t)
        /\ \E q \in Pid : ~valid[q]
        /\ n <= MaxNew
        /\ valid' = [valid EXCEPT ![p] = TRUE]
        /\ gen' = [gen EXCEPT ![p] = @ + 1]
        /\ running' = [running EXCEPT ![p] = 0]
        /\ exitflag' = [exitflag EXCEPT ![p] = FALSE]
        /\ msgdsc' = [msgdsc EXCEPT ![p] = [d \in Desc |->
                          IF d = 0 THEN [NoMsgdsc EXCEPT !.func = TRUE] ELSE NoMsgdsc]]
        /\ born' = [born EXCEPT ![p] = n]
        /\ Becomes(t, "open", Target(p, gen[p] + 1, 0, n))
        /\ UNCHANGED <<msg_data_used, stack, calls>>

(* _msgopen: msg_findname *)
msgopen(t) ==
    \E m \in msg_data_used :
        /\ Runs(t)
        /\ Counted
        /\ Becomes(t, "open", m.to)
        /\ UNCHANGED <<process, msg_data_used, stack, born>>

_msgopen_2(t) ==
    LET p == Self(t)
    IN  /\ pc[t] = "open"
        /\ msgdsc' = IF Closed(p) = {} THEN msgdsc
                     ELSE [msgdsc EXCEPT ![p][Min(Closed(p))].to = arg[t]]
        /\ Becomes(t, "run", NoTarget)
        /\ UNCHANGED <<valid, gen, running, exitflag, msg_data_used, stack, born, calls>>

(* dsc is left as it is, and means nothing without pid and gen. *)
msgclose(t) ==
    \E d \in Desc :
        /\ Runs(t)
        /\ Counted
        /\ msgdsc' = [msgdsc EXCEPT ![Self(t)][d].to = NoTarget]
        /\ UNCHANGED <<valid, gen, running, exitflag, msg_data_used, stack, pc, arg, born>>

(* _msgregister, with msg_register: fails if the name or all functions are *)
(* taken.                                                                  *)
msgregister(t) ==
    LET p    == Self(t)
        free == {d \in Desc : ~msgdsc[p][d].func}
        d    == Min(free)
    IN  \E name \in Name :
            /\ Runs(t)
            /\ Counted
            /\ free # {}
            /\ \A m \in msg_data_used : m.name # name
            /\ msgdsc' = [msgdsc EXCEPT ![p][d].func = TRUE]
            /\ msg_data_used' = msg_data_used
                   \cup {[name |-> name, to |-> Target(p, gen[p], d, born[p])]}
            /\ UNCHANGED <<valid, gen, running, exitflag, stack, pc, arg, born>>

(* _msgunregister: func becomes NULL, without the lock ... *)
msgunregister(t) ==
    \E d \in Desc :
        /\ Runs(t)
        /\ Counted
        /\ msgdsc' = [msgdsc EXCEPT ![Self(t)][d].func = FALSE]
        /\ Becomes(t, "unregister", Target(Self(t), 0, d, 0))
        /\ UNCHANGED <<valid, gen, running, exitflag, msg_data_used, stack, born>>

(* ... then the names of the descriptor are removed. *)
msg_unregister2(t) ==
    /\ pc[t] = "unregister"
    /\ msg_data_used' = {m \in msg_data_used :
                            ~(m.to.pid = arg[t].pid /\ m.to.dsc = arg[t].dsc)}
    /\ Becomes(t, "run", NoTarget)
    /\ UNCHANGED <<process, stack, born, calls>>

(* A descriptor is copied into the process that another one refers to. *)
msgsenddesc(t) ==
    \E todesc, senddesc \in Desc :
        LET to   == msgdsc[Self(t)][todesc].to
            free == Closed(to.pid) \cap 0 .. NUM_OF_MSGDSCRECV - 1
        IN  /\ Runs(t)
            /\ Counted
            /\ valid[to.pid] /\ gen[to.pid] = to.gen
            /\ free # {}
            /\ msgdsc' = [msgdsc EXCEPT ![to.pid][Min(free)].to =
                              msgdsc[Self(t)][senddesc].to]
            /\ UNCHANGED <<valid, gen, running, exitflag, msg_data_used, stack, pc, arg, born>>

-----------------------------------------------------------------------------
(* msgsendint, msgsendbuf: the descriptor is read ... *)
msgsend(t) ==
    \E d \in Desc :
        /\ Runs(t)
        /\ Len(stack[t]) < MaxDepth
        /\ Becomes(t, "call", msgdsc[Self(t)][d].to)
        /\ UNCHANGED <<process, msg_data_used, stack, born, calls>>

Reaches(a) == valid[a.pid] /\ gen[a.pid] = a.gen /\ msgdsc[a.pid][a.dsc].func

(* ... and call_msgfunc1 checks what it refers to.  A function of the VMM  *)
(* is called without the lock and is not counted.                          *)
call_msgfunc1(t) ==
    LET a == arg[t]
    IN  /\ pc[t] = "call"
        /\ IF Reaches(a)
           THEN /\ stack' = [stack EXCEPT ![t] = Append(@, a)]
                /\ running' = IF a.pid = 0 THEN running
                              ELSE [running EXCEPT ![a.pid] = @ + 1]
           ELSE UNCHANGED <<stack, running>>
        /\ Becomes(t, "run", NoTarget)
        /\ UNCHANGED <<valid, gen, exitflag, msgdsc, msg_data_used, born, calls>>

(* sys_exitprocess, process_kill: a flag, and back to the caller *)
exitprocess(t) ==
    /\ Runs(t)
    /\ Self(t) # 0
    /\ exitflag' = [exitflag EXCEPT ![Self(t)] = TRUE]
    /\ Becomes(t, "return", NoTarget)
    /\ UNCHANGED <<valid, gen, running, msgdsc, msg_data_used, stack, born, calls>>

(* A slip: the first thread that leaves an exiting process cleans it up. *)
LastOut_First(p) == exitflag[p]

LastOut(p) == exitflag[p] /\ running[p] = 1

(* A slip: the names of the process stay registered. *)
Unregistered_Not(p) == msg_data_used

(* msg_unregisterall *)
Unregistered(p) == {m \in msg_data_used : m.to.pid # p}

(* The function returns; cleanup() if the process exits and nobody is in   *)
(* it.                                                                     *)
Return(t) ==
    LET p == Self(t)
    IN  /\ pc[t] \in {"run", "return"}
        /\ stack[t] # <<>>
        /\ stack' = [stack EXCEPT ![t] = SubSeq(@, 1, Len(@) - 1)]
        /\ running' = IF p = 0 THEN running ELSE [running EXCEPT ![p] = @ - 1]
        /\ IF p # 0 /\ LastOut(p)
           THEN /\ gen' = [gen EXCEPT ![p] = @ + 1]
                /\ valid' = [valid EXCEPT ![p] = FALSE]
                /\ exitflag' = [exitflag EXCEPT ![p] = FALSE]
                /\ msgdsc' = [msgdsc EXCEPT ![p] = [d \in Desc |-> NoMsgdsc]]
                /\ msg_data_used' = Unregistered(p)
           ELSE UNCHANGED <<gen, valid, exitflag, msgdsc, msg_data_used>>
        /\ Becomes(t, "run", NoTarget)
        /\ UNCHANGED <<born, calls>>

Next ==
    \E t \in Thread :
        \/ process_new(t) \/ msgopen(t) \/ _msgopen_2(t) \/ msgclose(t)
        \/ msgregister(t) \/ msgunregister(t) \/ msg_unregister2(t) \/ msgsenddesc(t)
        \/ msgsend(t) \/ call_msgfunc1(t) \/ exitprocess(t) \/ Return(t)

Spec == Init /\ [][Next]_vars

-----------------------------------------------------------------------------
(* The calls, by thread and depth, that are inside process p *)
Frames(p) == {f \in Thread \X (1 .. MaxDepth) :
                 f[2] <= Len(stack[f[1]]) /\ stack[f[1]][f[2]].pid = p}

TypeOK ==
    /\ valid \in [Pid -> BOOLEAN] /\ exitflag \in [Pid -> BOOLEAN]
    /\ gen \in [Pid -> Nat] /\ running \in [Pid -> Nat]
    /\ \A t \in Thread : pc[t] \in {"run", "open", "unregister", "call", "return"}

(***************************************************************************)
(* Memory of a process is not freed, nor its number used again, while a    *)
(* thread is inside of it, however messages nest and threads exit and      *)
(* leave; and a message reaches the process that its sender meant, not one *)
(* that has got the same number since.                                     *)
(***************************************************************************)
InsideLiving ==
    /\ \A p \in Pid \ {0} : running[p] = Cardinality(Frames(p))
    /\ \A t \in Thread : \A i \in 1 .. Len(stack[t]) :
           LET f == stack[t][i]
           IN  valid[f.pid] /\ gen[f.pid] = f.gen /\ born[f.pid] = f.incarnation

(***************************************************************************)
(* A registered name refers to a process that exists; the names of one     *)
(* that exits go before its number can be used again.                      *)
(***************************************************************************)
NamesLive ==
    \A m \in msg_data_used : /\ valid[m.to.pid] /\ gen[m.to.pid] = m.to.gen
                             /\ born[m.to.pid] = m.to.incarnation
=============================================================================
