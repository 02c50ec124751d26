--------------------------- MODULE ServicesProofs ---------------------------
(***************************************************************************)
(* Proofs about timers, processes, the debug shell's channel and the log,  *)
(* for any number of timers, processes, descriptors and threads and any    *)
(* size of the log.  Each part has an inductive invariant of its own; the  *)
(* theorems at the end combine them for a behaviour of module MCServices.  *)
(***************************************************************************)
EXTENDS MCServices, Lemmas, FiniteSetTheorems

USE ServAssumption

-----------------------------------------------------------------------------
(***************************************************************************)
(* The debug shell's channel.  At most one character is on its way: sent,  *)
(* then seen, then answered, then the answer taken.  Which of these        *)
(* follows next is told by where the two sides are and by whether s and r  *)
(* are -1.                                                                 *)
(***************************************************************************)
Char == Output \cup {0, EOT}
Key  == Input \cup {0}

ChannelType ==
    /\ s \in Char \cup {-1} /\ r \in Key \cup {-1} /\ b \in Key \cup {-1}
    /\ pc \in {"none", "send", "test_r", "stop", "test_s", "schedule",
               "scheduled", "take", "clear"}
    /\ gpc \in {"call", "set_r", "set_s", "wake", "return"}
    /\ state \in {"EXIT", "RUN", "WILL_STOP", "STOP"}
    /\ sent \in Seq(Char) /\ seen \in Seq(Char)
    /\ answers \in Seq(Key) /\ taken \in Seq(Key)

InOrder ==
    /\ Len(taken) <= Len(answers) /\ Len(answers) <= Len(seen)
    /\ Len(seen) <= Len(sent) /\ Len(sent) <= Len(taken) + 1
    /\ \A i \in 1 .. Len(seen) : seen[i] = sent[i]
    /\ \A i \in 1 .. Len(taken) : taken[i] = answers[i]

(* Where the thread of the VMM is *)
ServerInv ==
    /\ pc \in {"none", "send", "clear"} => Len(sent) = Len(taken)
    /\ pc \notin {"none", "send", "clear"} => Len(sent) = Len(taken) + 1
    /\ pc \in {"test_s", "take"} => Len(answers) = Len(taken) + 1
    /\ pc = "take" => s = -1
    /\ state = "EXIT" <=> pc = "none"
    /\ stopped => pc # "none"

(* Where the guest is; b # -1 before the call is an answer to be given *)
GuestInv ==
    /\ gpc = "call" => (b = -1 <=> Len(answers) = Len(seen))
    /\ gpc = "set_r" => b # -1 /\ Len(answers) # Len(seen)
    /\ gpc \in {"set_s", "wake", "return"} => Len(answers) = Len(seen)
    /\ gpc = "set_s" => s # -1 /\ Len(seen) = Len(sent)

(* What s and r hold *)
CellInv ==
    /\ Len(sent) = Len(taken) => s = -1
    /\ Len(seen) < Len(sent) => s # -1 /\ s = sent[Len(sent)]
    /\ Len(answers) < Len(seen) => s # -1
    /\ s # -1 /\ Len(answers) = Len(seen) /\ gpc # "set_s" => Len(seen) < Len(sent)
    /\ Len(answers) = Len(taken) /\ pc # "clear" => r = -1
    /\ Len(answers) > Len(taken) => r # -1 /\ r = answers[Len(answers)]

ChannelInv == ChannelType /\ InOrder /\ ServerInv /\ GuestInv /\ CellInv

LEMMA ChannelInit == Shell!Init => ChannelInv
  BY DEF Shell!Init, ChannelInv, ChannelType, InOrder, ServerInv, GuestInv, CellInv

LEMMA ChannelStep == ChannelInv /\ [Shell!Next]_shellvars => ChannelInv'
  <1> SUFFICES ASSUME ChannelInv, [Shell!Next]_shellvars PROVE ChannelInv'
    OBVIOUS
  <1> USE DEF ChannelInv, ChannelType, InOrder, ServerInv, GuestInv, CellInv,
              Shell!shared, Shell!log
  <1>1. CASE Shell!Call
    BY <1>1 DEF Shell!Call
  <1>2. CASE Shell!SetR
    BY <1>2 DEF Shell!SetR
  <1>3. CASE Shell!SetS
    BY <1>3 DEF Shell!SetS
  <1>4. CASE Shell!Wake
    BY <1>4 DEF Shell!Wake
  <1>5. CASE Shell!Return
    <2>1. CASE quitting
      BY <1>5, <2>1 DEF Shell!Return
    <2>2. CASE ~quitting /\ s = -1
      BY <1>5, <2>2 DEF Shell!Return, Shell!Answer
    <2>3. CASE ~quitting /\ s # -1
      <3>1. b' \in Key /\ b' # -1 /\ seen' = Append(seen, s) /\ s \in Char
        BY <1>5, <2>3 DEF Shell!Return, Shell!Answer, Key
      <3>2. Len(seen) < Len(sent) /\ Len(sent) = Len(seen) + 1 /\ s = sent[Len(sent)]
        BY <1>5, <2>3 DEF Shell!Return
      <3>3. InOrder'
        BY <1>5, <3>1, <3>2 DEF Shell!Return
      <3> QED BY <1>5, <3>1, <3>2, <3>3 DEF Shell!Return
    <2> QED BY <2>1, <2>2, <2>3
  <1>6. CASE Shell!Send
    BY <1>6 DEF Shell!Send, Char
  <1>7. CASE Shell!TestR
    BY <1>7 DEF Shell!TestR
  <1>8. CASE Shell!TestS
    BY <1>8 DEF Shell!TestS, Shell!Unread
  <1>9. CASE Shell!WillStop
    BY <1>9 DEF Shell!WillStop
  <1>10. CASE Shell!Schedule
    BY <1>10 DEF Shell!Schedule
  <1>11. CASE Shell!Resume
    BY <1>11 DEF Shell!Resume
  <1>12. CASE Shell!Take
    BY <1>12 DEF Shell!Take
  <1>13. CASE Shell!Clear
    BY <1>13 DEF Shell!Clear
  <1>14. CASE UNCHANGED shellvars
    BY <1>14 DEF shellvars
  <1> QED
    BY <1>1, <1>2, <1>3, <1>4, <1>5, <1>6, <1>7, <1>8, <1>9, <1>10, <1>11, <1>12, <1>13,
       <1>14 DEF Shell!Next

LEMMA ChannelSafe == ChannelInv => InStep
  BY DEF ChannelInv, ChannelType, InOrder, CellInv, InStep, Shell!InStep, Shell!IsPrefix

-----------------------------------------------------------------------------
(***************************************************************************)
(* Processes and messages.  Wherever a process is referred to by number    *)
(* and generation, in a descriptor or in the hands of a thread, the        *)
(* reference is current only for the process that was meant: generations   *)
(* grow whenever a number is given to a process or taken from it.          *)
(***************************************************************************)
Targets == [pid : Proc!Pid, gen : Nat, dsc : Proc!Desc, incarnation : Nat]
Entries == [to : Targets, func : BOOLEAN]
Msgdscs == [Proc!Pid -> [Proc!Desc -> Entries]]

ProcType ==
    /\ valid \in [Proc!Pid -> BOOLEAN] /\ exitflag \in [Proc!Pid -> BOOLEAN]
    /\ gen \in [Proc!Pid -> Nat \ {0}] /\ running \in [Proc!Pid -> Int]
    /\ born \in [Proc!Pid -> 0 .. MaxNew]
    /\ msgdsc \in Msgdscs
    /\ msg_data_used \subseteq [name : Name, to : Targets]
    /\ stack \in [Thread -> Seq(Targets)]
    /\ procpc \in [Thread -> {"run", "open", "unregister", "call", "return"}]
    /\ arg \in [Thread -> Targets]
    /\ valid[0]

(* The bound on the depth of calls *)
DepthInv ==
    \A t \in Thread : /\ Len(stack[t]) <= MaxDepth
                      /\ procpc[t] = "call" => Len(stack[t]) < MaxDepth

Meant(x) ==
    /\ x.gen <= gen[x.pid]
    /\ x.gen = gen[x.pid] => x.incarnation = born[x.pid]

TargetInv ==
    /\ \A p \in Proc!Pid, d \in Proc!Desc : Meant(msgdsc[p][d].to)
    /\ \A t \in Thread : Meant(arg[t])

ProcInv == ProcType /\ DepthInv /\ TargetInv /\ Proc!InsideLiving /\ Proc!NamesLive

LEMMA MinIn ==
  ASSUME NEW n \in Nat, NEW S \in SUBSET (0 .. n), S # {}
  PROVE  Proc!Min(S) \in S
  <1>1. \E x \in S : \A y \in S : x <= y
    BY HasLeast
  <1> QED BY <1>1 DEF Proc!Min

LEMMA NoTargetIs == Proc!NoTarget \in Targets /\ Proc!NoTarget.gen = 0 /\ 0 \in Proc!Pid
  BY DEF Proc!NoTarget, Proc!Target, Targets, Proc!Pid, Proc!Desc

LEMMA ProcInit == Proc!Init => ProcInv
  <1> SUFFICES ASSUME Proc!Init PROVE ProcInv
    OBVIOUS
  <1> USE NoTargetIs DEF Proc!Init
  <1>1. ProcType
    <2>1. Proc!NoMsgdsc \in Entries
      BY DEF Proc!NoMsgdsc, Entries
    <2>2. msgdsc \in Msgdscs
      BY <2>1 DEF Msgdscs
    <2>3. /\ valid \in [Proc!Pid -> BOOLEAN] /\ exitflag \in [Proc!Pid -> BOOLEAN]
          /\ valid[0]
      OBVIOUS
    <2>4. /\ gen \in [Proc!Pid -> Nat \ {0}] /\ running \in [Proc!Pid -> Int]
          /\ born \in [Proc!Pid -> 0 .. MaxNew]
      OBVIOUS
    <2>5. /\ stack \in [Thread -> Seq(Targets)] /\ arg \in [Thread -> Targets]
          /\ procpc \in [Thread -> {"run", "open", "unregister", "call", "return"}]
          /\ msg_data_used \subseteq [name : Name, to : Targets]
      OBVIOUS
    <2> QED BY <2>2, <2>3, <2>4, <2>5 DEF ProcType
  <1>2. DepthInv
    BY DEF DepthInv
  <1>3. TargetInv
    BY DEF TargetInv, Meant, Proc!NoMsgdsc, Targets
  <1>4. \A p \in Proc!Pid : Proc!Frames(p) = {}
    BY DEF Proc!Frames
  <1>5. Proc!InsideLiving
    <2>1. Proc!Cardinality({}) = 0
      BY FS_EmptySet DEF Proc!Cardinality, Cardinality
    <2> QED BY <1>4, <2>1 DEF Proc!InsideLiving
  <1>6. Proc!NamesLive
    BY DEF Proc!NamesLive
  <1> QED BY <1>1, <1>2, <1>3, <1>5, <1>6 DEF ProcInv

LEMMA SameCard == \A S : Proc!Cardinality(S) = Cardinality(S)
  BY DEF Proc!Cardinality, Cardinality

(* The calls of thread t end at its depth. *)
LEMMA FramesFinite == \A p : IsFiniteSet(Proc!Frames(p))
  <1>1. IsFiniteSet(1 .. MaxDepth)
    BY FS_Interval
  <1>2. IsFiniteSet(Thread \X (1 .. MaxDepth))
    BY <1>1, FS_Product
  <1> QED BY <1>2, FS_Subset DEF Proc!Frames

(* The process whose code a thread executes exists. *)
LEMMA SelfLives ==
  ASSUME ProcInv, NEW t \in Thread
  PROVE  Proc!Self(t) \in Proc!Pid /\ valid[Proc!Self(t)]
  <1>1. CASE stack[t] = <<>>
    BY <1>1, NoTargetIs DEF ProcInv, ProcType, Proc!Self
  <1>2. CASE stack[t] # <<>>
    <2>1. stack[t] \in Seq(Targets) /\ Len(stack[t]) \in 1 .. Len(stack[t])
      BY <1>2 DEF ProcInv, ProcType
    <2>2. stack[t][Len(stack[t])] \in Targets
      BY <2>1
    <2> QED BY <1>2, <2>1, <2>2 DEF ProcInv, Proc!InsideLiving, Proc!Self, Targets
  <1> QED BY <1>1, <1>2

(* One descriptor is set, and none of the others. *)
WithEntry(m, p, d, x) == [m EXCEPT ![p] = [m[p] EXCEPT ![d] = x]]

LEMMA SetEntry ==
  ASSUME NEW m \in Msgdscs, NEW p \in Proc!Pid, NEW d \in Proc!Desc,
         NEW x \in Entries
  PROVE  /\ WithEntry(m, p, d, x) \in Msgdscs
         /\ \A q \in Proc!Pid, e \in Proc!Desc :
               WithEntry(m, p, d, x)[q][e] = IF q = p /\ e = d THEN x ELSE m[q][e]
  <1> DEFINE I == [m[p] EXCEPT ![d] = x]
             n == WithEntry(m, p, d, x)
  <1>1. m \in [Proc!Pid -> [Proc!Desc -> Entries]] /\ m[p] \in [Proc!Desc -> Entries] /\ x \in Entries
    BY DEF Msgdscs
  <1>2. I \in [Proc!Desc -> Entries] /\ \A e \in Proc!Desc : I[e] = IF e = d THEN x ELSE m[p][e]
    BY <1>1
  <1>3. n = [m EXCEPT ![p] = I]
    BY DEF WithEntry
  <1>4. n \in [Proc!Pid -> [Proc!Desc -> Entries]] /\ \A q \in Proc!Pid : n[q] = IF q = p THEN I ELSE m[q]
    <2> HIDE DEF I, n
    <2> QED BY <1>1, <1>2, <1>3
  <1> QED BY <1>2, <1>4 DEF Msgdscs

WithTarget(m, p, d, x) == [m EXCEPT ![p][d].to = x]

LEMMA SetTarget ==
  ASSUME ProcInv, NEW p \in Proc!Pid, NEW d \in Proc!Desc, NEW x \in Targets,
         msgdsc' = WithTarget(msgdsc, p, d, x)
  PROVE  /\ msgdsc' \in Msgdscs
         /\ \A q \in Proc!Pid, e \in Proc!Desc :
               msgdsc'[q][e].to = IF q = p /\ e = d THEN x ELSE msgdsc[q][e].to
  <1> DEFINE y == [msgdsc[p][d] EXCEPT !.to = x]
  <1>1. msgdsc \in Msgdscs /\ msgdsc[p][d] \in Entries
    BY DEF ProcInv, ProcType, Msgdscs
  <1>2. y \in Entries /\ y.to = x
    BY <1>1 DEF Entries
  <1>3. msgdsc' = WithEntry(msgdsc, p, d, y)
    BY DEF WithEntry, WithTarget
  <1> HIDE DEF y
  <1>4. /\ msgdsc' \in Msgdscs
        /\ \A q \in Proc!Pid, e \in Proc!Desc :
              msgdsc'[q][e] = IF q = p /\ e = d THEN y ELSE msgdsc[q][e]
    <2>1. /\ WithEntry(msgdsc, p, d, y) \in Msgdscs
          /\ \A q \in Proc!Pid, e \in Proc!Desc :
                WithEntry(msgdsc, p, d, y)[q][e] = IF q = p /\ e = d THEN y ELSE msgdsc[q][e]
      BY <1>1, <1>2, SetEntry
    <2> QED BY <1>3, <2>1
  <1> QED BY <1>2, <1>4

LEMMA SetFunc ==
  ASSUME ProcInv, NEW p \in Proc!Pid, NEW d \in Proc!Desc, NEW f \in BOOLEAN,
         msgdsc' = [msgdsc EXCEPT ![p][d].func = f]
  PROVE  /\ msgdsc' \in Msgdscs
         /\ \A q \in Proc!Pid, e \in Proc!Desc : msgdsc'[q][e].to = msgdsc[q][e].to
  <1> DEFINE y == [msgdsc[p][d] EXCEPT !.func = f]
  <1>1. msgdsc \in Msgdscs /\ msgdsc[p][d] \in Entries
    BY DEF ProcInv, ProcType, Msgdscs
  <1>2. y \in Entries /\ y.to = msgdsc[p][d].to
    BY <1>1 DEF Entries
  <1>3. msgdsc' = WithEntry(msgdsc, p, d, y)
    BY DEF WithEntry
  <1> HIDE DEF y
  <1>4. /\ msgdsc' \in Msgdscs
        /\ \A q \in Proc!Pid, e \in Proc!Desc :
              msgdsc'[q][e] = IF q = p /\ e = d THEN y ELSE msgdsc[q][e]
    <2>1. /\ WithEntry(msgdsc, p, d, y) \in Msgdscs
          /\ \A q \in Proc!Pid, e \in Proc!Desc :
                WithEntry(msgdsc, p, d, y)[q][e] = IF q = p /\ e = d THEN y ELSE msgdsc[q][e]
      BY <1>1, <1>2, SetEntry
    <2> QED BY <1>3, <2>1
  <1> QED BY <1>2, <1>4

(* The descriptors of one process are set, and none of the others. *)
LEMMA SetAll ==
  ASSUME ProcInv, NEW p \in Proc!Pid, NEW y \in [Proc!Desc -> Entries],
         msgdsc' = [msgdsc EXCEPT ![p] = y]
  PROVE  /\ msgdsc' \in Msgdscs
         /\ \A q \in Proc!Pid : msgdsc'[q] = IF q = p THEN y ELSE msgdsc[q]
  <1> DEFINE E == [Proc!Desc -> Entries]
  <1>1. msgdsc \in [Proc!Pid -> E] /\ y \in E
    BY DEF ProcInv, ProcType, Msgdscs
  <1>2. msgdsc' \in [Proc!Pid -> E]
    <2> HIDE DEF E
    <2> QED BY <1>1
  <1> QED BY <1>1, <1>2 DEF Msgdscs

LEMMA BecomesDoes ==
  ASSUME ProcInv, NEW t \in Thread,
         NEW w \in {"run", "open", "unregister", "call", "return"},
         NEW x \in Targets, Meant(x), Proc!Becomes(t, w, x)
  PROVE  /\ procpc' \in [Thread -> {"run", "open", "unregister", "call", "return"}]
         /\ arg' \in [Thread -> Targets]
         /\ \A u \in Thread : procpc'[u] = IF u = t THEN w ELSE procpc[u]
         /\ \A u \in Thread : Meant(arg'[u])
  <1>1. /\ procpc \in [Thread -> {"run", "open", "unregister", "call", "return"}]
        /\ arg \in [Thread -> Targets]
        /\ \A u \in Thread : Meant(arg[u])
    BY DEF ProcInv, ProcType, TargetInv
  <1>2. procpc' = [procpc EXCEPT ![t] = w] /\ arg' = [arg EXCEPT ![t] = x]
    BY DEF Proc!Becomes
  <1>3. \A u \in Thread : arg'[u] = IF u = t THEN x ELSE arg[u]
    BY <1>1, <1>2
  <1>4. \A u \in Thread : Meant(arg'[u])
    BY <1>1, <1>3
  <1> QED BY <1>1, <1>2, <1>4

Live(x) == valid[x.pid] /\ gen[x.pid] = x.gen /\ born[x.pid] = x.incarnation

(* A step that creates no process, ends none, and calls or leaves none.    *)
LEMMA QuietStep ==
  ASSUME ProcInv, UNCHANGED <<valid, gen, running, stack, born>>,
         exitflag' \in [Proc!Pid -> BOOLEAN],
         msgdsc' \in Msgdscs,
         msg_data_used' \subseteq [name : Name, to : Targets],
         procpc' \in [Thread -> {"run", "open", "unregister", "call", "return"}],
         arg' \in [Thread -> Targets],
         \A p \in Proc!Pid, d \in Proc!Desc : Meant(msgdsc'[p][d].to),
         \A t \in Thread : Meant(arg'[t]),
         \A t \in Thread : procpc'[t] = "call" => Len(stack[t]) < MaxDepth,
         \A m \in msg_data_used' : Live(m.to)
  PROVE  ProcInv'
  <1>1. ProcType'
    BY DEF ProcInv, ProcType
  <1>2. DepthInv'
    BY DEF ProcInv, DepthInv
  <1>3. TargetInv'
    BY DEF TargetInv, Meant
  <1>4. \A p : Proc!Frames(p)' = Proc!Frames(p)
    BY DEF Proc!Frames
  <1>5. Proc!InsideLiving'
    BY <1>4 DEF ProcInv, Proc!InsideLiving
  <1>6. Proc!NamesLive'
    BY DEF Proc!NamesLive, Live
  <1> QED BY <1>1, <1>2, <1>3, <1>5, <1>6 DEF ProcInv

(* Of what is known before a step, what QuietStep asks for after it *)
LEMMA ProcFacts ==
  ASSUME ProcInv
  PROVE  /\ exitflag \in [Proc!Pid -> BOOLEAN]
         /\ msgdsc \in Msgdscs
         /\ msg_data_used \subseteq [name : Name, to : Targets]
         /\ \A p \in Proc!Pid, d \in Proc!Desc :
               msgdsc[p][d].to \in Targets /\ Meant(msgdsc[p][d].to)
         /\ \A t \in Thread : arg[t] \in Targets /\ Meant(arg[t])
         /\ \A t \in Thread : procpc[t] = "call" => Len(stack[t]) < MaxDepth
         /\ \A m \in msg_data_used : m.to \in Targets /\ Live(m.to) /\ Meant(m.to)
         /\ Proc!NoTarget \in Targets /\ Meant(Proc!NoTarget)
  <1>1. /\ exitflag \in [Proc!Pid -> BOOLEAN] /\ msgdsc \in Msgdscs
        /\ msg_data_used \subseteq [name : Name, to : Targets]
        /\ arg \in [Thread -> Targets] /\ gen \in [Proc!Pid -> Nat \ {0}]
    BY DEF ProcInv, ProcType
  <1>2. \A p \in Proc!Pid, d \in Proc!Desc : msgdsc[p][d].to \in Targets
    BY <1>1 DEF Msgdscs, Entries
  <1>3. \A m \in msg_data_used : m.to \in Targets /\ Live(m.to)
    BY <1>1 DEF ProcInv, Proc!NamesLive, Live
  <1>4. \A m \in msg_data_used : Meant(m.to)
    BY <1>1, <1>3 DEF Live, Meant, Targets
  <1>5. Meant(Proc!NoTarget)
    <2>1. Proc!NoTarget.pid \in Proc!Pid /\ Proc!NoTarget.gen = 0
      BY NoTargetIs DEF Targets
    <2> QED BY <1>1, <2>1 DEF Meant
  <1> QED BY <1>1, <1>2, <1>3, <1>4, <1>5, NoTargetIs DEF ProcInv, TargetInv, DepthInv

LEMMA ClosedIn == \A p : Proc!Closed(p) \subseteq 0 .. NUM_OF_MSGDSC - 1
  BY DEF Proc!Closed, Proc!Desc

LEMMA QuietSteps ==
  ASSUME ProcInv, NEW t \in Thread,
         \/ Proc!msgopen(t) \/ Proc!_msgopen_2(t) \/ Proc!msgclose(t)
         \/ Proc!msgregister(t) \/ Proc!msgunregister(t) \/ Proc!msg_unregister2(t)
         \/ Proc!msgsenddesc(t) \/ Proc!msgsend(t) \/ Proc!exitprocess(t)
  PROVE  ProcInv'
  <1> USE ProcFacts
  <1>0. Proc!Self(t) \in Proc!Pid /\ valid[Proc!Self(t)]
    BY SelfLives
  <1>1. CASE Proc!msgopen(t)
    <2>1. PICK m \in msg_data_used : Proc!Becomes(t, "open", m.to)
      BY <1>1 DEF Proc!msgopen
    <2>2. UNCHANGED <<valid, gen, running, stack, born, exitflag, msgdsc, msg_data_used>>
      BY <1>1 DEF Proc!msgopen, Proc!process
    <2>3. /\ procpc' \in [Thread -> {"run", "open", "unregister", "call", "return"}]
          /\ arg' \in [Thread -> Targets]
          /\ \A u \in Thread : procpc'[u] = IF u = t THEN "open" ELSE procpc[u]
          /\ \A u \in Thread : Meant(arg'[u])
      BY <2>1, BecomesDoes
    <2> QED BY <2>2, <2>3, QuietStep
  <1>2. CASE Proc!_msgopen_2(t)
    <2>1. Proc!Becomes(t, "run", Proc!NoTarget)
      BY <1>2 DEF Proc!_msgopen_2
    <2>2. UNCHANGED <<valid, gen, running, stack, born, exitflag, msg_data_used>>
      BY <1>2 DEF Proc!_msgopen_2
    <2>3. /\ procpc' \in [Thread -> {"run", "open", "unregister", "call", "return"}]
          /\ arg' \in [Thread -> Targets]
          /\ \A u \in Thread : procpc'[u] = IF u = t THEN "run" ELSE procpc[u]
          /\ \A u \in Thread : Meant(arg'[u])
      BY <2>1, BecomesDoes
    <2>4. msgdsc' \in Msgdscs /\ \A p \in Proc!Pid, d \in Proc!Desc : Meant(msgdsc'[p][d].to)
      <3>1. CASE Proc!Closed(Proc!Self(t)) = {}
        BY <1>2, <3>1 DEF Proc!_msgopen_2
      <3>2. CASE Proc!Closed(Proc!Self(t)) # {}
        <4> DEFINE d == Proc!Min(Proc!Closed(Proc!Self(t)))
        <4>1. d \in Proc!Desc
          <5>1. NUM_OF_MSGDSC - 1 \in Nat /\ Proc!Closed(Proc!Self(t)) \subseteq 0 .. NUM_OF_MSGDSC - 1
            BY ClosedIn
          <5>2. d \in Proc!Closed(Proc!Self(t))
            BY <3>2, <5>1, MinIn
          <5> QED BY <5>1, <5>2 DEF Proc!Desc
        <4>2. msgdsc' = WithTarget(msgdsc, Proc!Self(t), d, arg[t])
          BY <1>2, <3>2 DEF Proc!_msgopen_2, WithTarget
        <4> HIDE DEF d
        <4>3. /\ msgdsc' \in Msgdscs
              /\ \A q \in Proc!Pid, e \in Proc!Desc :
                    msgdsc'[q][e].to = IF q = Proc!Self(t) /\ e = d THEN arg[t] ELSE msgdsc[q][e].to
          BY <1>0, <4>1, <4>2, SetTarget
        <4> QED BY <4>3
      <3> QED BY <3>1, <3>2
    <2> QED BY <2>2, <2>3, <2>4, QuietStep
  <1>3. CASE Proc!msgclose(t)
    <2>1. PICK d \in Proc!Desc :
              msgdsc' = WithTarget(msgdsc, Proc!Self(t), d, Proc!NoTarget)
      BY <1>3 DEF Proc!msgclose, WithTarget
    <2>2. UNCHANGED <<valid, gen, running, stack, born, exitflag, msg_data_used, procpc, arg>>
      BY <1>3 DEF Proc!msgclose
    <2>3. /\ msgdsc' \in Msgdscs
          /\ \A q \in Proc!Pid, e \in Proc!Desc :
                msgdsc'[q][e].to = IF q = Proc!Self(t) /\ e = d THEN Proc!NoTarget ELSE msgdsc[q][e].to
      BY <1>0, <2>1, SetTarget
    <2>4. \A p \in Proc!Pid, e \in Proc!Desc : Meant(msgdsc'[p][e].to)
      BY <2>3
    <2>5. /\ procpc \in [Thread -> {"run", "open", "unregister", "call", "return"}]
          /\ arg \in [Thread -> Targets]
      BY DEF ProcInv, ProcType
    <2> QED BY <2>2, <2>3, <2>4, <2>5, QuietStep
  <1>4. CASE Proc!msgregister(t)
    <2> DEFINE p == Proc!Self(t)
               free == {d \in Proc!Desc : ~msgdsc[p][d].func}
               d == Proc!Min(free)
               x == Proc!Target(p, gen[p], d, born[p])
    <2>1. PICK name \in Name :
              /\ free # {}
              /\ msgdsc' = [msgdsc EXCEPT ![p][d].func = TRUE]
              /\ msg_data_used' = msg_data_used \cup {[name |-> name, to |-> x]}
      BY <1>4 DEF Proc!msgregister
    <2>2. UNCHANGED <<valid, gen, running, stack, born, exitflag, procpc, arg>>
      BY <1>4 DEF Proc!msgregister
    <2>3. d \in Proc!Desc
      <3>1. free \subseteq 0 .. NUM_OF_MSGDSC - 1 /\ NUM_OF_MSGDSC - 1 \in Nat
        BY DEF Proc!Desc
      <3>2. d \in free
        <4> HIDE DEF free
        <4> QED BY <2>1, <3>1, MinIn
      <3> QED BY <3>2
    <2>4. x \in Targets /\ Live(x)
      <3>1. gen[p] \in Nat /\ born[p] \in Nat
        BY <1>0 DEF ProcInv, ProcType
      <3> HIDE DEF d
      <3> QED BY <1>0, <2>3, <3>1 DEF Targets, Proc!Target, Live
    <2> HIDE DEF d, x, free
    <2>5. msgdsc' \in Msgdscs /\ \A q \in Proc!Pid, e \in Proc!Desc : msgdsc'[q][e].to = msgdsc[q][e].to
      BY <1>0, <2>1, <2>3, SetFunc
    <2>6. \A q \in Proc!Pid, e \in Proc!Desc : Meant(msgdsc'[q][e].to)
      BY <2>5
    <2>7. /\ procpc \in [Thread -> {"run", "open", "unregister", "call", "return"}]
          /\ arg \in [Thread -> Targets]
      BY DEF ProcInv, ProcType
    <2>8. /\ msg_data_used' \subseteq [name : Name, to : Targets]
          /\ \A m \in msg_data_used' : Live(m.to)
      BY <2>1, <2>4
    <2> QED BY <2>2, <2>5, <2>6, <2>7, <2>8, QuietStep
  <1>5. CASE Proc!msgunregister(t)
    <2>1. PICK d \in Proc!Desc :
              /\ msgdsc' = [msgdsc EXCEPT ![Proc!Self(t)][d].func = FALSE]
              /\ Proc!Becomes(t, "unregister", Proc!Target(Proc!Self(t), 0, d, 0))
      BY <1>5 DEF Proc!msgunregister
    <2>2. UNCHANGED <<valid, gen, running, stack, born, exitflag, msg_data_used>>
      BY <1>5 DEF Proc!msgunregister
    <2> DEFINE x == Proc!Target(Proc!Self(t), 0, d, 0)
    <2>3. x \in Targets /\ Meant(x)
      <3>1. gen[Proc!Self(t)] \in Nat \ {0}
        BY <1>0 DEF ProcInv, ProcType
      <3> QED BY <1>0, <3>1 DEF Targets, Proc!Target, Meant
    <2> HIDE DEF x
    <2>4. /\ procpc' \in [Thread -> {"run", "open", "unregister", "call", "return"}]
          /\ arg' \in [Thread -> Targets]
          /\ \A u \in Thread : procpc'[u] = IF u = t THEN "unregister" ELSE procpc[u]
          /\ \A u \in Thread : Meant(arg'[u])
      <3>1. Proc!Becomes(t, "unregister", x)
        BY <2>1 DEF x
      <3> QED BY <2>3, <3>1, BecomesDoes
    <2>5. msgdsc' \in Msgdscs /\ \A q \in Proc!Pid, e \in Proc!Desc : msgdsc'[q][e].to = msgdsc[q][e].to
      BY <1>0, <2>1, SetFunc
    <2>6. \A q \in Proc!Pid, e \in Proc!Desc : Meant(msgdsc'[q][e].to)
      BY <2>5
    <2> QED BY <2>2, <2>4, <2>5, <2>6, QuietStep
  <1>6. CASE Proc!msg_unregister2(t)
    <2>1. Proc!Becomes(t, "run", Proc!NoTarget) /\ msg_data_used' \subseteq msg_data_used
      BY <1>6 DEF Proc!msg_unregister2
    <2>2. UNCHANGED <<valid, gen, running, stack, born, exitflag, msgdsc>>
      BY <1>6 DEF Proc!msg_unregister2, Proc!process
    <2>3. /\ procpc' \in [Thread -> {"run", "open", "unregister", "call", "return"}]
          /\ arg' \in [Thread -> Targets]
          /\ \A u \in Thread : procpc'[u] = IF u = t THEN "run" ELSE procpc[u]
          /\ \A u \in Thread : Meant(arg'[u])
      BY <2>1, BecomesDoes
    <2> QED BY <2>1, <2>2, <2>3, QuietStep
  <1>7. CASE Proc!msgsenddesc(t)
    <2>1. PICK td \in Proc!Desc, sd \in Proc!Desc :
            LET to   == msgdsc[Proc!Self(t)][td].to
                free == Proc!Closed(to.pid) \cap 0 .. NUM_OF_MSGDSCRECV - 1
            IN  /\ free # {}
                /\ msgdsc' = [msgdsc EXCEPT ![to.pid][Proc!Min(free)].to =
                                  msgdsc[Proc!Self(t)][sd].to]
      BY <1>7 DEF Proc!msgsenddesc
    <2>2. UNCHANGED <<valid, gen, running, stack, born, exitflag, msg_data_used, procpc, arg>>
      BY <1>7 DEF Proc!msgsenddesc
    <2> DEFINE q == msgdsc[Proc!Self(t)][td].to.pid
               free == Proc!Closed(q) \cap 0 .. NUM_OF_MSGDSCRECV - 1
               d == Proc!Min(free)
               x == msgdsc[Proc!Self(t)][sd].to
    <2>3. msgdsc' = WithTarget(msgdsc, q, d, x) /\ free # {}
      BY <2>1 DEF WithTarget
    <2>4. q \in Proc!Pid /\ x \in Targets /\ Meant(x)
      BY <1>0 DEF Targets
    <2>5. d \in Proc!Desc
      <3>1. free \subseteq 0 .. NUM_OF_MSGDSC - 1 /\ NUM_OF_MSGDSC - 1 \in Nat
        BY ClosedIn
      <3>2. d \in free
        <4> HIDE DEF free
        <4> QED BY <2>3, <3>1, MinIn
      <3> QED BY <3>1, <3>2 DEF Proc!Desc
    <2> HIDE DEF q, free, d, x
    <2>6. /\ msgdsc' \in Msgdscs
          /\ \A r1 \in Proc!Pid, e \in Proc!Desc :
                msgdsc'[r1][e].to = IF r1 = q /\ e = d THEN x ELSE msgdsc[r1][e].to
      BY <2>3, <2>4, <2>5, SetTarget
    <2>7. \A p \in Proc!Pid, e \in Proc!Desc : Meant(msgdsc'[p][e].to)
      BY <2>4, <2>6
    <2>8. /\ procpc \in [Thread -> {"run", "open", "unregister", "call", "return"}]
          /\ arg \in [Thread -> Targets]
      BY DEF ProcInv, ProcType
    <2> QED BY <2>2, <2>6, <2>7, <2>8, QuietStep
  <1>8. CASE Proc!msgsend(t)
    <2>1. PICK d \in Proc!Desc : Proc!Becomes(t, "call", msgdsc[Proc!Self(t)][d].to)
      BY <1>8 DEF Proc!msgsend
    <2>2. /\ UNCHANGED <<valid, gen, running, stack, born, exitflag, msgdsc, msg_data_used>>
          /\ Len(stack[t]) < MaxDepth
      BY <1>8 DEF Proc!msgsend, Proc!process
    <2>3. /\ procpc' \in [Thread -> {"run", "open", "unregister", "call", "return"}]
          /\ arg' \in [Thread -> Targets]
          /\ \A u \in Thread : procpc'[u] = IF u = t THEN "call" ELSE procpc[u]
          /\ \A u \in Thread : Meant(arg'[u])
      BY <1>0, <2>1, BecomesDoes
    <2> QED BY <2>2, <2>3, QuietStep
  <1>9. CASE Proc!exitprocess(t)
    <2>1. /\ Proc!Becomes(t, "return", Proc!NoTarget)
          /\ exitflag' = [exitflag EXCEPT ![Proc!Self(t)] = TRUE]
      BY <1>9 DEF Proc!exitprocess
    <2>2. UNCHANGED <<valid, gen, running, stack, born, msgdsc, msg_data_used>>
      BY <1>9 DEF Proc!exitprocess
    <2>3. /\ procpc' \in [Thread -> {"run", "open", "unregister", "call", "return"}]
          /\ arg' \in [Thread -> Targets]
          /\ \A u \in Thread : procpc'[u] = IF u = t THEN "return" ELSE procpc[u]
          /\ \A u \in Thread : Meant(arg'[u])
      BY <2>1, BecomesDoes
    <2>4. exitflag' \in [Proc!Pid -> BOOLEAN]
      BY <2>1
    <2> QED BY <2>2, <2>3, <2>4, QuietStep
  <1> QED BY <1>1, <1>2, <1>3, <1>4, <1>5, <1>6, <1>7, <1>8, <1>9

(* Nobody is inside a process that is not valid, and no name refers to it. *)
LEMMA NewStep ==
  ASSUME ProcInv, NEW t \in Thread, Proc!process_new(t)
  PROVE  ProcInv'
  <1> DEFINE Unused == {q \in Proc!Pid : ~valid[q]}
             p == Proc!Min(Unused)
             n == 1 + Proc!Max({born[q] : q \in Proc!Pid})
             x == Proc!Target(p, gen[p] + 1, 0, n)
             first == [d \in Proc!Desc |-> IF d = 0 THEN [Proc!NoMsgdsc EXCEPT !.func = TRUE]
                                           ELSE Proc!NoMsgdsc]
  <1>1. /\ Unused # {} /\ n <= MaxNew
        /\ valid' = [valid EXCEPT ![p] = TRUE]
        /\ gen' = [gen EXCEPT ![p] = @ + 1]
        /\ running' = [running EXCEPT ![p] = 0]
        /\ exitflag' = [exitflag EXCEPT ![p] = FALSE]
        /\ msgdsc' = [msgdsc EXCEPT ![p] = first]
        /\ born' = [born EXCEPT ![p] = n]
        /\ Proc!Becomes(t, "open", x)
        /\ UNCHANGED <<msg_data_used, stack>>
    BY DEF Proc!process_new
  <1>2. p \in Proc!Pid /\ ~valid[p] /\ p # 0
    <2>1. NUM_OF_PID - 1 \in Nat /\ Unused \subseteq 0 .. NUM_OF_PID - 1
      BY DEF Proc!Pid
    <2>2. p \in Unused
      <3> HIDE DEF Unused
      <3> QED BY <1>1, <2>1, MinIn
    <2> QED BY <2>2 DEF ProcInv, ProcType
  <1>3. n \in 0 .. MaxNew
    <2> DEFINE B == {born[q] : q \in Proc!Pid}
    <2>1. B \subseteq 0 .. MaxNew /\ B # {}
      BY NoTargetIs DEF ProcInv, ProcType
    <2>2. Proc!Max(B) \in B
      <3> HIDE DEF B
      <3>1. \E y \in B : \A z \in B : y >= z
        BY <2>1, HasGreatest
      <3> QED BY <3>1 DEF Proc!Max
    <2>3. Proc!Max(B) \in 0 .. MaxNew /\ n = 1 + Proc!Max(B)
      BY <2>1, <2>2
    <2> HIDE DEF B, n
    <2> QED BY <1>1, <2>3
  <1>4. first \in [Proc!Desc -> Entries] /\ \A d \in Proc!Desc : first[d].to = Proc!NoTarget
    BY NoTargetIs DEF Proc!NoMsgdsc, Entries
  <1> HIDE DEF p, n, first, Unused
  <1>5. x \in Targets /\ x.pid = p /\ x.gen = gen[p] + 1 /\ x.incarnation = n
    <2>1. gen[p] \in Nat /\ 0 \in Proc!Desc
      BY <1>2 DEF ProcInv, ProcType, Proc!Desc
    <2> QED BY <1>2, <1>3, <2>1 DEF Proc!Target, Targets
  <1> HIDE DEF x
  <1>6. /\ valid \in [Proc!Pid -> BOOLEAN] /\ exitflag \in [Proc!Pid -> BOOLEAN]
        /\ gen \in [Proc!Pid -> Nat \ {0}] /\ running \in [Proc!Pid -> Int]
        /\ born \in [Proc!Pid -> 0 .. MaxNew] /\ valid[0]
        /\ procpc \in [Thread -> {"run", "open", "unregister", "call", "return"}]
        /\ arg \in [Thread -> Targets]
    BY DEF ProcInv, ProcType
  <1>7. /\ \A q \in Proc!Pid : valid'[q] = (q = p \/ valid[q])
        /\ \A q \in Proc!Pid : gen'[q] = IF q = p THEN gen[p] + 1 ELSE gen[q]
        /\ \A q \in Proc!Pid : running'[q] = IF q = p THEN 0 ELSE running[q]
        /\ \A q \in Proc!Pid : born'[q] = IF q = p THEN n ELSE born[q]
    BY <1>1, <1>2, <1>6
  <1>8. /\ valid' \in [Proc!Pid -> BOOLEAN] /\ exitflag' \in [Proc!Pid -> BOOLEAN]
        /\ gen' \in [Proc!Pid -> Nat \ {0}] /\ running' \in [Proc!Pid -> Int]
        /\ born' \in [Proc!Pid -> 0 .. MaxNew] /\ valid'[0]
    BY <1>1, <1>2, <1>3, <1>6
  <1>9. /\ msgdsc' \in Msgdscs
        /\ \A q \in Proc!Pid : msgdsc'[q] = IF q = p THEN first ELSE msgdsc[q]
    BY <1>1, <1>2, <1>4, SetAll
  <1>10. /\ procpc' = [procpc EXCEPT ![t] = "open"] /\ arg' = [arg EXCEPT ![t] = x]
    BY <1>1 DEF Proc!Becomes
  <1>11. /\ procpc' \in [Thread -> {"run", "open", "unregister", "call", "return"}]
         /\ arg' \in [Thread -> Targets]
         /\ \A u \in Thread : arg'[u] = IF u = t THEN x ELSE arg[u]
         /\ \A u \in Thread : procpc'[u] = "call" => procpc[u] = "call"
    BY <1>5, <1>6, <1>10
  <1>12. ProcType'
    BY <1>1, <1>8, <1>9, <1>11 DEF ProcInv, ProcType
  <1>13. DepthInv'
    BY <1>1, <1>11 DEF ProcInv, DepthInv
  <1>14. \A y \in Targets : Meant(y) => /\ y.gen <= gen'[y.pid]
                                        /\ y.gen = gen'[y.pid] => y.incarnation = born'[y.pid]
    <2> SUFFICES ASSUME NEW y \in Targets, Meant(y)
                 PROVE  /\ y.gen <= gen'[y.pid]
                        /\ y.gen = gen'[y.pid] => y.incarnation = born'[y.pid]
      OBVIOUS
    <2>1. y.pid \in Proc!Pid /\ y.gen \in Nat /\ gen[y.pid] \in Nat
      BY <1>6 DEF Targets
    <2> QED BY <1>7, <2>1 DEF Meant
  <1>15. TargetInv'
    <2>1. ASSUME NEW q \in Proc!Pid, NEW d \in Proc!Desc PROVE Meant(msgdsc[q][d].to)'
      <3>1. msgdsc[q][d].to \in Targets /\ Meant(msgdsc[q][d].to)
            /\ Proc!NoTarget \in Targets /\ Meant(Proc!NoTarget)
        BY ProcFacts
      <3>2. msgdsc'[q][d].to = msgdsc[q][d].to \/ msgdsc'[q][d].to = Proc!NoTarget
        BY <1>4, <1>9
      <3> QED BY <1>14, <3>1, <3>2 DEF Meant
    <2>2. ASSUME NEW u \in Thread PROVE Meant(arg[u])'
      <3>1. CASE u = t
        <4>1. x.gen = gen'[x.pid] /\ x.incarnation = born'[x.pid] /\ gen'[x.pid] \in Nat
          BY <1>2, <1>5, <1>7, <1>8
        <4> QED BY <1>11, <3>1, <4>1 DEF Meant
      <3>2. CASE u # t
        BY <1>11, <1>14, <3>2, ProcFacts DEF Meant
      <3> QED BY <3>1, <3>2
    <2> QED BY <2>1, <2>2 DEF TargetInv
  <1>16. \A q : Proc!Frames(q)' = Proc!Frames(q)
    BY <1>1 DEF Proc!Frames
  <1>17. ASSUME NEW u \in Thread, NEW i \in 1 .. Len(stack[u])
         PROVE  /\ stack[u][i].pid \in Proc!Pid /\ stack[u][i].pid # p /\ Live(stack[u][i])
    <2>1. Live(stack[u][i])
      BY DEF ProcInv, Proc!InsideLiving, Live
    <2>2. stack[u] \in Seq(Targets)
      BY DEF ProcInv, ProcType
    <2>3. stack[u][i] \in Targets
      BY <2>2
    <2> QED BY <1>2, <2>1, <2>3 DEF Live, Targets
  <1>18. Proc!InsideLiving'
    <2>1. Proc!Frames(p) = {}
      <3> SUFFICES ASSUME NEW f \in Thread \X (1 .. MaxDepth), f[2] <= Len(stack[f[1]]),
                          stack[f[1]][f[2]].pid = p
                   PROVE  FALSE
        BY DEF Proc!Frames
      <3>1. f[1] \in Thread /\ stack[f[1]] \in Seq(Targets)
        BY DEF ProcInv, ProcType
      <3>2. f[2] \in 1 .. Len(stack[f[1]])
        BY <3>1
      <3> QED BY <1>17, <3>1, <3>2
    <2>2. \A q \in Proc!Pid \ {0} : running'[q] = Proc!Cardinality(Proc!Frames(q)')
      <3>1. Proc!Cardinality({}) = 0
        BY FS_EmptySet, SameCard
      <3> QED BY <1>7, <1>16, <2>1, <3>1 DEF ProcInv, Proc!InsideLiving
    <2>3. \A u \in Thread : \A i \in 1 .. Len(stack[u]) :
             LET f == stack[u][i]
             IN  valid'[f.pid] /\ gen'[f.pid] = f.gen /\ born'[f.pid] = f.incarnation
      <3> SUFFICES ASSUME NEW u \in Thread, NEW i \in 1 .. Len(stack[u])
                   PROVE  /\ valid'[stack[u][i].pid] /\ gen'[stack[u][i].pid] = stack[u][i].gen
                          /\ born'[stack[u][i].pid] = stack[u][i].incarnation
        OBVIOUS
      <3>1. /\ stack[u][i].pid \in Proc!Pid /\ stack[u][i].pid # p /\ Live(stack[u][i])
        BY <1>17
      <3> QED BY <1>7, <3>1 DEF Live
    <2> QED BY <1>1, <2>2, <2>3 DEF Proc!InsideLiving
  <1>19. Proc!NamesLive'
    <2>1. ASSUME NEW m \in msg_data_used
          PROVE  valid'[m.to.pid] /\ gen'[m.to.pid] = m.to.gen /\ born'[m.to.pid] = m.to.incarnation
      <3>1. m.to \in Targets /\ Live(m.to)
        BY ProcFacts
      <3>2. m.to.pid \in Proc!Pid /\ m.to.pid # p
        BY <1>2, <3>1 DEF Live, Targets
      <3> QED BY <1>7, <3>1, <3>2 DEF Live
    <2> QED BY <1>1, <2>1 DEF Proc!NamesLive
  <1> QED BY <1>12, <1>13, <1>15, <1>18, <1>19 DEF ProcInv

(* The calls inside each process when a thread enters one more, or leaves  *)
(* the one it entered last.                                                *)
LEMMA PushFrame ==
  ASSUME ProcInv, NEW t \in Thread, NEW a \in Targets, Len(stack[t]) < MaxDepth,
         stack' = [stack EXCEPT ![t] = Append(@, a)]
  PROVE  /\ stack' \in [Thread -> Seq(Targets)]
         /\ \A u \in Thread : u # t => stack'[u] = stack[u]
         /\ Len(stack'[t]) = Len(stack[t]) + 1
         /\ \A i \in 1 .. Len(stack[t]) + 1 :
               stack'[t][i] = IF i = Len(stack[t]) + 1 THEN a ELSE stack[t][i]
         /\ \A q : Proc!Frames(q)' = IF q = a.pid
                                     THEN Proc!Frames(q) \cup {<<t, Len(stack[t]) + 1>>}
                                     ELSE Proc!Frames(q)
         /\ \A q : <<t, Len(stack[t]) + 1>> \notin Proc!Frames(q)
  <1> DEFINE n == Len(stack[t]) + 1
  <1>1. stack \in [Thread -> Seq(Targets)]
    BY DEF ProcInv, ProcType
  <1>2. stack[t] \in Seq(Targets) /\ stack'[t] = Append(stack[t], a) /\ n \in 1 .. MaxDepth
    BY <1>1
  <1>3. /\ stack' \in [Thread -> Seq(Targets)]
        /\ \A u \in Thread : u # t => stack'[u] = stack[u]
    BY <1>1, <1>2
  <1>4. /\ Len(stack'[t]) = n
        /\ \A i \in 1 .. n : stack'[t][i] = IF i = n THEN a ELSE stack[t][i]
    BY <1>2
  <1> DEFINE P == Thread \X (1 .. MaxDepth)
  <1>5. ASSUME NEW q, NEW f \in P
        PROVE  (f[2] <= Len(stack'[f[1]]) /\ stack'[f[1]][f[2]].pid = q)
                 <=> \/ f[2] <= Len(stack[f[1]]) /\ stack[f[1]][f[2]].pid = q
                     \/ f = <<t, n>> /\ q = a.pid
    <2>1. f[1] \in Thread /\ f[2] \in 1 .. MaxDepth /\ f = <<f[1], f[2]>>
          /\ stack[f[1]] \in Seq(Targets)
      BY <1>1
    <2>2. CASE f[1] # t
      BY <1>3, <2>1, <2>2
    <2>3. CASE f[1] = t
      <3>1. CASE f[2] = n
        BY <1>4, <2>1, <2>3, <3>1
      <3>2. CASE f[2] < n
        BY <1>2, <1>4, <2>1, <2>3, <3>2
      <3>3. CASE f[2] > n
        BY <1>2, <1>4, <2>1, <2>3, <3>3
      <3> QED BY <1>2, <2>1, <3>1, <3>2, <3>3
    <2> QED BY <2>2, <2>3
  <1>6. <<t, n>> \in P
    BY <1>2
  <1>7. \A q : Proc!Frames(q)' = IF q = a.pid THEN Proc!Frames(q) \cup {<<t, n>>} ELSE Proc!Frames(q)
    <2>1. \A q : Proc!Frames(q) = {f \in P : f[2] <= Len(stack[f[1]]) /\ stack[f[1]][f[2]].pid = q}
      BY DEF Proc!Frames
    <2>2. \A q : Proc!Frames(q)' = {f \in P : f[2] <= Len(stack'[f[1]]) /\ stack'[f[1]][f[2]].pid = q}
      BY DEF Proc!Frames
    <2> HIDE DEF P, n
    <2> QED BY <1>5, <1>6, <2>1, <2>2
  <1>8. \A q : <<t, n>> \notin Proc!Frames(q)
    BY <1>2 DEF Proc!Frames
  <1> QED BY <1>3, <1>4, <1>7, <1>8

LEMMA PopFrame ==
  ASSUME ProcInv, NEW t \in Thread, stack[t] # <<>>,
         stack' = [stack EXCEPT ![t] = SubSeq(@, 1, Len(@) - 1)]
  PROVE  /\ stack' \in [Thread -> Seq(Targets)]
         /\ \A u \in Thread : Len(stack'[u]) <= Len(stack[u])
         /\ \A u \in Thread : \A i \in 1 .. Len(stack'[u]) :
               i \in 1 .. Len(stack[u]) /\ stack'[u][i] = stack[u][i]
         /\ \A q : Proc!Frames(q)' = IF q = Proc!Self(t)
                                     THEN Proc!Frames(q) \ {<<t, Len(stack[t])>>}
                                     ELSE Proc!Frames(q)
         /\ <<t, Len(stack[t])>> \in Proc!Frames(Proc!Self(t))
  <1> DEFINE n == Len(stack[t])
  <1>1. stack \in [Thread -> Seq(Targets)] /\ Len(stack[t]) <= MaxDepth
    BY DEF ProcInv, ProcType, DepthInv
  <1>2. stack[t] \in Seq(Targets) /\ stack'[t] = SubSeq(stack[t], 1, n - 1) /\ n \in 1 .. MaxDepth
    BY <1>1
  <1>3. /\ stack'[t] \in Seq(Targets) /\ Len(stack'[t]) = n - 1
        /\ \A i \in 1 .. n - 1 : stack'[t][i] = stack[t][i]
    BY <1>2
  <1>4. /\ stack' \in [Thread -> Seq(Targets)]
        /\ \A u \in Thread : u # t => stack'[u] = stack[u]
    BY <1>1, <1>3
  <1>5. stack[t][n].pid = Proc!Self(t)
    BY DEF Proc!Self
  <1> DEFINE P == Thread \X (1 .. MaxDepth)
  <1>6. ASSUME NEW q, NEW f \in P
        PROVE  (f[2] <= Len(stack'[f[1]]) /\ stack'[f[1]][f[2]].pid = q)
                 <=> f[2] <= Len(stack[f[1]]) /\ stack[f[1]][f[2]].pid = q /\ f # <<t, n>>
    <2>1. f[1] \in Thread /\ f[2] \in 1 .. MaxDepth /\ f = <<f[1], f[2]>>
          /\ stack[f[1]] \in Seq(Targets)
      BY <1>1
    <2>2. CASE f[1] # t
      BY <1>4, <2>1, <2>2
    <2>3. CASE f[1] = t
      <3>1. CASE f[2] = n
        BY <1>2, <1>3, <2>1, <2>3, <3>1
      <3>2. CASE f[2] < n
        BY <1>2, <1>3, <2>1, <2>3, <3>2
      <3>3. CASE f[2] > n
        BY <1>2, <1>3, <2>1, <2>3, <3>3
      <3> QED BY <1>2, <2>1, <3>1, <3>2, <3>3
    <2> QED BY <2>2, <2>3
  <1>7. <<t, n>> \in P
    BY <1>2
  <1>8. \A q : q # Proc!Self(t) => <<t, n>> \notin Proc!Frames(q)
    BY <1>5 DEF Proc!Frames
  <1>9. <<t, n>> \in Proc!Frames(Proc!Self(t))
    BY <1>2, <1>5, <1>7 DEF Proc!Frames
  <1>10. \A q : Proc!Frames(q)' = Proc!Frames(q) \ {<<t, n>>}
    <2>1. \A q : Proc!Frames(q) = {f \in P : f[2] <= Len(stack[f[1]]) /\ stack[f[1]][f[2]].pid = q}
      BY DEF Proc!Frames
    <2>2. \A q : Proc!Frames(q)' = {f \in P : f[2] <= Len(stack'[f[1]]) /\ stack'[f[1]][f[2]].pid = q}
      BY DEF Proc!Frames
    <2> HIDE DEF P, n
    <2>3. ASSUME NEW q, NEW f PROVE f \in Proc!Frames(q)' <=> f \in Proc!Frames(q) /\ f # <<t, n>>
      BY <1>6, <2>1, <2>2
    <2> QED BY <2>3
  <1>11. \A u \in Thread : Len(stack'[u]) <= Len(stack[u]) /\ \A i \in 1 .. Len(stack'[u]) :
               i \in 1 .. Len(stack[u]) /\ stack'[u][i] = stack[u][i]
    <2> SUFFICES ASSUME NEW u \in Thread
                 PROVE  Len(stack'[u]) <= Len(stack[u]) /\ \A i \in 1 .. Len(stack'[u]) :
                           i \in 1 .. Len(stack[u]) /\ stack'[u][i] = stack[u][i]
      OBVIOUS
    <2>1. stack[u] \in Seq(Targets)
      BY <1>1
    <2> QED BY <1>2, <1>3, <1>4, <2>1
  <1>12. ASSUME NEW q
         PROVE  Proc!Frames(q)' = IF q = Proc!Self(t) THEN Proc!Frames(q) \ {<<t, n>>}
                                  ELSE Proc!Frames(q)
    <2> HIDE DEF n, P
    <2> QED BY <1>8, <1>10
  <1> QED BY <1>4, <1>9, <1>11, <1>12

(* A message reaches the process that was meant, and counts the thread in. *)
LEMMA CallStep ==
  ASSUME ProcInv, NEW t \in Thread, Proc!call_msgfunc1(t)
  PROVE  ProcInv'
  <1> DEFINE a == arg[t]
             n == Len(stack[t]) + 1
  <1>1. /\ procpc[t] = "call"
        /\ Proc!Becomes(t, "run", Proc!NoTarget)
        /\ UNCHANGED <<valid, gen, exitflag, msgdsc, msg_data_used, born>>
    BY DEF Proc!call_msgfunc1
  <1>2. /\ procpc' \in [Thread -> {"run", "open", "unregister", "call", "return"}]
        /\ arg' \in [Thread -> Targets]
        /\ \A u \in Thread : procpc'[u] = IF u = t THEN "run" ELSE procpc[u]
        /\ \A u \in Thread : Meant(arg'[u])
    BY <1>1, ProcFacts, BecomesDoes
  <1>3. CASE ~Proc!Reaches(a)
    <2>1. UNCHANGED <<stack, running>>
      BY <1>3 DEF Proc!call_msgfunc1
    <2> QED BY <1>1, <1>2, <2>1, ProcFacts, QuietStep
  <1>4. CASE Proc!Reaches(a)
    <2>1. /\ stack' = [stack EXCEPT ![t] = Append(@, a)]
          /\ running' = IF a.pid = 0 THEN running ELSE [running EXCEPT ![a.pid] = @ + 1]
      BY <1>4 DEF Proc!call_msgfunc1
    <2>2. a \in Targets /\ Meant(a) /\ Len(stack[t]) < MaxDepth
      BY <1>1, ProcFacts
    <2>3. Live(a) /\ a.pid \in Proc!Pid
      BY <1>4, <2>2 DEF Proc!Reaches, Meant, Live, Targets
    <2> HIDE DEF a
    <2>4. /\ stack' \in [Thread -> Seq(Targets)]
          /\ \A u \in Thread : u # t => stack'[u] = stack[u]
          /\ Len(stack'[t]) = n
          /\ \A i \in 1 .. n : stack'[t][i] = IF i = n THEN a ELSE stack[t][i]
          /\ \A q : Proc!Frames(q)' = IF q = a.pid THEN Proc!Frames(q) \cup {<<t, n>>}
                                      ELSE Proc!Frames(q)
          /\ \A q : <<t, n>> \notin Proc!Frames(q)
      BY <2>1, <2>2, PushFrame
    <2>5. n \in Nat \ {0} /\ n <= MaxDepth /\ n = Len(stack[t]) + 1
      <3>1. stack[t] \in Seq(Targets)
        BY DEF ProcInv, ProcType
      <3> QED BY <2>2, <3>1
    <2> HIDE DEF n
    <2>6. running \in [Proc!Pid -> Int]
      BY DEF ProcInv, ProcType
    <2>7. ProcType'
      <3>1. running' \in [Proc!Pid -> Int]
        BY <2>1, <2>3, <2>6
      <3> QED BY <1>1, <1>2, <2>4, <3>1 DEF ProcInv, ProcType
    <2>8. DepthInv'
      <3> SUFFICES ASSUME NEW u \in Thread
                   PROVE  /\ Len(stack'[u]) <= MaxDepth
                          /\ procpc'[u] = "call" => Len(stack'[u]) < MaxDepth
        BY DEF DepthInv
      <3>1. Len(stack[u]) <= MaxDepth /\ (procpc[u] = "call" => Len(stack[u]) < MaxDepth)
        BY DEF ProcInv, DepthInv
      <3> QED BY <1>2, <2>4, <2>5, <3>1
    <2>9. TargetInv'
      BY <1>1, <1>2 DEF ProcInv, TargetInv, Meant
    <2>10. ASSUME NEW q \in Proc!Pid \ {0}
           PROVE  running'[q] = Proc!Cardinality(Proc!Frames(q)')
      <3>1. running[q] = Cardinality(Proc!Frames(q))
        BY SameCard DEF ProcInv, Proc!InsideLiving
      <3>2. CASE q = a.pid
        <4>1. running'[q] = running[q] + 1
          BY <2>1, <2>6, <3>2
        <4>2. Cardinality(Proc!Frames(q) \cup {<<t, n>>}) = Cardinality(Proc!Frames(q)) + 1
          BY <2>4, FramesFinite, FS_AddElement
        <4> QED BY <2>4, <3>1, <3>2, <4>1, <4>2, SameCard
      <3>3. CASE q # a.pid
        <4>1. running'[q] = running[q]
          BY <2>1, <2>3, <2>6, <3>3
        <4> QED BY <2>4, <3>1, <3>3, <4>1, SameCard
      <3> QED BY <3>2, <3>3
    <2>11. ASSUME NEW u \in Thread, NEW i \in 1 .. Len(stack'[u])
           PROVE  Live(stack'[u][i])
      <3>1. CASE u = t /\ i = n
        BY <2>3, <2>4, <3>1
      <3>2. CASE ~(u = t /\ i = n)
        <4>1. i \in 1 .. Len(stack[u]) /\ stack'[u][i] = stack[u][i]
          BY <2>4, <2>5, <3>2
        <4> QED BY <4>1 DEF ProcInv, Proc!InsideLiving, Live
      <3> QED BY <3>1, <3>2
    <2>12. Proc!InsideLiving'
      <3>1. \A u \in Thread : \A i \in 1 .. Len(stack'[u]) :
               LET f == stack'[u][i]
               IN  valid'[f.pid] /\ gen'[f.pid] = f.gen /\ born'[f.pid] = f.incarnation
        BY <1>1, <2>11 DEF Live
      <3> QED BY <2>10, <3>1 DEF Proc!InsideLiving
    <2>13. Proc!NamesLive'
      BY <1>1 DEF ProcInv, Proc!NamesLive
    <2> QED BY <2>7, <2>8, <2>9, <2>12, <2>13 DEF ProcInv
  <1> QED BY <1>3, <1>4

(* The last one out cleans up: nobody else is inside, as all are counted.  *)
LEMMA ReturnStep ==
  ASSUME ProcInv, NEW t \in Thread, Proc!Return(t)
  PROVE  ProcInv'
  <1> DEFINE p == Proc!Self(t)
             n == Len(stack[t])
             none == [d \in Proc!Desc |-> Proc!NoMsgdsc]
             Ends == p # 0 /\ Proc!LastOut(p)
  <1>1. /\ stack[t] # <<>>
        /\ stack' = [stack EXCEPT ![t] = SubSeq(@, 1, Len(@) - 1)]
        /\ running' = IF p = 0 THEN running ELSE [running EXCEPT ![p] = @ - 1]
        /\ IF Ends
           THEN /\ gen' = [gen EXCEPT ![p] = @ + 1]
                /\ valid' = [valid EXCEPT ![p] = FALSE]
                /\ exitflag' = [exitflag EXCEPT ![p] = FALSE]
                /\ msgdsc' = [msgdsc EXCEPT ![p] = none]
                /\ msg_data_used' = Proc!Unregistered(p)
           ELSE UNCHANGED <<gen, valid, exitflag, msgdsc, msg_data_used>>
        /\ Proc!Becomes(t, "run", Proc!NoTarget)
        /\ UNCHANGED born
    BY DEF Proc!Return
  <1>2. p \in Proc!Pid /\ valid[p]
    BY SelfLives
  <1>3. Ends => p # 0 /\ running[p] = 1
    BY DEF Proc!LastOut
  <1>4. none \in [Proc!Desc -> Entries] /\ \A d \in Proc!Desc : none[d].to = Proc!NoTarget
    BY NoTargetIs DEF Proc!NoMsgdsc, Entries
  <1> HIDE DEF p, none, Ends
  <1>5. /\ procpc' \in [Thread -> {"run", "open", "unregister", "call", "return"}]
        /\ arg' \in [Thread -> Targets]
        /\ \A u \in Thread : procpc'[u] = IF u = t THEN "run" ELSE procpc[u]
        /\ \A u \in Thread : Meant(arg'[u])
    BY <1>1, ProcFacts, BecomesDoes
  <1>6. /\ valid \in [Proc!Pid -> BOOLEAN] /\ exitflag \in [Proc!Pid -> BOOLEAN]
        /\ gen \in [Proc!Pid -> Nat \ {0}] /\ running \in [Proc!Pid -> Int]
        /\ born \in [Proc!Pid -> 0 .. MaxNew] /\ valid[0]
    BY DEF ProcInv, ProcType
  <1>7. /\ \A q \in Proc!Pid : valid'[q] = (valid[q] /\ ~(Ends /\ q = p))
        /\ \A q \in Proc!Pid : gen'[q] = IF Ends /\ q = p THEN gen[p] + 1 ELSE gen[q]
        /\ \A q \in Proc!Pid \ {0} : running'[q] = IF q = p THEN running[q] - 1 ELSE running[q]
    <2>1. \A q \in Proc!Pid : valid'[q] = (valid[q] /\ ~(Ends /\ q = p))
      BY <1>1, <1>2, <1>6
    <2>2. \A q \in Proc!Pid : gen'[q] = IF Ends /\ q = p THEN gen[p] + 1 ELSE gen[q]
      BY <1>1, <1>2, <1>6
    <2>3. \A q \in Proc!Pid \ {0} : running'[q] = IF q = p THEN running[q] - 1 ELSE running[q]
      BY <1>1, <1>2, <1>6
    <2> QED BY <2>1, <2>2, <2>3
  <1>8. /\ valid' \in [Proc!Pid -> BOOLEAN] /\ exitflag' \in [Proc!Pid -> BOOLEAN]
        /\ gen' \in [Proc!Pid -> Nat \ {0}] /\ running' \in [Proc!Pid -> Int] /\ valid'[0]
    <2>1. valid' \in [Proc!Pid -> BOOLEAN] /\ exitflag' \in [Proc!Pid -> BOOLEAN]
      BY <1>1, <1>2, <1>6
    <2>2. gen' \in [Proc!Pid -> Nat \ {0}] /\ running' \in [Proc!Pid -> Int]
      BY <1>1, <1>2, <1>6
    <2>3. valid'[0]
      BY <1>3, <1>6, <1>7, NoTargetIs
    <2> QED BY <2>1, <2>2, <2>3
  <1>9. /\ msgdsc' \in Msgdscs
        /\ \A q \in Proc!Pid : msgdsc'[q] = IF Ends /\ q = p THEN none ELSE msgdsc[q]
    <2>1. CASE Ends
      <3>1. msgdsc' = [msgdsc EXCEPT ![p] = none]
        BY <1>1, <2>1
      <3>2. /\ msgdsc' \in Msgdscs
            /\ \A q \in Proc!Pid : msgdsc'[q] = IF q = p THEN none ELSE msgdsc[q]
        BY <1>2, <1>4, <3>1, SetAll
      <3> QED BY <2>1, <3>2
    <2>2. CASE ~Ends
      BY <1>1, <2>2, ProcFacts
    <2> QED BY <2>1, <2>2
  <1>10. /\ msg_data_used' \subseteq msg_data_used
         /\ Ends => \A m \in msg_data_used' : m.to.pid # p
    BY <1>1 DEF Proc!Unregistered
  <1>11. /\ stack' \in [Thread -> Seq(Targets)]
         /\ \A u \in Thread : Len(stack'[u]) <= Len(stack[u])
         /\ \A u \in Thread : \A i \in 1 .. Len(stack'[u]) :
               i \in 1 .. Len(stack[u]) /\ stack'[u][i] = stack[u][i]
         /\ \A q : Proc!Frames(q)' = IF q = p THEN Proc!Frames(q) \ {<<t, n>>}
                                     ELSE Proc!Frames(q)
         /\ <<t, n>> \in Proc!Frames(p)
    BY <1>1, PopFrame DEF p
  <1> HIDE DEF n
  <1>12. ProcType'
    <2>1. msg_data_used' \subseteq [name : Name, to : Targets]
      BY <1>10, ProcFacts
    <2>2. born' \in [Proc!Pid -> 0 .. MaxNew]
      BY <1>1, <1>6
    <2> QED BY <1>5, <1>8, <1>9, <1>11, <2>1, <2>2 DEF ProcType
  <1>13. DepthInv'
    <2> SUFFICES ASSUME NEW u \in Thread
                 PROVE  /\ Len(stack'[u]) <= MaxDepth
                        /\ procpc'[u] = "call" => Len(stack'[u]) < MaxDepth
      BY DEF DepthInv
    <2>1. Len(stack[u]) <= MaxDepth /\ (procpc[u] = "call" => Len(stack[u]) < MaxDepth)
      BY DEF ProcInv, DepthInv
    <2>2. Len(stack'[u]) <= Len(stack[u]) /\ Len(stack'[u]) \in Int /\ Len(stack[u]) \in Int
      BY <1>11 DEF ProcInv, ProcType
    <2> QED BY <1>5, <2>1, <2>2
  <1>14. \A y \in Targets : Meant(y) => /\ y.gen <= gen'[y.pid]
                                        /\ y.gen = gen'[y.pid] => y.incarnation = born'[y.pid]
    <2> SUFFICES ASSUME NEW y \in Targets, Meant(y)
                 PROVE  /\ y.gen <= gen'[y.pid]
                        /\ y.gen = gen'[y.pid] => y.incarnation = born'[y.pid]
      OBVIOUS
    <2>1. y.pid \in Proc!Pid /\ y.gen \in Nat /\ gen[y.pid] \in Nat
      BY <1>6 DEF Targets
    <2> QED BY <1>1, <1>7, <2>1 DEF Meant
  <1>15. TargetInv'
    <2>1. ASSUME NEW q \in Proc!Pid, NEW d \in Proc!Desc PROVE Meant(msgdsc[q][d].to)'
      <3>1. msgdsc[q][d].to \in Targets /\ Meant(msgdsc[q][d].to)
            /\ Proc!NoTarget \in Targets /\ Meant(Proc!NoTarget)
        BY ProcFacts
      <3>2. msgdsc'[q][d].to = msgdsc[q][d].to \/ msgdsc'[q][d].to = Proc!NoTarget
        BY <1>4, <1>9
      <3> QED BY <1>14, <3>1, <3>2 DEF Meant
    <2>2. ASSUME NEW u \in Thread PROVE Meant(arg[u])'
      BY <1>5, <1>14 DEF Meant
    <2> QED BY <2>1, <2>2 DEF TargetInv
  <1>16. ASSUME NEW q \in Proc!Pid \ {0}
         PROVE  /\ running'[q] = Cardinality(Proc!Frames(q)')
                /\ Ends /\ q = p => Proc!Frames(q)' = {}
    <2>1. running[q] = Cardinality(Proc!Frames(q)) /\ IsFiniteSet(Proc!Frames(q))
      BY SameCard, FramesFinite DEF ProcInv, Proc!InsideLiving
    <2>2. CASE q = p
      <3>1. /\ Cardinality(Proc!Frames(q) \ {<<t, n>>}) = Cardinality(Proc!Frames(q)) - 1
            /\ IsFiniteSet(Proc!Frames(q) \ {<<t, n>>})
        BY <1>11, <2>1, <2>2, FS_RemoveElement
      <3>2. Proc!Frames(q)' = Proc!Frames(q) \ {<<t, n>>}
        BY <1>11, <2>2
      <3>3. running'[q] = Cardinality(Proc!Frames(q)')
        BY <1>7, <2>1, <2>2, <3>1, <3>2
      <3>4. ASSUME Ends PROVE Proc!Frames(q)' = {}
        <4>1. Cardinality(Proc!Frames(q) \ {<<t, n>>}) = 0
          BY <1>3, <2>1, <2>2, <3>1, <3>4
        <4> QED BY <3>1, <3>2, <4>1, FS_EmptySet
      <3> QED BY <3>3, <3>4
    <2>3. CASE q # p
      BY <1>7, <1>11, <2>1, <2>3
    <2> QED BY <2>2, <2>3
  <1>17. ASSUME NEW u \in Thread, NEW i \in 1 .. Len(stack'[u])
         PROVE  /\ stack'[u][i] \in Targets /\ Live(stack'[u][i])
                /\ Ends => stack'[u][i].pid # p
    <2>1. i \in 1 .. Len(stack[u]) /\ stack'[u][i] = stack[u][i]
      BY <1>11
    <2>2. Live(stack'[u][i])
      BY <2>1 DEF ProcInv, Proc!InsideLiving, Live
    <2>3. stack'[u] \in Seq(Targets) /\ stack[u] \in Seq(Targets) /\ Len(stack[u]) <= MaxDepth
      BY <1>11 DEF ProcInv, ProcType, DepthInv
    <2>4. stack'[u][i] \in Targets
      BY <2>3
    <2>5. ASSUME Ends, stack'[u][i].pid = p PROVE FALSE
      <3>1. <<u, i>> \in Thread \X (1 .. MaxDepth)
        BY <2>1, <2>3
      <3>2. i <= Len(stack'[u])
        BY <2>3
      <3>3. \A q : q = p => <<u, i>> \in Proc!Frames(q)'
        BY <2>5, <3>1, <3>2 DEF Proc!Frames
      <3>4. p \in Proc!Pid \ {0}
        BY <1>2, <1>3, <2>5
      <3> QED BY <1>16, <2>5, <3>3, <3>4
    <2> QED BY <2>2, <2>4, <2>5
  <1>18. Proc!InsideLiving'
    <2>1. \A u \in Thread : \A i \in 1 .. Len(stack'[u]) :
             LET f == stack'[u][i]
             IN  valid'[f.pid] /\ gen'[f.pid] = f.gen /\ born'[f.pid] = f.incarnation
      <3> SUFFICES ASSUME NEW u \in Thread, NEW i \in 1 .. Len(stack'[u])
                   PROVE  /\ valid'[stack'[u][i].pid] /\ gen'[stack'[u][i].pid] = stack'[u][i].gen
                          /\ born'[stack'[u][i].pid] = stack'[u][i].incarnation
        OBVIOUS
      <3>1. /\ stack'[u][i] \in Targets /\ Live(stack'[u][i])
            /\ Ends => stack'[u][i].pid # p
        BY <1>17
      <3>2. stack'[u][i].pid \in Proc!Pid
        BY <3>1 DEF Targets
      <3> QED BY <1>1, <1>7, <3>1, <3>2 DEF Live
    <2>2. \A q \in Proc!Pid \ {0} : running'[q] = Proc!Cardinality(Proc!Frames(q)')
      BY <1>16, SameCard
    <2> QED BY <2>1, <2>2 DEF Proc!InsideLiving
  <1>19. Proc!NamesLive'
    <2>1. ASSUME NEW m \in msg_data_used'
          PROVE  valid'[m.to.pid] /\ gen'[m.to.pid] = m.to.gen /\ born'[m.to.pid] = m.to.incarnation
      <3>1. m.to \in Targets /\ Live(m.to)
        BY <1>10, ProcFacts
      <3>2. m.to.pid \in Proc!Pid /\ (Ends => m.to.pid # p)
        BY <1>10, <3>1 DEF Targets
      <3> QED BY <1>1, <1>7, <3>1, <3>2 DEF Live
    <2> QED BY <2>1 DEF Proc!NamesLive
  <1> QED BY <1>12, <1>13, <1>15, <1>18, <1>19 DEF ProcInv

LEMMA ProcStep == ProcInv /\ [Proc!Next]_procvars => ProcInv'
  <1> SUFFICES ASSUME ProcInv, [Proc!Next]_procvars PROVE ProcInv'
    OBVIOUS
  <1>1. CASE UNCHANGED procvars
    <2>1. \A p : Proc!Frames(p)' = Proc!Frames(p)
      BY <1>1 DEF Proc!Frames, procvars
    <2>2. ProcType' /\ DepthInv' /\ TargetInv' /\ Proc!NamesLive'
      BY <1>1 DEF procvars, ProcInv, ProcType, DepthInv, TargetInv, Meant, Proc!NamesLive
    <2>3. Proc!InsideLiving'
      BY <1>1, <2>1 DEF procvars, ProcInv, Proc!InsideLiving
    <2> QED BY <2>2, <2>3 DEF ProcInv
  <1>2. CASE Proc!Next
    BY <1>2, QuietSteps, NewStep, CallStep, ReturnStep DEF Proc!Next
  <1> QED BY <1>1, <1>2

-----------------------------------------------------------------------------
(***************************************************************************)
(* Timers.  That every timer is in the list its flag implies, and the      *)
(* order of the running ones, is inductive with the types of the fields.   *)
(***************************************************************************)
TimerInv == TypeOK /\ RightList /\ ExpiryOrder

(* ExpiryOrder, of any list of timers *)
Ordered(l) ==
    \A i, j \in 1 .. Len(l) : i < j => Expiry(l[i]) <= Expiry(l[j]) \/ l[j] \in behind

LEMMA TimerInit == Init => TimerInv
  <1> SUFFICES ASSUME Init PROVE TimerInv
    OBVIOUS
  <1> DEFINE l == list1_timer_free
             M == MAX_TIMER
  <1>0. M \in Nat \ {0} /\ MaxTime \in Nat /\ Handle = 1 .. M
    BY TimerAssumption DEF Handle
  <1>1. l = [i \in 1 .. M |-> M + 1 - i]
    BY <1>0 DEF Init
  <1> HIDE DEF l, M
  <1>2. l \in [1 .. M -> 1 .. M] /\ \A i \in 1 .. M : l[i] = M + 1 - i
    BY <1>0, <1>1
  <1>3. l \in Seq(1 .. M)
    BY <1>0, <1>2, SequenceOf
  <1>4. IsInjective(l)
    BY <1>0, <1>2 DEF IsInjective
  <1>5. Range(l) = 1 .. M
    <2>1. \A x \in 1 .. M : M + 1 - x \in 1 .. M /\ l[M + 1 - x] = x
      BY <1>0, <1>2
    <2> QED BY <1>2, <2>1 DEF Range
  <1>6. TypeOK
    <2>1. list1_timer_on \in Seq(Handle) /\ list1_timer_off \in Seq(Handle)
      BY DEF Init
    <2>2. \A k \in {list1_timer_on, list1_timer_off, list1_timer_free} : k \in Seq(Handle)
      BY <1>0, <1>3, <2>1 DEF l
    <2>3. /\ settime \in [Handle -> 0 .. MaxTime] /\ interval \in [Handle -> Interval \cup {0}]
          /\ enable \in [Handle -> BOOLEAN] /\ time \in [CPU -> 0 .. MaxTime]
      BY <1>0 DEF Init
    <2>4. /\ {locked, timer_thread_run} \subseteq BOOLEAN /\ held \subseteq Handle
          /\ calling \in Handle \cup {NULL} /\ behind \subseteq Handle
      BY DEF Init
    <2> QED BY <2>2, <2>3, <2>4 DEF TypeOK
  <1>7. RightList
    <2>1. Range(<<>>) = {} /\ IsInjective(<<>>)
      BY DEF Range, IsInjective
    <2>2. list1_timer_on = <<>> /\ list1_timer_off = <<>> /\ held = {}
      BY DEF Init
    <2> QED BY <1>0, <1>4, <1>5, <2>1, <2>2 DEF RightList, l
  <1>8. ExpiryOrder
    BY DEF Init, ExpiryOrder
  <1> QED BY <1>6, <1>7, <1>8 DEF TimerInv

(* The facts about one list, by name *)
LEMMA TimerFacts ==
  ASSUME TimerInv
  PROVE  /\ list1_timer_on \in Seq(Handle) /\ IsInjective(list1_timer_on)
         /\ list1_timer_off \in Seq(Handle) /\ IsInjective(list1_timer_off)
         /\ list1_timer_free \in Seq(Handle) /\ IsInjective(list1_timer_free)
         /\ Range(list1_timer_on) = {p \in held : enable[p]}
         /\ Range(list1_timer_off) = {p \in held : ~enable[p]}
         /\ Range(list1_timer_free) = Handle \ held
         /\ held \subseteq Handle
         /\ time \in [CPU -> 0 .. MaxTime] /\ MaxTime \in Nat
         /\ enable \in [Handle -> BOOLEAN]
         /\ settime \in [Handle -> 0 .. MaxTime]
         /\ interval \in [Handle -> Interval \cup {0}]
         /\ \A p \in Handle : Expiry(p) \in Int /\ settime[p] \in Int /\ interval[p] \in Int
         /\ \A l : \A i \in DOMAIN l : l[i] \in Range(l)
  <1>1. /\ settime \in [Handle -> 0 .. MaxTime] /\ interval \in [Handle -> Interval \cup {0}]
        /\ enable \in [Handle -> BOOLEAN] /\ time \in [CPU -> 0 .. MaxTime] /\ held \subseteq Handle
        /\ \A l \in {list1_timer_on, list1_timer_off, list1_timer_free} : l \in Seq(Handle)
    BY DEF TimerInv, TypeOK
  <1>2. Interval \subseteq Nat /\ MaxTime \in Nat
    BY TimerAssumption
  <1>3. \A p \in Handle : settime[p] \in Int /\ interval[p] \in Int
    <2> SUFFICES ASSUME NEW p \in Handle PROVE settime[p] \in Int /\ interval[p] \in Int
      OBVIOUS
    <2>1. settime[p] \in 0 .. MaxTime /\ interval[p] \in Interval \cup {0}
      BY <1>1
    <2>2. settime[p] \in Int
      BY <2>1
    <2>3. interval[p] \in Interval \/ interval[p] = 0
      BY <2>1
    <2>4. interval[p] \in Int
      <3>1. \A x \in Interval : x \in Int
        BY <1>2
      <3>2. CASE interval[p] \in Interval
        BY <3>1, <3>2
      <3>3. CASE interval[p] = 0
        BY <3>3
      <3> QED BY <2>3, <3>2, <3>3
    <2> QED BY <2>2, <2>4
  <1>4. \A p \in Handle : Expiry(p) \in Int
    BY <1>3 DEF Expiry
  <1>5. \A l \in {list1_timer_on, list1_timer_off, list1_timer_free} : IsInjective(l)
    BY DEF TimerInv, RightList
  <1>6. /\ Range(list1_timer_on) = {p \in held : enable[p]}
        /\ Range(list1_timer_off) = {p \in held : ~enable[p]}
        /\ Range(list1_timer_free) = Handle \ held
    BY DEF TimerInv, RightList
  <1>7. \A l : \A i \in DOMAIN l : l[i] \in Range(l)
    BY DEF Range
  <1> QED BY <1>1, <1>2, <1>3, <1>4, <1>5, <1>6, <1>7

LEMMA TimerLists ==
  ASSUME TimerInv
  PROVE  /\ list1_timer_on \in Seq(Handle) /\ IsInjective(list1_timer_on)
         /\ list1_timer_off \in Seq(Handle) /\ IsInjective(list1_timer_off)
         /\ list1_timer_free \in Seq(Handle) /\ IsInjective(list1_timer_free)
         /\ Range(list1_timer_on) = {p \in held : enable[p]}
         /\ Range(list1_timer_off) = {p \in held : ~enable[p]}
         /\ Range(list1_timer_free) = Handle \ held
         /\ held \subseteq Handle
  BY TimerFacts

LEMMA TimerFields ==
  ASSUME TimerInv
  PROVE  /\ time \in [CPU -> 0 .. MaxTime] /\ MaxTime \in Nat
         /\ enable \in [Handle -> BOOLEAN]
         /\ settime \in [Handle -> 0 .. MaxTime]
         /\ interval \in [Handle -> Interval \cup {0}]
         /\ \A p \in Handle : Expiry(p) \in Int /\ settime[p] \in Int /\ interval[p] \in Int
  BY TimerFacts

(* What timer_set and timer_free leave of the list of running timers *)
LEMMA WithoutProperties ==
  ASSUME TimerInv, NEW p \in held
  PROVE  /\ Without(list1_timer_on, p) \in Seq(Handle)
         /\ IsInjective(Without(list1_timer_on, p))
         /\ Range(Without(list1_timer_on, p)) = {q \in held : enable[q]} \ {p}
         /\ Ordered(Without(list1_timer_on, p))
  <1> DEFINE l == list1_timer_on
             m == LIST1_DEL(list1_timer_on, p)
  <1>1. CASE ~enable[p]
    <2>1. Without(list1_timer_on, p) = list1_timer_on
      BY <1>1 DEF Without
    <2> QED BY <1>1, <2>1, TimerFacts DEF TimerInv, ExpiryOrder, Ordered
  <1>2. CASE enable[p]
    <2>1. Without(list1_timer_on, p) = m /\ p \in Range(l)
      BY <1>2, TimerFacts DEF Without
    <2>2. /\ m \in Seq(Handle) /\ IsInjective(m) /\ Range(m) = Range(l) \ {p}
          /\ \E k \in 1 .. Len(l) : m = DeleteAt(l, k)
      BY <2>1, TimerLists, DelProperties
    <2> HIDE DEF m
    <2>3. PICK k \in 1 .. Len(l) : m = DeleteAt(l, k)
      BY <2>2
    <2>4. /\ l \in Seq(Handle) /\ Len(l) \in Nat
          /\ Len(m) = Len(l) - 1
      <3>1. l \in Seq(Handle) /\ IsInjective(l)
        BY TimerFacts
      <3> HIDE DEF l
      <3> QED BY <2>3, <3>1, DeleteAtProperties
    <2>5. \A j \in 1 .. Len(m) : m[j] = IF j < k THEN l[j] ELSE l[j + 1]
      BY <2>3, <2>4 DEF DeleteAt
    <2>6. ASSUME NEW i \in 1 .. Len(m), NEW j \in 1 .. Len(m), i < j
          PROVE  Expiry(m[i]) <= Expiry(m[j]) \/ m[j] \in behind
      <3> DEFINE a == IF i < k THEN i ELSE i + 1
                 c == IF j < k THEN j ELSE j + 1
      <3>1. a \in 1 .. Len(l) /\ c \in 1 .. Len(l) /\ a < c
        BY <2>4, <2>6
      <3>2. m[i] = l[a] /\ m[j] = l[c]
        BY <2>5
      <3> HIDE DEF a, c
      <3>3. Expiry(l[a]) <= Expiry(l[c]) \/ l[c] \in behind
        BY <3>1 DEF TimerInv, ExpiryOrder
      <3> QED BY <3>2, <3>3
    <2>7. Ordered(m)
      BY <2>6 DEF Ordered
    <2> QED BY <2>1, <2>2, <2>7, TimerFacts
  <1> QED BY <1>1, <1>2

(* The unsigned difference is the time since d was set, or more than any   *)
(* interval if the clock lies behind settime.                              *)
LEMMA ElapsedIs ==
  ASSUME TimerInv, NEW d \in Handle, NEW now \in 0 .. MaxTime, NEW u \in Interval
  PROVE  /\ settime[d] <= now => Elapsed(d, now) = now - settime[d]
         /\ settime[d] > now => Elapsed(d, now) > interval[d]
  <1> DEFINE c == settime[d]
             i == interval[d]
  <1>1. /\ c \in 0 .. MaxTime /\ i \in Interval \cup {0} /\ MaxTime \in Nat
    BY TimerFields
  <1>2. i \in Nat /\ U64 \in Nat /\ MaxTime + i < U64 /\ MaxTime < U64
    <2>1. U64 \in Nat /\ u \in Nat /\ MaxTime + u < U64
      BY TimerAssumption
    <2>2. i \in Interval => i \in Nat /\ MaxTime + i < U64
      BY TimerAssumption
    <2> HIDE DEF i
    <2> QED BY <1>1, <2>1, <2>2
  <1> HIDE DEF c, i
  <1>3. CASE c <= now
    <2>1. now - c \in 0 .. U64 - 1 /\ U64 \in Nat \ {0}
      BY <1>1, <1>2, <1>3
    <2>2. (now - c) % U64 = now - c
      BY <2>1, SmallRemainder
    <2> QED BY <1>1, <1>3, <2>2 DEF Elapsed, c
  <1>4. CASE c > now
    <2> DEFINE m == now - c + U64
    <2>1. m \in 0 .. U64 - 1 /\ U64 \in Nat \ {0} /\ m > i /\ now - c = U64 * (-1) + m
      BY <1>1, <1>2, <1>4
    <2> HIDE DEF m
    <2>2. (U64 * (-1) + m) % U64 = m
      BY <2>1, Remainder
    <2>3. Elapsed(d, now) = m
      BY <2>1, <2>2 DEF Elapsed, c
    <2> QED BY <1>1, <1>4, <2>1, <2>3 DEF c, i
  <1> QED BY <1>1, <1>3, <1>4

(* Where a timer is inserted: behind timers that expire earlier or were    *)
(* set at a later time, before timers that expire later or are out of      *)
(* place themselves.                                                       *)
LEMMA InsertInOrder ==
  ASSUME TimerInv, NEW l \in Seq(Handle), NEW now \in 0 .. MaxTime, NEW u \in Interval,
         Ordered(l)
  PROVE  /\ InsertPosition(l, now, u) \in 1 .. Len(l) + 1
         /\ \A j \in 1 .. Len(l) : j < InsertPosition(l, now, u) =>
                Expiry(l[j]) <= now + u \/ settime[l[j]] > now
         /\ \A j \in 1 .. Len(l) : j >= InsertPosition(l, now, u) =>
                Expiry(l[j]) >= now + u \/ l[j] \in behind
  <1> DEFINE Stops == {i \in 1 .. Len(l) : Later(l[i], now, u)}
             k == InsertPosition(l, now, u)
  <1>1. Len(l) \in Nat /\ \A j \in 1 .. Len(l) : l[j] \in Handle
    OBVIOUS
  <1>3. now + u \in Int /\ now \in Int /\ u \in Int /\ u >= 0
    BY TimerFields, TimerAssumption
  <1>2. \A j \in 1 .. Len(l) :
            /\ Later(l[j], now, u) <=> (settime[l[j]] <= now /\ Expiry(l[j]) > now + u)
            /\ Expiry(l[j]) \in Int /\ settime[l[j]] \in Int
    <2> SUFFICES ASSUME NEW j \in 1 .. Len(l)
                 PROVE  /\ Later(l[j], now, u) <=> (settime[l[j]] <= now /\ Expiry(l[j]) > now + u)
                        /\ Expiry(l[j]) \in Int /\ settime[l[j]] \in Int
      OBVIOUS
    <2> DEFINE d == l[j]
    <2>1. d \in Handle /\ settime[d] \in Int /\ interval[d] \in Int
      BY <1>1, TimerFields
    <2> HIDE DEF d
    <2>2. /\ settime[d] <= now => Elapsed(d, now) = now - settime[d]
          /\ settime[d] > now => Elapsed(d, now) > interval[d]
      BY <2>1, ElapsedIs
    <2>3. CASE settime[d] <= now
      <3>2. \A c, i, n \in Int, v \in Nat : (i > n - c /\ i - (n - c) > v) <=> c + i > n + v
        OBVIOUS
      <3>0. \A c, i \in Int : (i > now - c /\ i - (now - c) > u) <=> c + i > now + u
        BY <1>3, <3>2
      <3>1. Later(d, now, u) <=> settime[d] + interval[d] > now + u
        BY <2>1, <2>2, <2>3, <3>0, Zenon DEF Later
      <3> QED BY <2>1, <2>3, <3>1 DEF Expiry, d
    <2>4. CASE settime[d] > now
      <3>1. Elapsed(d, now) \in Int
        <4>1. U64 \in Nat \ {0}
          BY <1>3, TimerFields, TimerAssumption
        <4> QED BY <1>3, <2>1, <4>1 DEF Elapsed
      <3>2. ~Later(d, now, u)
        BY <2>1, <2>2, <2>4, <3>1 DEF Later
      <3> QED BY <1>3, <2>1, <2>4, <3>2 DEF Expiry, d
    <2> QED BY <1>3, <2>1, <2>3, <2>4
  <1>4. CASE Stops = {}
    <2>1. k = Len(l) + 1
      BY <1>4 DEF InsertPosition
    <2>2. \A j \in 1 .. Len(l) : Expiry(l[j]) <= now + u \/ settime[l[j]] > now
      <3> SUFFICES ASSUME NEW j \in 1 .. Len(l)
                   PROVE  Expiry(l[j]) <= now + u \/ settime[l[j]] > now
        OBVIOUS
      <3>1. ~Later(l[j], now, u)
        BY <1>4
      <3>2. ~(settime[l[j]] <= now /\ Expiry(l[j]) > now + u)
        BY <1>2, <3>1
      <3>3. Expiry(l[j]) \in Int /\ settime[l[j]] \in Int
        BY <1>2
      <3> DEFINE e == Expiry(l[j])
                 c == settime[l[j]]
      <3> HIDE DEF e, c
      <3>4. ~(c <= now /\ e > now + u) /\ e \in Int /\ c \in Int
        BY <3>2, <3>3 DEF e, c
      <3>5. e <= now + u \/ c > now
        BY <1>3, <3>4
      <3> QED BY <3>5 DEF e, c
    <2> QED BY <1>1, <2>1, <2>2
  <1>5. CASE Stops # {}
    <2>1. Stops \subseteq Nat
      OBVIOUS
    <2>2. k = CHOOSE i \in Stops : \A j \in Stops : i <= j
      BY <1>5 DEF InsertPosition
    <2>3. k \in Stops /\ \A j \in Stops : k <= j
      <3> HIDE DEF Stops, k
      <3>1. \E i \in Stops : \A j \in Stops : i <= j
        BY <1>5, <2>1, HasLeast
      <3> QED BY <2>2, <3>1
    <2>4. k \in 1 .. Len(l) /\ Expiry(l[k]) > now + u
      BY <1>2, <2>3
    <2>5. ASSUME NEW j \in 1 .. Len(l), j < k
          PROVE  Expiry(l[j]) <= now + u \/ settime[l[j]] > now
      <3>1. j \notin Stops
        <4> HIDE DEF Stops, k
        <4> QED BY <1>1, <2>3, <2>4, <2>5
      <3> QED BY <1>2, <1>3, <3>1
    <2> HIDE DEF k, Stops
    <2>6. ASSUME NEW j \in 1 .. Len(l), j >= k
          PROVE  Expiry(l[j]) >= now + u \/ l[j] \in behind
      <3>1. j = k \/ Expiry(l[k]) <= Expiry(l[j]) \/ l[j] \in behind
        BY <2>4, <2>6 DEF Ordered
      <3> QED BY <1>2, <1>3, <2>4, <3>1
    <2>7. k \in 1 .. Len(l) + 1
      BY <1>1, <2>4
    <2> QED BY <2>5, <2>6, <2>7 DEF k
  <1> QED BY <1>4, <1>5

LEMMA OffProperties ==
  ASSUME TimerInv, NEW p \in held, NEW m,
         m = IF enable[p] THEN list1_timer_off ELSE LIST1_DEL(list1_timer_off, p)
  PROVE  /\ m \in Seq(Handle) /\ IsInjective(m)
         /\ Range(m) = {q \in held : ~enable[q]} \ {p}
  <1>1. CASE enable[p]
    BY <1>1, TimerFacts
  <1>2. CASE ~enable[p]
    <2>1. p \in Range(list1_timer_off) /\ m = LIST1_DEL(list1_timer_off, p)
      BY <1>2, TimerFacts
    <2>2. /\ LIST1_DEL(list1_timer_off, p) \in Seq(Handle)
          /\ IsInjective(LIST1_DEL(list1_timer_off, p))
          /\ Range(LIST1_DEL(list1_timer_off, p)) = Range(list1_timer_off) \ {p}
      BY <2>1, TimerFacts, DelProperties
    <2> QED BY <2>1, <2>2, TimerFacts
  <1> QED BY <1>1, <1>2

(* What a step has to show of the three lists and the fields *)
LEMMA TimerMade ==
  ASSUME time' \in [CPU -> 0 .. MaxTime], behind' \subseteq Handle,
         {locked', timer_thread_run'} \subseteq BOOLEAN,
         list1_timer_on' \in Seq(Handle), IsInjective(list1_timer_on'),
         list1_timer_off' \in Seq(Handle), IsInjective(list1_timer_off'),
         list1_timer_free' \in Seq(Handle), IsInjective(list1_timer_free'),
         Range(list1_timer_on') = {p \in held' : enable'[p]},
         Range(list1_timer_off') = {p \in held' : ~enable'[p]},
         Range(list1_timer_free') = Handle \ held',
         held' \subseteq Handle, calling' \in Handle \cup {NULL},
         enable' \in [Handle -> BOOLEAN], settime' \in [Handle -> 0 .. MaxTime],
         interval' \in [Handle -> Interval \cup {0}], ExpiryOrder'
  PROVE  TimerInv'
  <1>1. /\ \A l \in {list1_timer_on', list1_timer_off', list1_timer_free'} : l \in Seq(Handle)
        /\ \A l \in {list1_timer_on', list1_timer_off', list1_timer_free'} : IsInjective(l)
    OBVIOUS
  <1>2. TypeOK'
    BY <1>1 DEF TypeOK
  <1>3. RightList'
    <2>1. \A l \in {list1_timer_on', list1_timer_off', list1_timer_free'} : IsInjective(l)'
      BY <1>1 DEF IsInjective
    <2> QED BY <1>1, <2>1 DEF RightList, Range
  <1> QED BY <1>2, <1>3 DEF TimerInv

LEMMA TimerTypes ==
  ASSUME TimerInv
  PROVE  /\ time \in [CPU -> 0 .. MaxTime] /\ {locked, timer_thread_run} \subseteq BOOLEAN
         /\ calling \in Handle \cup {NULL} /\ behind \subseteq Handle
  BY DEF TimerInv, TypeOK

(* The running timers stay in order when neither they nor their times      *)
(* change.                                                                 *)
LEMMA SameOrder ==
  ASSUME TimerInv, UNCHANGED <<list1_timer_on, settime, interval, behind>>
  PROVE  ExpiryOrder'
  BY DEF TimerInv, ExpiryOrder, Expiry

(* ... nor when one that has left the list is cleared. *)
LEMMA OrderWithout ==
  ASSUME TimerInv, NEW p \in Handle, NEW n \in Seq(Handle), Ordered(n), p \notin Range(n),
         list1_timer_on' = n, Clear(p), behind' = behind \ {p}
  PROVE  ExpiryOrder'
  <1>1. \A q \in Handle : q # p => Expiry(q)' = Expiry(q) /\ (q \in behind' <=> q \in behind)
    BY TimerFields DEF Expiry, Clear
  <1>2. n \in [1 .. Len(n) -> Handle]
    BY FunctionOf
  <1>3. \A j \in 1 .. Len(n) : n[j] \in Handle /\ n[j] # p
    BY <1>2 DEF Range
  <1> SUFFICES ASSUME NEW i \in 1 .. Len(n), NEW j \in 1 .. Len(n), i < j
               PROVE  Expiry(n[i])' <= Expiry(n[j])' \/ n[j] \in behind'
    BY DEF ExpiryOrder
  <1>4. Expiry(n[i]) <= Expiry(n[j]) \/ n[j] \in behind
    BY DEF Ordered
  <1>5. Expiry(n[i])' = Expiry(n[i]) /\ Expiry(n[j])' = Expiry(n[j])
    BY <1>1, <1>3 DEF Expiry
  <1> QED BY <1>1, <1>3, <1>4, <1>5

(* The cleared fields have their types. *)
LEMMA ClearTypes ==
  ASSUME TimerInv, NEW p \in Handle, Clear(p)
  PROVE  settime' \in [Handle -> 0 .. MaxTime] /\ interval' \in [Handle -> Interval \cup {0}]
  BY TimerFields DEF Clear

LEMMA TimerNewStep ==
  ASSUME TimerInv, timer_new
  PROVE  TimerInv'
  <1> DEFINE p == Head(list1_timer_free)
             f == LIST1_POP(list1_timer_free)
             o == LIST1_ADD(list1_timer_off, p)
  <1> USE TimerLists
  <1>1. /\ list1_timer_free # <<>> /\ list1_timer_free' = f /\ list1_timer_off' = o
        /\ enable' = [enable EXCEPT ![p] = FALSE] /\ held' = held \cup {p}
        /\ UNCHANGED <<time, locked, list1_timer_on, settime, interval, timer_thread_run, calling,
                       behind>>
    BY DEF timer_new
  <1>2. /\ f \in Seq(Handle) /\ IsInjective(f)
        /\ p \in Handle /\ p \notin held /\ Range(f) = (Handle \ held) \ {p}
    <2>1. /\ f \in Seq(Handle) /\ IsInjective(f) /\ p \in Handle
          /\ p \in Range(list1_timer_free) /\ Range(f) = Range(list1_timer_free) \ {p}
      BY <1>1, PopProperties
    <2> HIDE DEF f, p
    <2> QED BY <2>1
  <1> HIDE DEF p, f
  <1>3. /\ o \in Seq(Handle) /\ IsInjective(o) /\ Range(o) = {q \in held : ~enable[q]} \cup {p}
    <2>1. p \notin Range(list1_timer_off)
      BY <1>2
    <2>2. /\ o \in Seq(Handle) /\ IsInjective(o) /\ Range(o) = Range(list1_timer_off) \cup {p}
      BY <1>2, <2>1, AddProperties
    <2> QED BY <2>2
  <1> HIDE DEF o
  <1>4. enable' \in [Handle -> BOOLEAN] /\ \A q \in Handle : enable'[q] <=> (enable[q] /\ q # p)
    BY <1>1, <1>2, TimerFields
  <1>5. /\ held' \subseteq Handle /\ Range(f) = Handle \ held'
        /\ Range(list1_timer_on) = {q \in held' : enable'[q]}
        /\ Range(o) = {q \in held' : ~enable'[q]}
    <2>1. held' \subseteq Handle /\ Range(f) = Handle \ held'
      BY <1>1, <1>2
    <2>2. Range(list1_timer_on) = {q \in held' : enable'[q]}
      BY <1>1, <1>2, <1>4
    <2>3. Range(o) = {q \in held' : ~enable'[q]}
      BY <1>1, <1>2, <1>3, <1>4
    <2> QED BY <2>1, <2>2, <2>3
  <1> QED BY <1>1, <1>2, <1>3, <1>4, <1>5, TimerTypes, TimerFields, SameOrder, TimerMade

LEMMA TimerFreeStep ==
  ASSUME TimerInv, NEW p \in Handle, timer_free(p)
  PROVE  TimerInv'
  <1> DEFINE n == Without(list1_timer_on, p)
             f == LIST1_ADD(list1_timer_free, p)
  <1> USE TimerLists
  <1>1. /\ p \in held /\ list1_timer_on' = n /\ list1_timer_free' = f
        /\ list1_timer_off' = IF enable[p] THEN list1_timer_off ELSE LIST1_DEL(list1_timer_off, p)
        /\ enable' = [enable EXCEPT ![p] = FALSE] /\ held' = held \ {p}
        /\ Clear(p) /\ behind' = behind \ {p}
        /\ UNCHANGED <<time, locked, timer_thread_run, calling>>
    BY DEF timer_free
  <1>2. /\ n \in Seq(Handle) /\ IsInjective(n) /\ Range(n) = {q \in held : enable[q]} \ {p}
        /\ Ordered(n)
    BY <1>1, WithoutProperties
  <1>3. /\ list1_timer_off' \in Seq(Handle) /\ IsInjective(list1_timer_off')
        /\ Range(list1_timer_off') = {q \in held : ~enable[q]} \ {p}
    BY <1>1, OffProperties
  <1>4. /\ f \in Seq(Handle) /\ IsInjective(f) /\ Range(f) = (Handle \ held) \cup {p}
    <2>1. p \notin Range(list1_timer_free)
      BY <1>1
    <2>2. /\ f \in Seq(Handle) /\ IsInjective(f) /\ Range(f) = Range(list1_timer_free) \cup {p}
      BY <2>1, AddProperties
    <2> QED BY <2>2
  <1> HIDE DEF n, f
  <1>5. enable' \in [Handle -> BOOLEAN] /\ \A q \in Handle : enable'[q] <=> (enable[q] /\ q # p)
    BY <1>1, TimerFields
  <1>6. /\ held' \subseteq Handle /\ Range(f) = Handle \ held'
        /\ Range(n) = {q \in held' : enable'[q]}
        /\ Range(list1_timer_off') = {q \in held' : ~enable'[q]}
    <2>1. held' \subseteq Handle /\ Range(f) = Handle \ held'
      BY <1>1, <1>4
    <2>2. Range(n) = {q \in held' : enable'[q]}
      BY <1>1, <1>2, <1>5
    <2>3. Range(list1_timer_off') = {q \in held' : ~enable'[q]}
      BY <1>1, <1>3, <1>5
    <2> QED BY <2>1, <2>2, <2>3
  <1>7. ExpiryOrder'
    BY <1>1, <1>2, OrderWithout
  <1> QED
    BY <1>1, <1>2, <1>3, <1>4, <1>5, <1>6, <1>7, TimerTypes, TimerFields, ClearTypes, TimerMade

(* A timer goes where its time comes among those that run. *)
LEMMA TimerSetStep ==
  ASSUME TimerInv, NEW c \in CPU, NEW p \in Handle, NEW u \in Interval, timer_set(c, p, u)
  PROVE  TimerInv'
  <1> DEFINE n == Without(list1_timer_on, p)
             now == time[c]
             k == InsertPosition(n, now, u)
             m == LIST1_INSERT(n, k, p)
  <1> USE TimerLists
  <1>0. u \in Nat /\ now \in 0 .. MaxTime /\ MaxTime \in Nat
    BY TimerAssumption, TimerFields
  <1>1. /\ p \in held /\ list1_timer_on' = m
        /\ list1_timer_off' = IF enable[p] THEN list1_timer_off ELSE LIST1_DEL(list1_timer_off, p)
        /\ enable' = [enable EXCEPT ![p] = TRUE]
        /\ settime' = [settime EXCEPT ![p] = now] /\ interval' = [interval EXCEPT ![p] = u]
        /\ behind' = IF \E d \in Range(n) : settime[d] > now THEN behind \cup {p} ELSE behind \ {p}
        /\ timer_thread_run' = TRUE
        /\ UNCHANGED <<time, locked, list1_timer_free, held, calling>>
    BY DEF timer_set
  <1>2. /\ n \in Seq(Handle) /\ IsInjective(n) /\ Range(n) = {q \in held : enable[q]} \ {p}
        /\ Ordered(n)
    BY <1>1, WithoutProperties
  <1>3. /\ list1_timer_off' \in Seq(Handle) /\ IsInjective(list1_timer_off')
        /\ Range(list1_timer_off') = {q \in held : ~enable[q]} \ {p}
    BY <1>1, OffProperties
  <1> HIDE DEF n, now
  <1>4. /\ k \in 1 .. Len(n) + 1
        /\ \A j \in 1 .. Len(n) : j < k => Expiry(n[j]) <= now + u \/ settime[n[j]] > now
        /\ \A j \in 1 .. Len(n) : j >= k => Expiry(n[j]) >= now + u \/ n[j] \in behind
    BY <1>0, <1>2, InsertInOrder
  <1> HIDE DEF k
  <1>5. /\ m \in Seq(Handle) /\ IsInjective(m) /\ Range(m) = Range(n) \cup {p}
        /\ Len(m) = Len(n) + 1
        /\ \A j \in 1 .. Len(n) + 1 : m[j] = IF j < k THEN n[j] ELSE IF j = k THEN p ELSE n[j - 1]
    <2>1. p \notin Range(n)
      BY <1>2
    <2>2. n \in Seq(Handle) /\ p \in Handle /\ k \in 1 .. Len(n) + 1 /\ IsInjective(n)
      BY <1>2, <1>4
    <2> HIDE TimerLists
    <2>3. /\ LIST1_INSERT(n, k, p) \in Seq(Handle)
          /\ Len(LIST1_INSERT(n, k, p)) = Len(n) + 1
          /\ \A j \in 1 .. Len(n) + 1 :
                LIST1_INSERT(n, k, p)[j] = IF j < k THEN n[j] ELSE IF j = k THEN p ELSE n[j - 1]
          /\ Range(LIST1_INSERT(n, k, p)) = Range(n) \cup {p}
          /\ IsInjective(n) /\ p \notin Range(n) => IsInjective(LIST1_INSERT(n, k, p))
      BY <2>2, InsertProperties
    <2> QED BY <2>1, <2>2, <2>3
  <1> HIDE DEF m
  <1>6. /\ enable' \in [Handle -> BOOLEAN] /\ \A q \in Handle : enable'[q] <=> (enable[q] \/ q = p)
        /\ settime' \in [Handle -> 0 .. MaxTime] /\ interval' \in [Handle -> Interval \cup {0}]
    <2>1. enable' \in [Handle -> BOOLEAN] /\ \A q \in Handle : enable'[q] <=> (enable[q] \/ q = p)
      BY <1>1, TimerFields
    <2>2. settime' \in [Handle -> 0 .. MaxTime]
      BY <1>0, <1>1, TimerFields
    <2>3. interval' \in [Handle -> Interval \cup {0}]
      BY <1>1, TimerFields
    <2> QED BY <2>1, <2>2, <2>3
  <1>7. /\ held' \subseteq Handle /\ Range(list1_timer_free) = Handle \ held'
        /\ Range(m) = {q \in held' : enable'[q]}
        /\ Range(list1_timer_off') = {q \in held' : ~enable'[q]}
    <2>1. held' \subseteq Handle /\ Range(list1_timer_free) = Handle \ held'
      BY <1>1
    <2>2. Range(m) = {q \in held' : enable'[q]}
      BY <1>1, <1>2, <1>5, <1>6
    <2>3. Range(list1_timer_off') = {q \in held' : ~enable'[q]}
      BY <1>1, <1>3, <1>6
    <2> QED BY <2>1, <2>2, <2>3
  <1>8. \A q \in Handle : settime'[q] + interval'[q] = IF q = p THEN now + u ELSE Expiry(q)
    BY <1>1, TimerFields DEF Expiry
  <1>9. /\ Len(n) \in Nat
        /\ \A j \in 1 .. Len(n) : /\ n[j] \in Handle /\ n[j] # p /\ n[j] \in Range(n)
                                  /\ Expiry(n[j]) \in Int
    <2>1. Len(n) \in Nat /\ \A j \in 1 .. Len(n) : n[j] \in Handle /\ n[j] \in Range(n)
      <3> HIDE TimerLists
      <3>1. n \in [1 .. Len(n) -> Handle] /\ Len(n) \in Nat
        BY <1>2, FunctionOf
      <3> QED BY <3>1 DEF Range
    <2> QED BY <1>2, <2>1, TimerFields
  <1>10. \A j \in 1 .. Len(n) : settime'[n[j]] + interval'[n[j]] = Expiry(n[j])
    BY <1>8, <1>9
  <1>12. /\ behind' \subseteq Handle
         /\ \A j \in 1 .. Len(n) : n[j] \in behind' <=> n[j] \in behind
         /\ \A j \in 1 .. Len(n) : settime[n[j]] > now => p \in behind'
    <2>1. behind \subseteq Handle
      BY TimerTypes
    <2> QED BY <1>1, <1>9, <2>1
  <1>11. ExpiryOrder'
    <2> DEFINE E(q) == settime'[q] + interval'[q]
    <2>1. \A i, j \in 1 .. Len(n) + 1 : i < j => E(m[i]) <= E(m[j]) \/ m[j] \in behind'
      <3> SUFFICES ASSUME NEW i \in 1 .. Len(n) + 1, NEW j \in 1 .. Len(n) + 1, i < j
                   PROVE  E(m[i]) <= E(m[j]) \/ m[j] \in behind'
        OBVIOUS
      <3>1. E(p) = now + u /\ now + u \in Int
        BY <1>0, <1>8, TimerFields
      <3> HIDE TimerLists
      <3>0. Len(n) \in Nat /\ k \in 1 .. Len(n) + 1
        BY <1>4, <1>9
      <3>2. /\ i < k => i \in 1 .. Len(n) /\ m[i] = n[i]
            /\ i > k => i - 1 \in 1 .. Len(n) /\ i - 1 >= k /\ m[i] = n[i - 1]
            /\ i = k => m[i] = p
        <4>1. m[i] = IF i < k THEN n[i] ELSE IF i = k THEN p ELSE n[i - 1]
          BY <1>5
        <4> QED BY <3>0, <4>1
      <3>3. /\ j < k => j \in 1 .. Len(n) /\ m[j] = n[j]
            /\ j > k => j - 1 \in 1 .. Len(n) /\ j - 1 >= k /\ m[j] = n[j - 1]
            /\ j = k => m[j] = p
        <4>1. m[j] = IF j < k THEN n[j] ELSE IF j = k THEN p ELSE n[j - 1]
          BY <1>5
        <4> QED BY <3>0, <4>1
      <3>9. \A x, y \in 1 .. Len(n) : x < y => Expiry(n[x]) <= Expiry(n[y]) \/ n[y] \in behind
        BY <1>2 DEF Ordered
      <3>4. CASE j < k
        <4>1. i < k /\ (Expiry(n[i]) <= Expiry(n[j]) \/ n[j] \in behind)
          BY <1>4, <3>2, <3>3, <3>4, <3>9
        <4> QED BY <1>10, <1>12, <3>2, <3>3, <3>4, <4>1
      <3>5. CASE j = k
        <4>1. i < k /\ (Expiry(n[i]) <= now + u \/ settime[n[i]] > now)
          BY <1>4, <3>2, <3>5
        <4> QED BY <1>10, <1>12, <3>1, <3>2, <3>3, <3>5, <4>1
      <3>6. CASE j > k /\ i = k
        <4>1. Expiry(n[j - 1]) >= now + u \/ n[j - 1] \in behind
          BY <1>4, <3>3, <3>6
        <4>2. E(m[j]) = Expiry(n[j - 1])
          BY <1>10, <3>3, <3>6
        <4>3. Expiry(n[j - 1]) \in Int
          BY <1>9, <3>3, <3>6
        <4> QED BY <1>12, <3>1, <3>2, <3>3, <3>6, <4>1, <4>2, <4>3
      <3>7. CASE j > k /\ i < k
        <4>1. Expiry(n[i]) <= Expiry(n[j - 1]) \/ n[j - 1] \in behind
          <5>1. i < j - 1 \/ i = j - 1
            BY <1>4, <3>7
          <5>2. Expiry(n[i]) \in Int
            BY <1>9, <3>2, <3>7
          <5>3. CASE i = j - 1
            BY <5>2, <5>3
          <5>4. CASE i < j - 1
            BY <3>2, <3>3, <3>7, <3>9, <5>4
          <5> QED BY <5>1, <5>3, <5>4
        <4> QED BY <1>10, <1>12, <3>2, <3>3, <3>7, <4>1
      <3>8. CASE j > k /\ i > k
        <4>1. Expiry(n[i - 1]) <= Expiry(n[j - 1]) \/ n[j - 1] \in behind
          <5>1. i - 1 < j - 1
            OBVIOUS
          <5> QED BY <3>2, <3>3, <3>8, <3>9, <5>1
        <4> QED BY <1>10, <1>12, <3>2, <3>3, <3>8, <4>1
      <3> QED BY <1>4, <3>4, <3>5, <3>6, <3>7, <3>8
    <2> QED BY <1>1, <1>5, <2>1 DEF ExpiryOrder, Expiry
  <1> QED BY <1>1, <1>3, <1>5, <1>6, <1>7, <1>11, <1>12, TimerTypes, TimerFields, TimerMade

LEMMA ExpireStep ==
  ASSUME TimerInv, NEW c \in CPU, Expire(c)
  PROVE  TimerInv'
  <1> DEFINE p == Head(list1_timer_on)
             n == LIST1_POP(list1_timer_on)
             o == LIST1_ADD(list1_timer_off, p)
  <1> USE TimerLists
  <1>1. /\ list1_timer_on # <<>> /\ list1_timer_on' = n /\ list1_timer_off' = o
        /\ enable' = [enable EXCEPT ![p] = FALSE] /\ calling' = p
        /\ Clear(p) /\ behind' = behind \ {p}
        /\ UNCHANGED <<time, locked, list1_timer_free, held, timer_thread_run>>
    BY DEF Expire
  <1>2. /\ n \in Seq(Handle) /\ IsInjective(n)
        /\ p \in Handle /\ p \in held /\ enable[p] /\ Range(n) = {q \in held : enable[q]} \ {p}
    <2>1. /\ n \in Seq(Handle) /\ IsInjective(n) /\ p \in Handle
          /\ p \in Range(list1_timer_on) /\ Range(n) = Range(list1_timer_on) \ {p}
      BY <1>1, PopProperties
    <2> HIDE DEF n, p
    <2> QED BY <2>1
  <1> HIDE DEF p
  <1>3. /\ o \in Seq(Handle) /\ IsInjective(o) /\ Range(o) = {q \in held : ~enable[q]} \cup {p}
    <2>1. p \notin Range(list1_timer_off)
      BY <1>2
    <2>2. /\ o \in Seq(Handle) /\ IsInjective(o) /\ Range(o) = Range(list1_timer_off) \cup {p}
      BY <1>2, <2>1, AddProperties
    <2> QED BY <2>2
  <1> HIDE DEF o
  <1>4. enable' \in [Handle -> BOOLEAN] /\ \A q \in Handle : enable'[q] <=> (enable[q] /\ q # p)
    BY <1>1, <1>2, TimerFields
  <1>5. /\ held' \subseteq Handle /\ Range(list1_timer_free) = Handle \ held'
        /\ Range(n) = {q \in held' : enable'[q]}
        /\ Range(o) = {q \in held' : ~enable'[q]}
    <2> HIDE DEF n
    <2>1. held' \subseteq Handle /\ Range(list1_timer_free) = Handle \ held'
      BY <1>1
    <2>2. Range(n) = {q \in held' : enable'[q]}
      BY <1>1, <1>2, <1>4
    <2>3. Range(o) = {q \in held' : ~enable'[q]}
      BY <1>1, <1>2, <1>3, <1>4
    <2> QED BY <2>1, <2>2, <2>3
  <1>6. ExpiryOrder'
    <2>0. list1_timer_on \in Seq(Handle) /\ IsInjective(list1_timer_on) /\ 1 \in 1 .. Len(list1_timer_on)
      BY <1>1
    <2> HIDE TimerLists
    <2>1. Len(list1_timer_on) \in Nat /\ Len(n) = Len(list1_timer_on) - 1
      BY <2>0, DeleteAtProperties DEF LIST1_POP
    <2>2. \A i \in 1 .. Len(n) : n[i] = list1_timer_on[i + 1]
      <3>1. \A i \in 1 .. Len(list1_timer_on) - 1 : n[i] = list1_timer_on[i + 1]
        BY <2>1 DEF LIST1_POP, DeleteAt
      <3> HIDE DEF n
      <3> QED BY <2>1, <3>1
    <2> HIDE DEF n
    <2>3. ASSUME NEW i \in 1 .. Len(n), NEW j \in 1 .. Len(n), i < j
          PROVE  Expiry(n[i]) <= Expiry(n[j]) \/ n[j] \in behind
      <3>1. /\ i + 1 \in 1 .. Len(list1_timer_on) /\ j + 1 \in 1 .. Len(list1_timer_on)
            /\ i + 1 < j + 1
        BY <2>1, <2>3
      <3> QED BY <2>2, <3>1 DEF TimerInv, ExpiryOrder
    <2>4. Ordered(n)
      BY <2>3 DEF Ordered
    <2>5. p \notin Range(n)
      BY <1>2
    <2> QED BY <1>1, <1>2, <2>4, <2>5, OrderWithout
  <1> HIDE DEF n
  <1> QED BY <1>1, <1>2, <1>3, <1>4, <1>5, <1>6, TimerTypes, TimerFields, ClearTypes, TimerMade

LEMMA TimerStep == TimerInv /\ [Next]_vars => TimerInv'
  <1> SUFFICES ASSUME TimerInv, [Next]_vars PROVE TimerInv'
    OBVIOUS
  <1>1. CASE \/ \E c \in CPU : get_time(c)
             \/ time_wakeup \/ timer_new_null \/ CallbackReturns \/ UNCHANGED vars
    <2>1. /\ UNCHANGED <<list1_timer_on, list1_timer_off, list1_timer_free, enable, settime,
                         interval, held, behind>>
      BY <1>1 DEF get_time, time_wakeup, timer_new_null, CallbackReturns, vars, lists, fields
    <2>2. time' \in [CPU -> 0 .. MaxTime]
      <3>1. ASSUME NEW c \in CPU, get_time(c) PROVE time' \in [CPU -> 0 .. MaxTime]
        BY <3>1, TimerFields DEF get_time
      <3>2. ASSUME time_wakeup PROVE time' \in [CPU -> 0 .. MaxTime]
        BY <3>2 DEF time_wakeup
      <3> QED BY <1>1, <3>1, <3>2, TimerFields DEF timer_new_null, CallbackReturns, vars
    <2>3. {locked', timer_thread_run'} \subseteq BOOLEAN /\ calling' \in Handle \cup {NULL}
      BY <1>1, TimerTypes DEF get_time, time_wakeup, timer_new_null, CallbackReturns, vars
    <2>4. ExpiryOrder'
      BY <2>1, SameOrder
    <2> QED BY <2>1, <2>2, <2>3, <2>4, TimerFacts, TimerTypes, TimerMade
  <1>2. CASE timer_new
    BY <1>2, TimerNewStep
  <1>3. CASE \E p \in Handle : timer_free(p)
    BY <1>3, TimerFreeStep
  <1>4. CASE \E c \in CPU, p \in Handle, u \in Interval : timer_set(c, p, u)
    BY <1>4, TimerSetStep
  <1>5. CASE \E c \in CPU : Expire(c)
    BY <1>5, ExpireStep
  <1> QED BY <1>1, <1>2, <1>3, <1>4, <1>5 DEF Next

-----------------------------------------------------------------------------
(***************************************************************************)
(* The log.  The characters in the ring are the last ones printed, at      *)
(* consecutive places modulo its size, wherever the offset is; every valid *)
(* copy in panic memory is the end of what was printed before the panic.   *)
(***************************************************************************)
Turn == 2^W

LEMMA TurnIs == Turn \in Nat \ {0} /\ Turn % SIZE = 0 /\ SIZE \in Nat \ {0}
  BY DEF Turn

(* Places of the ring: which numbers have the same one *)
LEMMA AtIs ==
  ASSUME NEW x \in Int
  PROVE  /\ Tty!At(x) \in 0 .. SIZE - 1
         /\ \E q \in Int : x = SIZE * q + Tty!At(x)
  <1>1. x = SIZE * (x \div SIZE) + (x % SIZE) /\ x % SIZE \in 0 .. SIZE - 1 /\ x \div SIZE \in Int
    BY TurnIs
  <1> QED BY <1>1 DEF Tty!At

LEMMA AtRange == \A x \in Int : Tty!At(x) \in 0 .. SIZE - 1
  BY AtIs

LEMMA AtUnique ==
  ASSUME NEW q \in Int, NEW r0 \in 0 .. SIZE - 1
  PROVE  Tty!At(SIZE * q + r0) = r0
  BY TurnIs, Remainder DEF Tty!At

LEMMA AtSame ==
  ASSUME NEW x \in Int, NEW y \in Int, NEW k \in Int, y = x + SIZE * k
  PROVE  Tty!At(y) = Tty!At(x)
  <1>1. PICK q \in Int : x = SIZE * q + Tty!At(x)
    BY AtIs
  <1>2. Tty!At(x) \in 0 .. SIZE - 1
    BY AtIs
  <1> DEFINE a == Tty!At(x)
  <1> HIDE DEF a
  <1>3. a \in 0 .. SIZE - 1 /\ x = SIZE * q + a /\ SIZE \in Nat
    BY <1>1, <1>2, TurnIs DEF a
  <1>4. y = SIZE * (q + k) + a /\ q + k \in Int
    <2>1. SIZE * (q + k) = SIZE * q + SIZE * k
      BY <1>3
    <2> QED BY <1>3, <2>1
  <1>5. Tty!At(SIZE * (q + k) + a) = a
    BY <1>3, <1>4, AtUnique
  <1> QED BY <1>4, <1>5 DEF a

LEMMA AtSmall ==
  ASSUME NEW x \in 0 .. SIZE - 1
  PROVE  Tty!At(x) = x
  <1>1. PICK q \in Int : q = 0
    OBVIOUS
  <1>2. Tty!At(SIZE * q + x) = x
    BY AtUnique
  <1>3. SIZE * q + x = x
    BY <1>1, TurnIs
  <1> QED BY <1>2, <1>3

LEMMA AtRound ==
  ASSUME NEW x \in Int
  PROVE  Tty!At(x + SIZE) = Tty!At(x)
  <1>1. PICK k \in Int : k = 1
    OBVIOUS
  <1>2. x + SIZE = x + SIZE * k /\ x + SIZE \in Int
    BY <1>1, TurnIs
  <1> QED BY <1>2, AtSame

LEMMA AtAt ==
  ASSUME NEW x \in Int, NEW y \in Int
  PROVE  Tty!At(Tty!At(x) + y) = Tty!At(x + y)
  <1>1. PICK q \in Int : x = SIZE * q + Tty!At(x)
    BY AtIs
  <1> DEFINE a == Tty!At(x)
  <1>2. a \in Int
    BY AtIs, TurnIs
  <1> HIDE DEF a
  <1>3. x = SIZE * q + a
    BY <1>1 DEF a
  <1>4. x + y = (a + y) + SIZE * q /\ x + y \in Int /\ a + y \in Int
    BY <1>2, <1>3, TurnIs
  <1>5. Tty!At(x + y) = Tty!At(a + y)
    BY <1>4, AtSame
  <1> QED BY <1>5 DEF a

(* An unsigned int that wraps around stays at the same place. *)
LEMMA AtTurn ==
  ASSUME NEW x \in Int, NEW y \in Int
  PROVE  Tty!At((x % Turn) + y) = Tty!At(x + y)
  <1> DEFINE d == x \div Turn
             r0 == x % Turn
             t == Turn \div SIZE
  <1>1. x = Turn * d + r0 /\ d \in Int /\ r0 \in Int
    BY TurnIs
  <1>2. Turn = SIZE * t /\ t \in Int
    <2>1. Turn = SIZE * (Turn \div SIZE) + (Turn % SIZE) /\ Turn \div SIZE \in Int
      BY TurnIs
    <2> QED BY <2>1, TurnIs
  <1> HIDE DEF d, r0, t
  <1>3. Turn * d = SIZE * (t * d) /\ t * d \in Int
    BY <1>1, <1>2, TurnIs
  <1>4. x + y = (r0 + y) + SIZE * (t * d) /\ r0 + y \in Int /\ x + y \in Int
    BY <1>1, <1>3, TurnIs
  <1>5. Tty!At(x + y) = Tty!At(r0 + y)
    BY <1>3, <1>4, AtSame
  <1> QED BY <1>5 DEF r0

LEMMA AtDiffer ==
  ASSUME NEW x \in Int, NEW y \in Int, x < y, y < x + SIZE
  PROVE  Tty!At(x) # Tty!At(y)
  <1> SUFFICES ASSUME Tty!At(x) = Tty!At(y) PROVE FALSE
    OBVIOUS
  <1>1. PICK p \in Int : x = SIZE * p + Tty!At(x)
    BY AtIs
  <1>2. PICK q \in Int : y = SIZE * q + Tty!At(x)
    BY AtIs
  <1>3. Tty!At(x) \in Int /\ SIZE \in Nat \ {0}
    BY AtIs, TurnIs
  <1>4. SIZE * (q - p) = SIZE * q - SIZE * p
    BY <1>3
  <1>5. SIZE * (q - p) = y - x
    BY <1>1, <1>2, <1>3, <1>4
  <1>6. CASE q - p <= 0
    <2>1. SIZE * (q - p) <= 0
      BY <1>3, <1>6
    <2> QED BY <1>5, <2>1
  <1>7. CASE q - p >= 1
    <2>1. SIZE * (q - p) >= SIZE
      BY <1>3, <1>7
    <2> QED BY <1>3, <1>5, <2>1
  <1> QED BY <1>6, <1>7

LEMMA MinTwo ==
  ASSUME NEW x \in Int, NEW y \in Int
  PROVE  Tty!Min({x, y}) = IF x <= y THEN x ELSE y
  <1>1. \E z \in {x, y} : \A w \in {x, y} : z <= w
    OBVIOUS
  <1>2. Tty!Min({x, y}) \in {x, y} /\ \A w \in {x, y} : Tty!Min({x, y}) <= w
    BY <1>1 DEF Tty!Min
  <1> QED BY <1>2

(* buf holds the last characters of text, as many as there is room for. *)
IsTail(buf, text) ==
    /\ buf \in Seq(Nat) /\ Len(buf) <= SIZE /\ Len(buf) <= Len(text)
    /\ Len(buf) = SIZE \/ Len(buf) = Len(text)
    /\ \A i \in 1 .. Len(buf) : buf[i] = text[Len(text) - Len(buf) + i]

LogType ==
    /\ logoffset \in Nat /\ loglen \in 0 .. SIZE
    /\ log \in [0 .. SIZE - 1 -> Nat]
    /\ said \in Seq(Nat) /\ old \in Seq(Nat)
    /\ chars \in Nat
    /\ \A k \in Area : area[k].valid \in BOOLEAN

TailInv ==
    /\ loglen <= Len(said)
    /\ loglen = SIZE \/ loglen = Len(said)
    /\ \A i \in 1 .. loglen : log[Tty!At(logoffset + i - 1)] = said[Len(said) - loglen + i]

CopyInv == \A k \in Area : area[k].valid => IsTail(area[k].buf, old)

LogInv == LogType /\ TailInv /\ CopyInv

LEMMA LogInit == Tty!Init => LogInv
  <1> SUFFICES ASSUME Tty!Init PROVE LogInv
    OBVIOUS
  <1>1. LogType
    <2>1. /\ logoffset \in Nat /\ loglen \in 0 .. SIZE /\ log \in [0 .. SIZE - 1 -> Nat]
          /\ said \in Seq(Nat) /\ old \in Seq(Nat) /\ chars \in Nat
      BY TurnIs DEF Tty!Init
    <2>2. \A k \in Area : area[k].valid \in BOOLEAN
      BY DEF Tty!Init, Tty!Damaged
    <2> QED BY <2>1, <2>2 DEF LogType
  <1>2. TailInv
    BY TurnIs DEF Tty!Init, TailInv
  <1>3. CopyInv
    BY DEF Tty!Init, CopyInv, Tty!Damaged
  <1> QED BY <1>1, <1>2, <1>3 DEF LogInv

LEMMA PutStep ==
  ASSUME LogInv, Tty!tty_putchar
  PROVE  LogInv'
  <1>1. CASE ~logflag
    <2>1. UNCHANGED <<logoffset, loglen, log, said, old, area>> /\ chars' = chars + 1
      BY <1>1 DEF Tty!tty_putchar, Tty!logbuf
    <2>2. LogType'
      BY <2>1 DEF LogInv, LogType
    <2>3. TailInv'
      BY <2>1 DEF LogInv, TailInv, Tty!At
    <2>4. CopyInv'
      BY <2>1 DEF LogInv, CopyInv, IsTail
    <2> QED BY <2>2, <2>3, <2>4 DEF LogInv
  <1>2. CASE logflag
    <2> DEFINE c == Tty!At((logoffset + loglen) % 2^W)
               n == chars + 1
    <2>1. /\ log' = [log EXCEPT ![c] = n]
          /\ IF loglen = SIZE THEN logoffset' = Tty!At(logoffset + 1) /\ loglen' = loglen
             ELSE loglen' = loglen + 1 /\ logoffset' = logoffset
          /\ said' = Append(said, n) /\ chars' = n
          /\ UNCHANGED <<area, old>>
      BY <1>2 DEF Tty!tty_putchar
    <2>2. /\ logoffset \in Nat /\ loglen \in 0 .. SIZE /\ log \in [0 .. SIZE - 1 -> Nat]
          /\ said \in Seq(Nat) /\ Len(said) \in Nat /\ n \in Nat /\ SIZE \in Nat \ {0}
      BY TurnIs DEF LogInv, LogType
    <2>3. c = Tty!At(logoffset + loglen)
      <3>1. logoffset + loglen \in Int /\ (logoffset + loglen) % 2^W \in Int
        BY <2>2, TurnIs DEF Turn
      <3>2. Tty!At(((logoffset + loglen) % Turn) + 0) = Tty!At((logoffset + loglen) + 0)
        BY <3>1, AtTurn
      <3> QED BY <3>1, <3>2 DEF Turn
    <2> HIDE DEF c, n
    <2>4. c \in 0 .. SIZE - 1
      BY <2>2, <2>3, AtIs
    <2>5. /\ log' \in [0 .. SIZE - 1 -> Nat]
          /\ \A j \in 0 .. SIZE - 1 : log'[j] = IF j = c THEN n ELSE log[j]
      BY <2>1, <2>2, <2>4
    <2>6. /\ said' \in Seq(Nat) /\ Len(said') = Len(said) + 1 /\ said'[Len(said) + 1] = n
          /\ \A j \in 1 .. Len(said) : said'[j] = said[j]
      BY <2>1, <2>2
    <2>7. /\ loglen <= Len(said) /\ (loglen = SIZE \/ loglen = Len(said))
          /\ \A i \in 1 .. loglen :
                log[Tty!At(logoffset + i - 1)] = said[Len(said) - loglen + i]
      BY DEF LogInv, TailInv
    <2>8. LogType'
      <3>1. loglen' \in 0 .. SIZE
        BY <2>1, <2>2
      <3>2. logoffset' \in Nat
        <4>1. Tty!At(logoffset + 1) \in 0 .. SIZE - 1
          <5>1. logoffset + 1 \in Int
            BY <2>2
          <5> QED BY <5>1, AtRange
        <4> QED BY <2>1, <2>2, <4>1
      <3> QED BY <2>1, <2>2, <2>5, <2>6, <3>1, <3>2 DEF LogInv, LogType
    <2>9. CopyInv'
      BY <2>1 DEF LogInv, CopyInv, IsTail
    <2>10. TailInv'
      <3>1. CASE loglen < SIZE
        <4>1. loglen' = loglen + 1 /\ logoffset' = logoffset /\ loglen = Len(said)
          BY <2>1, <2>2, <2>7, <3>1
        <4>2. ASSUME NEW i \in 1 .. loglen + 1
              PROVE  log'[Tty!At(logoffset + i - 1)] = said'[i]
          <5>1. Tty!At(logoffset + i - 1) \in 0 .. SIZE - 1
            <6>1. logoffset + i - 1 \in Int
              BY <2>2
            <6> QED BY <6>1, AtRange
          <5>2. CASE i = loglen + 1
            <6>1. logoffset + i - 1 = logoffset + loglen
              BY <2>2, <5>2
            <6> QED BY <2>3, <2>5, <2>6, <4>1, <5>1, <5>2, <6>1
          <5>3. CASE i # loglen + 1
            <6>1. i \in 1 .. loglen /\ Len(said) - loglen + i = i
              BY <2>2, <4>1, <5>3
            <6>2. Tty!At(logoffset + i - 1) # c
              <7>1. logoffset + i - 1 \in Int /\ logoffset + loglen \in Int
                    /\ logoffset + i - 1 < logoffset + loglen
                    /\ logoffset + loglen < (logoffset + i - 1) + SIZE
                BY <2>2, <3>1, <6>1
              <7> QED BY <2>3, <7>1, AtDiffer
            <6> QED BY <2>5, <2>6, <2>7, <4>1, <5>1, <6>1, <6>2
          <5> QED BY <5>2, <5>3
        <4>3. Len(said') - loglen' = 0 /\ loglen' = Len(said')
          BY <2>2, <2>6, <4>1
        <4>4. \A i \in 1 .. loglen' :
                 log'[Tty!At(logoffset' + i - 1)] = said'[Len(said') - loglen' + i]
          <5>1. \A i \in 1 .. loglen + 1 : 0 + i = i
            BY <2>2
          <5> QED BY <4>1, <4>2, <4>3, <5>1
        <4>5. loglen' <= Len(said')
          BY <2>2, <4>1, <4>3
        <4> QED BY <4>3, <4>4, <4>5 DEF TailInv, Tty!At
      <3>2. CASE loglen = SIZE
        <4>1. loglen' = SIZE /\ logoffset' = Tty!At(logoffset + 1) /\ SIZE <= Len(said)
          BY <2>1, <2>7, <3>2
        <4>2. ASSUME NEW i \in 1 .. SIZE
              PROVE  log'[Tty!At(logoffset' + i - 1)] = said'[Len(said) + 1 - SIZE + i]
          <5>1. Tty!At(logoffset' + i - 1) = Tty!At(logoffset + i)
            <6>1. logoffset + 1 \in Int /\ i - 1 \in Int
              BY <2>2
            <6>2. Tty!At(Tty!At(logoffset + 1) + (i - 1)) = Tty!At((logoffset + 1) + (i - 1))
              BY <6>1, AtAt
            <6>3. (logoffset + 1) + (i - 1) = logoffset + i
              BY <2>2
            <6>4. Tty!At(logoffset + 1) \in Int
              BY <2>2, <6>1, AtIs
            <6>5. Tty!At(logoffset + 1) + (i - 1) = Tty!At(logoffset + 1) + i - 1
              BY <2>2, <6>4
            <6> QED BY <4>1, <6>2, <6>3, <6>5
          <5>2. Tty!At(logoffset + i) \in 0 .. SIZE - 1
            <6>1. logoffset + i \in Int
              BY <2>2
            <6> QED BY <6>1, AtRange
          <5>3. CASE i = SIZE
            <6>1. Len(said) + 1 - SIZE + i = Len(said) + 1 /\ logoffset + i = logoffset + loglen
              BY <2>2, <3>2, <5>3
            <6> QED BY <2>3, <2>5, <2>6, <5>1, <5>2, <6>1
          <5>4. CASE i # SIZE
            <6>1. Tty!At(logoffset + i) # c
              <7>1. logoffset + i \in Int /\ logoffset + loglen \in Int
                    /\ logoffset + i < logoffset + loglen
                    /\ logoffset + loglen < (logoffset + i) + SIZE
                BY <2>2, <3>2, <5>4
              <7> QED BY <2>3, <7>1, AtDiffer
            <6>2. /\ i + 1 \in 1 .. loglen /\ logoffset + (i + 1) - 1 = logoffset + i
                  /\ Len(said) - loglen + (i + 1) = Len(said) + 1 - SIZE + i
                  /\ Len(said) + 1 - SIZE + i \in 1 .. Len(said)
              BY <2>2, <3>2, <4>1, <5>4
            <6>3. log[Tty!At(logoffset + i)] = said[Len(said) + 1 - SIZE + i]
              BY <2>7, <6>2
            <6> QED BY <2>5, <2>6, <5>1, <5>2, <6>1, <6>2, <6>3
          <5> QED BY <5>3, <5>4
        <4>3. \A i \in 1 .. loglen' :
                 log'[Tty!At(logoffset' + i - 1)] = said'[Len(said') - loglen' + i]
          BY <2>2, <2>6, <4>1, <4>2
        <4>4. loglen' <= Len(said')
          BY <2>2, <2>6, <4>1
        <4> QED BY <4>1, <4>3, <4>4 DEF TailInv, Tty!At
      <3> QED BY <2>2, <3>1, <3>2
    <2> QED BY <2>8, <2>9, <2>10 DEF LogInv
  <1> QED BY <1>1, <1>2

(* What is copied, or read by the log's reader, is the end of the text. *)
LEMMA ContentsIsTail ==
  ASSUME LogInv
  PROVE  /\ Tty!Contents \in Seq(Nat) /\ Len(Tty!Contents) = loglen
         /\ IsTail(Tty!Contents, said)
  <1> DEFINE c == Tty!Contents
  <1>1. /\ logoffset \in Nat /\ loglen \in 0 .. SIZE /\ log \in [0 .. SIZE - 1 -> Nat]
        /\ SIZE \in Nat \ {0}
    BY TurnIs DEF LogInv, LogType
  <1>2. \A i \in 1 .. loglen : log[Tty!At(logoffset + i - 1)] \in Nat
    <2> SUFFICES ASSUME NEW i \in 1 .. loglen PROVE log[Tty!At(logoffset + i - 1)] \in Nat
      OBVIOUS
    <2>1. logoffset + i - 1 \in Int
      BY <1>1
    <2>2. Tty!At(logoffset + i - 1) \in 0 .. SIZE - 1
      BY <2>1, AtRange
    <2> QED BY <1>1, <2>2
  <1>3. c = [i \in 1 .. loglen |-> log[Tty!At(logoffset + i - 1)]]
    BY DEF Tty!Contents
  <1> HIDE DEF c
  <1>4. c \in [1 .. loglen -> Nat] /\ loglen \in Nat
    <2>1. c \in [1 .. loglen -> Nat]
      BY <1>2, <1>3
    <2> QED BY <1>1, <2>1
  <1>5. c \in Seq(Nat) /\ Len(c) = loglen
    BY <1>4, SequenceOf
  <1>6. \A i \in 1 .. loglen : c[i] = said[Len(said) - loglen + i]
    BY <1>3 DEF LogInv, TailInv
  <1>7. loglen <= SIZE /\ loglen <= Len(said) /\ (loglen = SIZE \/ loglen = Len(said))
    BY <1>1 DEF LogInv, TailInv
  <1> QED BY <1>5, <1>6, <1>7 DEF IsTail, c

LEMMA CopyStep ==
  ASSUME LogInv, Tty!ttylog_copy_to_panicmem
  PROVE  LogInv'
  <1>1. /\ area' = [k \in Area |-> Tty!Copy(Tty!Contents)]
        /\ old' = said /\ UNCHANGED <<logoffset, loglen, log, chars, said>>
    BY DEF Tty!ttylog_copy_to_panicmem, Tty!logbuf
  <1> DEFINE c == Tty!Contents
  <1>2. IsTail(c, said)
    BY ContentsIsTail
  <1> HIDE DEF c
  <1>3. \A k \in Area : area'[k].valid = TRUE /\ area'[k].buf = c
    BY <1>1 DEF Tty!Copy, c
  <1>4. \A k \in Area : IsTail(area'[k].buf, old')
    BY <1>1, <1>2, <1>3
  <1>5. CopyInv'
    BY <1>4 DEF CopyInv, IsTail
  <1>6. LogType'
    BY <1>1, <1>3 DEF LogInv, LogType
  <1>7. TailInv'
    BY <1>1 DEF LogInv, TailInv, Tty!At
  <1> QED BY <1>5, <1>6, <1>7 DEF LogInv

LEMMA ResetStep ==
  ASSUME LogInv, Tty!Reset
  PROVE  LogInv'
  <1>1. /\ logoffset' = 0 /\ loglen' = 0 /\ log' = [i \in 0 .. SIZE - 1 |-> 0]
        /\ said' = <<>> /\ UNCHANGED <<chars, old>>
    BY DEF Tty!Reset
  <1>2. PICK lost \in SUBSET Area :
            area' = [k \in Area |-> IF k \in lost THEN Tty!Damaged ELSE area[k]]
    BY DEF Tty!Reset
  <1>3. \A k \in Area : area'[k] = area[k] \/ area'[k].valid = FALSE
    BY <1>2 DEF Tty!Damaged
  <1>4. LogType'
    <2>1. /\ logoffset' \in Nat /\ loglen' \in 0 .. SIZE /\ log' \in [0 .. SIZE - 1 -> Nat]
          /\ said' \in Seq(Nat)
      BY <1>1, TurnIs
    <2>2. \A k \in Area : area'[k].valid \in BOOLEAN
      BY <1>3 DEF LogInv, LogType
    <2> QED BY <1>1, <2>1, <2>2 DEF LogInv, LogType
  <1>5. TailInv'
    BY <1>1, TurnIs DEF TailInv
  <1>6. CopyInv'
    BY <1>1, <1>3 DEF LogInv, CopyInv, IsTail
  <1> QED BY <1>4, <1>5, <1>6 DEF LogInv

(* A copy goes in front of the log: each of its characters, and each that  *)
(* was printed since the start, is at the place where it is looked for.    *)
LEMMA RestoreStep ==
  ASSUME LogInv, Tty!ttylog_copy_from_panicmem
  PROVE  LogInv'
  <1> DEFINE Valid == {k \in Area : area[k].valid}
             buf == area[Tty!Min(Valid)].buf
             n == Tty!Restored(buf)
             first == (logoffset - n) % 2^W
  <1>1. /\ area' = [k \in Area |-> Tty!Cleared]
        /\ IF Valid = {} THEN UNCHANGED <<logoffset, loglen, log, said>>
           ELSE /\ logoffset' = first /\ loglen' = loglen + n
                /\ log' = [j \in 0 .. SIZE - 1 |->
                             IF Tty!At(j - first) < n THEN buf[Len(buf) - n + Tty!At(j - first) + 1]
                             ELSE log[j]]
                /\ said' = old \o said
        /\ UNCHANGED <<chars, old>>
    BY DEF Tty!ttylog_copy_from_panicmem, Tty!logbuf
  <1>2. CopyInv' /\ \A k \in Area : area'[k].valid \in BOOLEAN
    BY <1>1 DEF CopyInv, Tty!Cleared
  <1>3. CASE Valid = {}
    <2>1. LogType'
      BY <1>1, <1>2, <1>3 DEF LogInv, LogType
    <2>2. TailInv'
      BY <1>1, <1>3 DEF LogInv, TailInv, Tty!At
    <2> QED BY <1>2, <2>1, <2>2 DEF LogInv
  <1>4. CASE Valid # {}
    <2>1. IsTail(buf, old)
      <3>1. Valid \subseteq Nat
        OBVIOUS
      <3>2. Tty!Min(Valid) \in Valid
        <4> HIDE DEF Valid
        <4>1. \E x \in Valid : \A y \in Valid : x <= y
          BY <1>4, <3>1, HasLeast
        <4> QED BY <4>1 DEF Tty!Min
      <3> QED BY <3>2 DEF LogInv, CopyInv
    <2> HIDE DEF buf
    <2>2. /\ buf \in Seq(Nat) /\ Len(buf) \in Nat /\ Len(buf) <= SIZE /\ Len(buf) <= Len(old)
          /\ Len(buf) = SIZE \/ Len(buf) = Len(old)
          /\ \A i \in 1 .. Len(buf) : buf[i] = old[Len(old) - Len(buf) + i]
      BY <2>1 DEF IsTail
    <2>3. /\ logoffset \in Nat /\ loglen \in 0 .. SIZE /\ log \in [0 .. SIZE - 1 -> Nat]
          /\ said \in Seq(Nat) /\ Len(said) \in Nat /\ old \in Seq(Nat) /\ Len(old) \in Nat
          /\ SIZE \in Nat \ {0}
      BY TurnIs DEF LogInv, LogType
    <2>4. /\ loglen <= Len(said) /\ (loglen = SIZE \/ loglen = Len(said))
          /\ \A i \in 1 .. loglen :
                log[Tty!At(logoffset + i - 1)] = said[Len(said) - loglen + i]
      BY DEF LogInv, TailInv
    <2>5. n = IF Len(buf) <= SIZE - loglen THEN Len(buf) ELSE SIZE - loglen
      <3>1. SIZE - loglen \in Int /\ Len(buf) \in Int
        BY <2>2, <2>3
      <3>2. n = Tty!Min({Len(buf), SIZE - loglen})
        BY DEF Tty!Restored
      <3> QED BY <3>1, <3>2, MinTwo
    <2> HIDE DEF n
    <2> DEFINE B == Len(buf)
               O == Len(old)
               L == Len(said)
    <2>0. /\ B \in Nat /\ O \in Nat /\ L \in Nat /\ SIZE \in Nat /\ loglen \in Nat
          /\ B <= SIZE /\ B <= O /\ (B = SIZE \/ B = O)
          /\ loglen <= SIZE /\ loglen <= L /\ (loglen = SIZE \/ loglen = L)
      BY <2>2, <2>3, <2>4
    <2>6. /\ n \in Nat /\ n <= B /\ loglen + n <= SIZE
          /\ n > 0 => L = loglen
          /\ loglen + n = SIZE \/ (n = O /\ loglen = L)
      <3>1. n = IF B <= SIZE - loglen THEN B ELSE SIZE - loglen
        BY <2>5
      <3> HIDE DEF B, O, L
      <3> QED BY <2>0, <3>1
    <2>7. first \in Nat /\ \A y \in Int : Tty!At(first + y) = Tty!At(logoffset - n + y)
      <3>1. logoffset - n \in Int
        BY <2>3, <2>6
      <3>2. first = (logoffset - n) % Turn
        BY DEF Turn
      <3> HIDE DEF first
      <3>3. first \in Nat
        BY <3>1, <3>2, TurnIs
      <3>4. \A y \in Int : Tty!At(first + y) = Tty!At((logoffset - n) + y)
        BY <3>1, <3>2, AtTurn
      <3> QED BY <3>3, <3>4
    <2> HIDE DEF first, Valid
    <2>8. /\ logoffset' = first /\ loglen' = loglen + n
          /\ log' = [j \in 0 .. SIZE - 1 |->
                       IF Tty!At(j - first) < n THEN buf[Len(buf) - n + Tty!At(j - first) + 1]
                       ELSE log[j]]
          /\ said' = old \o said
      BY <1>1, <1>4
    <2>9. /\ said' \in Seq(Nat) /\ Len(said') = Len(old) + Len(said)
          /\ \A i \in 1 .. Len(old) : said'[i] = old[i]
          /\ \A i \in 1 .. Len(said) : said'[Len(old) + i] = said[i]
      <3>1. said' \in Seq(Nat) /\ Len(said') = Len(old) + Len(said)
        BY <2>3, <2>8
      <3>2. \A i \in 1 .. Len(old) : said'[i] = old[i]
        BY <2>3, <2>8
      <3>3. \A i \in 1 .. Len(said) : said'[Len(old) + i] = said[i]
        BY <2>3, <2>8
      <3> QED BY <3>1, <3>2, <3>3
    <2>10. log' \in [0 .. SIZE - 1 -> Nat]
      <3> SUFFICES ASSUME NEW j \in 0 .. SIZE - 1
                   PROVE  (IF Tty!At(j - first) < n THEN buf[Len(buf) - n + Tty!At(j - first) + 1]
                           ELSE log[j]) \in Nat
        BY <2>8
      <3> DEFINE a == Tty!At(j - first)
      <3>1. j - first \in Int
        BY <2>3, <2>7
      <3>2. a \in 0 .. SIZE - 1
        BY <3>1, AtRange
      <3> HIDE DEF a
      <3>3. a < n => Len(buf) - n + a + 1 \in 1 .. Len(buf)
        <4>1. a < n => B - n + a + 1 \in 1 .. B
          <5> HIDE DEF B, O, L
          <5> QED BY <2>0, <2>6, <3>2
        <4> QED BY <4>1
      <3>4. a < n => buf[Len(buf) - n + a + 1] \in Nat
        BY <2>2, <3>3
      <3>5. log[j] \in Nat
        BY <2>3
      <3> QED BY <3>4, <3>5 DEF a
    <2>11. LogType'
      <3>1. loglen' \in 0 .. SIZE
        BY <2>3, <2>6, <2>8
      <3> QED BY <1>1, <1>2, <2>7, <2>8, <2>9, <2>10, <3>1 DEF LogInv, LogType
    <2>12. ASSUME NEW q \in 1 .. loglen + n
           PROVE  log'[Tty!At(first + q - 1)] = said'[Len(old) + Len(said) - (loglen + n) + q]
      <3> DEFINE c == Tty!At(first + q - 1)
      <3>1. first + q - 1 \in Int /\ q - 1 \in 0 .. SIZE - 1 /\ q - 1 \in Int /\ q \in Int
            /\ -first \in Int /\ first \in Int
        BY <2>3, <2>6, <2>7
      <3>2. c \in 0 .. SIZE - 1
        BY <3>1, AtRange
      <3>3. Tty!At(c - first) = q - 1
        <4>1. Tty!At(Tty!At(first + q - 1) + (-first)) = Tty!At((first + q - 1) + (-first))
          BY <3>1, AtAt
        <4>2. (first + q - 1) + (-first) = q - 1
          BY <3>1
        <4>3. Tty!At(q - 1) = q - 1
          BY <3>1, AtSmall
        <4> HIDE DEF c
        <4>4. c + (-first) = c - first
          BY <2>3, <3>1, <3>2
        <4> QED BY <4>1, <4>2, <4>3, <4>4 DEF c
      <3>4. c = Tty!At(logoffset - n + (q - 1))
        <4>1. first + q - 1 = first + (q - 1)
          BY <3>1
        <4> QED BY <2>7, <3>1, <4>1
      <3> HIDE DEF c
      <3>5. log'[c] = IF q - 1 < n THEN buf[Len(buf) - n + (q - 1) + 1] ELSE log[c]
        BY <2>8, <3>2, <3>3
      <3>6. CASE q <= n
        <4>1. /\ B - n + (q - 1) + 1 \in 1 .. B
              /\ O - B + (B - n + (q - 1) + 1) = O - n + q
              /\ O + L - (loglen + n) + q = O - n + q
              /\ O - n + q \in 1 .. O
              /\ q - 1 < n
          <5> HIDE DEF B, O, L
          <5>1. q \in Nat \ {0} /\ q <= n
            BY <2>0, <2>6, <3>6
          <5> QED BY <2>0, <2>6, <5>1
        <4>2. log'[c] = buf[Len(buf) - n + (q - 1) + 1]
          BY <3>5, <4>1
        <4>3. buf[Len(buf) - n + (q - 1) + 1] = old[Len(old) - n + q]
          BY <2>2, <4>1
        <4>4. said'[Len(old) - n + q] = old[Len(old) - n + q]
          BY <2>9, <4>1
        <4> QED BY <4>1, <4>2, <4>3, <4>4 DEF c
      <3>7. CASE q > n
        <4>1. /\ q - n \in 1 .. loglen /\ logoffset + (q - n) - 1 = logoffset - n + (q - 1)
              /\ Len(said) - loglen + (q - n) \in 1 .. Len(said)
              /\ Len(old) + (Len(said) - loglen + (q - n)) = Len(old) + Len(said) - (loglen + n) + q
              /\ ~(q - 1 < n)
          BY <2>3, <2>4, <2>6, <3>7
        <4>2. log'[c] = log[c]
          BY <3>5, <4>1
        <4>3. log[c] = said[Len(said) - loglen + (q - n)]
          BY <2>4, <3>4, <4>1
        <4>4. said'[Len(old) + (Len(said) - loglen + (q - n))] = said[Len(said) - loglen + (q - n)]
          BY <2>9, <4>1
        <4> QED BY <4>1, <4>2, <4>3, <4>4 DEF c
      <3> QED BY <2>6, <3>1, <3>6, <3>7
    <2>13. TailInv'
      <3>1. /\ loglen' <= Len(said') /\ (loglen' = SIZE \/ loglen' = Len(said'))
        <4>1. loglen + n <= O + L /\ (loglen + n = SIZE \/ loglen + n = O + L)
          <5> HIDE DEF B, O, L
          <5> QED BY <2>0, <2>6
        <4>2. loglen' = loglen + n /\ Len(said') = O + L
          BY <2>8, <2>9
        <4> QED BY <4>1, <4>2
      <3>2. \A i \in 1 .. loglen' :
               log'[Tty!At(logoffset' + i - 1)] = said'[Len(said') - loglen' + i]
        <4>1. logoffset' = first /\ loglen' = loglen + n /\ Len(said') = Len(old) + Len(said)
          BY <2>8, <2>9
        <4> HIDE DEF B, O, L
        <4> QED BY <2>12, <4>1
      <3> QED BY <3>1, <3>2 DEF TailInv, Tty!At
    <2> QED BY <1>2, <2>11, <2>13 DEF LogInv
  <1> QED BY <1>3, <1>4

LEMMA LogStep == LogInv /\ [Tty!Next]_logvars => LogInv'
  <1> SUFFICES ASSUME LogInv, [Tty!Next]_logvars PROVE LogInv'
    OBVIOUS
  <1>1. CASE Tty!ttylog_stop \/ UNCHANGED logvars
    <2>1. UNCHANGED <<logoffset, loglen, log, said, old, area, chars>>
      BY <1>1 DEF Tty!ttylog_stop, Tty!logbuf, logvars
    <2>2. LogType'
      BY <2>1 DEF LogInv, LogType
    <2>3. TailInv'
      BY <2>1 DEF LogInv, TailInv, Tty!At
    <2>4. CopyInv'
      BY <2>1 DEF LogInv, CopyInv, IsTail
    <2> QED BY <2>2, <2>3, <2>4 DEF LogInv
  <1> QED BY <1>1, PutStep, CopyStep, ResetStep, RestoreStep DEF Tty!Next

LEMMA LogSafe == LogInv => LogIsTail
  <1> SUFFICES ASSUME LogInv PROVE LogIsTail
    OBVIOUS
  <1> DEFINE n == Tty!Min({SIZE, Len(said)})
             c == Tty!Contents
             t == SubSeq(said, Len(said) - n + 1, Len(said))
  <1>1. /\ said \in Seq(Nat) /\ Len(said) \in Nat /\ SIZE \in Nat /\ loglen \in Nat
        /\ loglen <= SIZE
    BY TurnIs DEF LogInv, LogType
  <1>2. c \in Seq(Nat) /\ Len(c) = loglen /\ IsTail(c, said)
    BY ContentsIsTail
  <1>3. n = loglen
    <2>1. n = IF SIZE <= Len(said) THEN SIZE ELSE Len(said)
      BY <1>1, MinTwo
    <2> HIDE DEF n, c
    <2> QED BY <1>1, <1>2, <2>1 DEF IsTail
  <1> HIDE DEF n, c
  <1>4. Len(said) - n + 1 \in 1 .. Len(said) + 1
    BY <1>1, <1>2, <1>3 DEF IsTail
  <1>5. t \in Seq(Nat) /\ Len(t) = n /\ \A i \in 1 .. n : t[i] = said[Len(said) - n + i]
    <2>1. Len(t) = n
      BY <1>1, <1>3, <1>4
    <2>2. t \in Seq(Nat)
      BY <1>1, <1>3, <1>4
    <2>3. \A i \in 1 .. n : t[i] = said[Len(said) - n + i]
      BY <1>1, <1>3, <1>4
    <2> QED BY <2>1, <2>2, <2>3
  <1>6. \A i \in 1 .. n : c[i] = t[i]
    BY <1>2, <1>3, <1>5 DEF IsTail
  <1> HIDE DEF t
  <1>7. c = t
    <2>1. c \in [1 .. n -> Nat]
      BY <1>2, <1>3, FunctionOf
    <2>2. t \in [1 .. n -> Nat]
      BY <1>5, FunctionOf
    <2>3. c = [i \in 1 .. n |-> c[i]] /\ t = [i \in 1 .. n |-> t[i]]
      BY <2>1, <2>2
    <2> QED BY <1>6, <2>3, Zenon
  <1> QED BY <1>7 DEF LogIsTail, Tty!LogIsTail, c, t, n

-----------------------------------------------------------------------------
ServInv == TimerInv /\ ProcInv /\ ChannelInv /\ LogInv

LEMMA ServParts ==
  ASSUME [ServNext]_servvars
  PROVE  [Next]_vars /\ [Proc!Next]_procvars /\ [Shell!Next]_shellvars /\ [Tty!Next]_logvars
  <1>1. CASE ServNext
    BY <1>1 DEF ServNext
  <1>2. CASE UNCHANGED servvars
    BY <1>2 DEF servvars
  <1> QED BY <1>1, <1>2

(* Every service keeps its inductive invariant. *)
THEOREM ServInvariant == ServSpec => []ServInv
  <1>1. ServInit => ServInv
    BY TimerInit, ProcInit, ChannelInit, LogInit DEF ServInit, ServInv
  <1>2. ServInv /\ [ServNext]_servvars => ServInv'
    BY ServParts, TimerStep, ProcStep, ChannelStep, LogStep DEF ServInv
  <1>3. ServSpec => ServInit /\ [][ServNext]_servvars
    BY DEF ServSpec
  <1> QED BY <1>1, <1>2, <1>3, PTL

(* Every timer is linked once, in the list that its enable flag implies,   *)
(* and the running timers are in the order in which they expire, apart     *)
(* from those that were set by a clock that lay behind, for any number of  *)
(* timers and processors, any intervals, any difference between the        *)
(* processors' clocks and whatever callbacks do.                           *)
THEOREM TimerListsAgree == ServSpec => []ListsAgree
  <1>1. ServInv => ListsAgree
    BY DEF ServInv, TimerInv, ListsAgree
  <1> QED BY <1>1, ServInvariant, PTL

(* A process is there as long as a thread is inside of it, however deep    *)
(* messages nest, and a message reaches the process that was meant.        *)
THEOREM ProcessOutlivesItsCalls == ServSpec => []InsideLiving
  <1>1. ServInv => InsideLiving
    BY DEF ServInv, ProcInv, InsideLiving
  <1> QED BY <1>1, ServInvariant, PTL

(* No registered name refers to a process that has exited. *)
THEOREM NamesOfLivingProcesses == ServSpec => []NamesLive
  <1>1. ServInv => NamesLive
    BY DEF ServInv, ProcInv, NamesLive
  <1> QED BY <1>1, ServInvariant, PTL

(* The debug shell and the guest see the same characters in the same       *)
(* order, whatever characters they use and however their steps interleave. *)
THEOREM ShellInStep == ServSpec => []InStep
  <1>1. ServInv => InStep
    BY ChannelSafe DEF ServInv
  <1> QED BY <1>1, ServInvariant, PTL

(* The log is the end of what was printed, for any size of the ring that   *)
(* divides the range of the offset, across panics and resets.              *)
THEOREM LogKeepsTheTail == ServSpec => []LogIsTail
  <1>1. ServInv => LogIsTail
    BY LogSafe DEF ServInv
  <1> QED BY <1>1, ServInvariant, PTL
=============================================================================
