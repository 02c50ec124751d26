-------------------------------- MODULE DbgSh --------------------------------
(***************************************************************************)
(* The debug shell's channel (core/vmmcall_dbgsh.c) between a thread of    *)
(* the VMM, which sends one character at a time and waits for the answer,  *)
(* and the program tools/dbgsh in the guest, which polls with a VM call.   *)
(*                                                                         *)
(* s and r are volatile variables that both sides read and write without a *)
(* lock: one step per access.  What is done under dbgsh_lock2 is one step. *)
(* The scheduler is that of module Thread, seen from this one thread.      *)
(***************************************************************************)
EXTENDS Integers, Sequences, SequencesExt

CONSTANTS
    Output,     \* characters the shell prints, all positive
    Input,      \* keys the user presses, none of them 0 or -1
    EOT,        \* 0x100 | '\n': the shell has ended
    MaxSends    \* bound: characters sent by the thread

VARIABLES
    s, r,        \* the character to the guest, the answer to the thread
    stopped,     \* the thread has stopped itself at least once
    state,       \* its state in the scheduler, "EXIT" before it is created
    pc,          \* where the thread is in dbgsh_send_to_guest()
    gpc,         \* where the guest is in dbgsh_enabled()
    b,           \* the argument of its call
    quitting,    \* dbgsh makes its last call and ignores the result
    sent, seen,        \* characters sent, and seen by the guest
    answers, taken     \* answers given, and taken by the thread

shared == <<s, r, stopped, state>>
log    == <<sent, seen, answers, taken>>
vars   == <<shared, pc, gpc, b, quitting, log>>

-----------------------------------------------------------------------------
(* vmmcall_dbgsh_init, and dbgsh about to make its first call *)
Init ==
    /\ s = -1 /\ r = -1
    /\ stopped = FALSE
    /\ state = "EXIT"
    /\ pc = "none"
    /\ gpc = "call"
    /\ b = -1
    /\ quitting = FALSE
    /\ sent = <<>> /\ seen = <<>> /\ answers = <<>> /\ taken = <<>>

(* dbgsh_enabled: the first call creates the thread *)
Call ==
    /\ gpc = "call"
    /\ IF state = "EXIT" THEN state' = "RUN" /\ pc' = "send"
                         ELSE UNCHANGED <<state, pc>>
    /\ gpc' = IF b # -1 THEN "set_r" ELSE "return"
    /\ UNCHANGED <<s, r, stopped, b, quitting, log>>

SetR ==
    /\ gpc = "set_r"
    /\ r' = b
    /\ answers' = Append(answers, b)
    /\ gpc' = "set_s"
    /\ UNCHANGED <<s, stopped, state, pc, b, quitting, sent, seen, taken>>

SetS ==
    /\ gpc = "set_s"
    /\ s' = -1
    /\ gpc' = "wake"
    /\ UNCHANGED <<r, stopped, state, pc, b, quitting, log>>

(* thread_wakeup *)
Wake ==
    /\ gpc = "wake"
    /\ state' = IF stopped THEN "RUN" ELSE state
    /\ gpc' = "return"
    /\ UNCHANGED <<s, r, stopped, pc, b, quitting, log>>

(* What main() of dbgsh answers to a character *)
Answer(c) == IF c = -1 THEN {-1} ELSE IF c = 0 THEN Input ELSE {0}

(* The call returns s; after the last call another dbgsh is started. *)
Return ==
    /\ gpc = "return"
    /\ gpc' = "call"
    /\ IF quitting
       THEN b' = -1 /\ quitting' = FALSE /\ UNCHANGED seen
       ELSE /\ b' \in Answer(s)
            /\ quitting' = (s = EOT)
            /\ seen' = IF s = -1 THEN seen ELSE Append(seen, s)
    /\ UNCHANGED <<shared, pc, sent, answers, taken>>

-----------------------------------------------------------------------------
(* dbgsh_send_to_guest *)
Send ==
    /\ pc = "send" /\ state = "RUN"
    /\ Len(sent) < MaxSends
    /\ \E c \in Output \cup {0, EOT} : s' = c /\ sent' = Append(sent, c)
    /\ pc' = "test_r"
    /\ UNCHANGED <<r, stopped, state, gpc, b, quitting, seen, answers, taken>>

TestR ==
    /\ pc = "test_r"
    /\ pc' = IF r = -1 THEN "stop" ELSE "test_s"
    /\ UNCHANGED <<shared, gpc, b, quitting, log>>

(* `s != -1'.  A slip: the loop waits for the answer only. *)
Unread_Ignored == FALSE

Unread == s # -1

TestS ==
    /\ pc = "test_s"
    /\ pc' = IF Unread THEN "stop" ELSE "take"
    /\ UNCHANGED <<shared, gpc, b, quitting, log>>

(* stopped = true; thread_will_stop () *)
WillStop ==
    /\ pc = "stop"
    /\ stopped' = TRUE
    /\ state' = "WILL_STOP"
    /\ pc' = "schedule"
    /\ UNCHANGED <<s, r, gpc, b, quitting, log>>

Schedule ==
    /\ pc = "schedule"
    /\ state' = IF state = "WILL_STOP" THEN "STOP" ELSE state
    /\ pc' = "scheduled"
    /\ UNCHANGED <<s, r, stopped, gpc, b, quitting, log>>

(* The scheduler runs the thread again if it is runnable. *)
Resume ==
    /\ pc = "scheduled" /\ state = "RUN"
    /\ pc' = "test_r"
    /\ UNCHANGED <<shared, gpc, b, quitting, log>>

Take ==
    /\ pc = "take"
    /\ taken' = Append(taken, r)
    /\ pc' = "clear"
    /\ UNCHANGED <<shared, gpc, b, quitting, sent, seen, answers>>

Clear ==
    /\ pc = "clear"
    /\ r' = -1
    /\ pc' = "send"
    /\ UNCHANGED <<s, stopped, state, gpc, b, quitting, log>>

-----------------------------------------------------------------------------
Guest  == Call \/ SetR \/ SetS \/ Wake \/ Return
Server == Send \/ TestR \/ TestS \/ WillStop \/ Schedule \/ Resume \/ Take \/ Clear

Next == \/ Call \/ SetR \/ SetS \/ Wake \/ Return
        \/ Send \/ TestR \/ TestS \/ WillStop \/ Schedule \/ Resume \/ Take \/ Clear

Spec == Init /\ [][Next]_vars

(* The guest goes on polling, and a runnable thread runs (ReadyThreadRuns  *)
(* of module Thread).                                                      *)
FairSpec == Spec /\ WF_vars(Guest) /\ WF_vars(Server)

-----------------------------------------------------------------------------
TypeOK ==
    /\ s \in Output \cup {-1, 0, EOT}
    /\ r \in Input \cup {-1, 0}
    /\ {stopped, quitting} \subseteq BOOLEAN
    /\ state \in {"EXIT", "RUN", "WILL_STOP", "STOP"}
    /\ pc \in {"none", "send", "test_r", "stop", "test_s", "schedule",
               "scheduled", "take", "clear"}
    /\ gpc \in {"call", "set_r", "set_s", "wake", "return"}
    /\ b \in Input \cup {-1, 0}

(***************************************************************************)
(* The two sides go in step although they share s and r without a lock: no *)
(* character and no answer is lost, seen twice or taken for another one,   *)
(* and the thread sends the next character only when the last one has been *)
(* answered.  What has not been seen or taken yet still is in s or r.      *)
(***************************************************************************)
InStep ==
    /\ IsPrefix(seen, sent) /\ IsPrefix(taken, answers)
    /\ Len(answers) <= Len(seen)
    /\ Len(sent) <= Len(taken) + 1
    /\ Len(seen) < Len(sent) => s = sent[Len(seen) + 1]
    /\ Len(taken) < Len(answers) => r = answers[Len(taken) + 1]

(***************************************************************************)
(* "Debug shell access from guest" (Makefile.config:82): when the guest    *)
(* has answered a character, the shell's thread gets the answer.           *)
(***************************************************************************)
AnswerIsTaken ==
    \A n \in 1 .. MaxSends : Len(answers) = n ~> Len(taken) >= n
=============================================================================
