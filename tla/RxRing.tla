------------------------------- MODULE RxRing -------------------------------
(***************************************************************************)
(* Reception in the PRO/1000 driver (drivers/net/pro1000.c): the ring of   *)
(* receive descriptors that the card fills from its register head on, and  *)
(* receive_physnic(), which collects the filled ones behind register tail  *)
(* in batches, hands them to recvphys_func and returns them to the card.   *)
(* receive_physnic() runs under d2->lock, so there is one at a time; the   *)
(* card runs concurrently.                                                 *)
(***************************************************************************)
EXTENDS Integers, Sequences, Subsequence

CONSTANTS
    NUM_OF_RDESC,   \* 256
    BATCH,          \* num, the size of pkt[] (16)
    Frame,          \* frames that may arrive
    Bad,            \* those with an error bit set, or without end-of-packet
    NoFrame         \* contents of a buffer never written

ASSUME RxAssumption ==
    /\ NUM_OF_RDESC \in Nat /\ NUM_OF_RDESC > 1
    /\ BATCH \in Nat \ {0}
    /\ Bad \subseteq Frame /\ NoFrame \notin Frame

VARIABLES
    head, tail,    \* registers RDH and RDT of the card
    programmed,    \* register RDLEN holds RDESC_SIZE
    rbuf,          \* descriptors and their buffers
    pc,            \* where receive_physnic() is
    h, t, pkt,     \* its local variables; pkt holds the descriptors' numbers
    out            \* argument of the last call of recvphys_func

vars == <<head, tail, programmed, rbuf, pc, h, t, pkt, out>>

Desc == 0 .. NUM_OF_RDESC - 1

(* `nt = t + 1' with the wrap *)
NextDesc(i) == IF i + 1 >= NUM_OF_RDESC THEN 0 ELSE i + 1

-----------------------------------------------------------------------------
(* After init_desc_receive *)
Init ==
    /\ head = 0
    /\ tail = NUM_OF_RDESC - 1
    /\ programmed = TRUE
    /\ rbuf = [i \in Desc |-> NoFrame]
    /\ pc = "idle"
    /\ h = 0 /\ t = 0
    /\ pkt = <<>>
    /\ out = <<>>

(* The card stores a frame unless it has no descriptor left. *)
HwReceive(f) ==
    /\ programmed
    /\ head # tail
    /\ rbuf' = [rbuf EXCEPT ![head] = f]
    /\ head' = NextDesc(head)
    /\ UNCHANGED <<tail, programmed, pc, h, t, pkt, out>>

(* The guest resets the card (a register access, so under d2->lock). *)
HwReset ==
    /\ pc = "idle"
    /\ programmed
    /\ head' = 0 /\ tail' = 0
    /\ programmed' = FALSE
    /\ UNCHANGED <<rbuf, pc, h, t, pkt, out>>

(* write_mydesc: programs the registers unless they are *)
write_mydesc ==
    IF programmed
    THEN UNCHANGED <<head, tail, programmed>>
    ELSE /\ head' = 0
         /\ tail' = NUM_OF_RDESC - 1
         /\ programmed' = TRUE

(* receive_physnic, up to its loop *)
receive_physnic ==
    /\ pc = "idle"
    /\ write_mydesc
    /\ h' = head' /\ t' = tail'
    /\ pkt' = <<>>
    /\ pc' = "loop"
    /\ UNCHANGED <<rbuf, out>>

(* A descriptor is collected.  A slip: bad frames are passed on. *)
Collect_Bad(i) == Append(pkt, i)

Collect(i) == IF rbuf[i] \in Bad THEN pkt ELSE Append(pkt, i)

(* A slip: `continue' on an error comes before `t = nt' *)
MoveOn_GoodOnly == t' = IF rbuf[NextDesc(t)] \in Bad THEN t ELSE NextDesc(t)

MoveOn == t' = NextDesc(t)

(* The test at the top of the loop *)
HandOver == h = NextDesc(t) \/ Len(pkt) = BATCH

(* A slip: each descriptor goes back to the card at once *)
TakeDesc_GiveBack ==
    /\ pc = "take" \/ (pc = "loop" /\ ~HandOver)
    /\ MoveOn
    /\ tail' = NextDesc(t)
    /\ pkt' = Collect(NextDesc(t))
    /\ pc' = "loop"
    /\ UNCHANGED <<head, programmed, rbuf, h, out>>

TakeDesc ==
    /\ pc = "take" \/ (pc = "loop" /\ ~HandOver)
    /\ MoveOn
    /\ pkt' = Collect(NextDesc(t))
    /\ pc' = "loop"
    /\ UNCHANGED <<head, tail, programmed, rbuf, h, out>>

(* The call of recvphys_func *)
CallRecv ==
    /\ pc = "loop"
    /\ HandOver
    /\ out' = [i \in 1 .. Len(pkt) |-> rbuf[pkt[i]]]
    /\ pkt' = <<>>
    /\ pc' = IF h = NextDesc(t) THEN "done" ELSE "take"
    /\ UNCHANGED <<head, tail, programmed, rbuf, h, t>>

ReturnDesc ==
    /\ pc = "done"
    /\ tail' = t
    /\ pc' = "idle"
    /\ UNCHANGED <<head, programmed, rbuf, h, t, pkt, out>>

Driver == receive_physnic \/ TakeDesc \/ CallRecv \/ ReturnDesc

Next == \/ \E f \in Frame : HwReceive(f)
        \/ HwReset
        \/ receive_physnic
        \/ TakeDesc
        \/ CallRecv
        \/ ReturnDesc

Spec == Init /\ [][Next]_vars

(* The guest reads the interrupt cause register again and again, or the    *)
(* network module polls; the driver then goes on.                          *)
Fairness == WF_vars(Driver)

FairSpec == Spec /\ Fairness

-----------------------------------------------------------------------------
TypeOK ==
    /\ head \in Desc /\ tail \in Desc
    /\ programmed \in BOOLEAN
    /\ rbuf \in [Desc -> Frame \cup {NoFrame}]
    /\ pc \in {"idle", "loop", "take", "done"}
    /\ h \in Desc /\ t \in Desc
    /\ pkt \in Seq(Desc)
    /\ out \in Seq(Frame)

(* The descriptors from i up to, not including, j *)
Between(i, j) ==
    {d \in Desc : (d - i) % NUM_OF_RDESC < (j - i) % NUM_OF_RDESC}

(***************************************************************************)
(* The card never writes to a buffer that the driver has collected and     *)
(* passes to recvphys_func by reference, nor to one that it still has to   *)
(* look at: tail is written only after the last call of recvphys_func.     *)
(***************************************************************************)
NoOverwrite ==
    pc \in {"loop", "take"} =>
        Between(head, tail)
            \cap ({pkt[i] : i \in 1 .. Len(pkt)} \cup Between(NextDesc(t), h)) = {}

-----------------------------------------------------------------------------
(***************************************************************************)
(* Refinement: the frames waiting are the collected ones and the good ones *)
(* of the descriptors that the card has filled and the driver has not yet  *)
(* reached.                                                                *)
(***************************************************************************)
Reached == IF pc = "idle" THEN tail ELSE t

Filled ==
    IF ~programmed THEN <<>>
    ELSE [i \in 1 .. (head - Reached - 1) % NUM_OF_RDESC |->
             rbuf[(Reached + i) % NUM_OF_RDESC]]

Waiting == [i \in 1 .. Len(pkt) |-> rbuf[pkt[i]]] \o Only(Filled, Frame \ Bad)

Queue == INSTANCE FrameQueue WITH Frame <- Frame \ Bad, q <- Waiting

(* receive_physnic() delivers every good frame once, in order, in batches. *)
DeliversInOrder == Queue!Spec

(* No frame waits forever: as long as good frames wait, frames are handed  *)
(* to recvphys_func, bad frames and full batches notwithstanding.          *)
KeepsDelivering ==
    []<>(Waiting = <<>>) \/ []<><<CallRecv /\ pkt # <<>>>>_vars
=============================================================================
