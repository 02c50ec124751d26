------------------------------- MODULE TxRing -------------------------------
(***************************************************************************)
(* Transmission by the VMM in the PRO/1000 driver (drivers/net/pro1000.c): *)
(* send_physnic() copies frames into the ring of transmit descriptors from *)
(* register tail on and then writes tail; the card sends what lies between *)
(* head and tail, concurrently.  send_physnic() takes no lock: the guest   *)
(* may reset the card between any two of its accesses to a register.       *)
(***************************************************************************)
EXTENDS Integers, Sequences

CONSTANTS
    Sender,         \* those that call send_physnic()
    NUM_OF_TDESC,   \* 256
    Frame,          \* frames to send
    Large,          \* those that do not fit into TBUF_SIZE
    NoFrame,        \* contents of a buffer never written
    MaxPackets      \* bound: num_packets

VARIABLES
    head, tail,     \* registers TDH and TDT of the card
    programmed,     \* register TDLEN holds TDESC_SIZE
    based,          \* register TDBA holds td_phys
    tbuf,           \* descriptors and their buffers
    pc,             \* where a sender is
    h, t, packets,  \* its local variables; packets from packets[i] on
    out             \* the frame that the card has sent last

vars == <<head, tail, programmed, based, tbuf, pc, h, t, packets, out>>

Desc == 0 .. NUM_OF_TDESC - 1

NextDesc(k) == IF k + 1 >= NUM_OF_TDESC THEN 0 ELSE k + 1

(* After init_desc_transmit *)
Init ==
    /\ head = 0 /\ tail = 0
    /\ programmed = TRUE /\ based = TRUE
    /\ tbuf = [k \in Desc |-> NoFrame]
    /\ pc = [x \in Sender |-> "idle"]
    /\ h = [x \in Sender |-> 0] /\ t = [x \in Sender |-> 0]
    /\ packets = [x \in Sender |-> <<>>]
    /\ out = <<>>

(* The card sends a frame, or what lies elsewhere if TDBA has been lost. *)
HwSend ==
    /\ programmed
    /\ head # tail
    /\ out' = <<IF based THEN tbuf[head] ELSE NoFrame>>
    /\ head' = NextDesc(head)
    /\ UNCHANGED <<tail, programmed, based, tbuf, pc, h, t, packets>>

(* The guest resets the card. *)
HwReset ==
    /\ head' = 0 /\ tail' = 0
    /\ programmed' = FALSE /\ based' = FALSE
    /\ UNCHANGED <<tbuf, pc, h, t, packets, out>>

Goto(x, l) == pc' = [pc EXCEPT ![x] = l]

(* Up to the first access to a register, the TDLEN that write_mydesc()     *)
(* reads.  Nothing is changed when the ring is not set up or the card or   *)
(* transmission is disabled.                                               *)
send_physnic(x) ==
    /\ pc[x] = "idle"
    /\ Goto(x, IF programmed THEN "h" ELSE "TDLEN=0")
    /\ \E n \in 1 .. MaxPackets : \E p \in [1 .. n -> Frame] :
           packets' = [packets EXCEPT ![x] = p]
    /\ UNCHANGED <<head, tail, programmed, based, tbuf, h, t, out>>

(* The writes to registers in write_mydesc *)
write_mydesc(x) ==
    /\ \/ /\ pc[x] = "TDLEN=0" /\ Goto(x, "TDBA")
          /\ programmed' = FALSE /\ UNCHANGED <<head, tail, based>>
       \/ /\ pc[x] = "TDBA" /\ Goto(x, "TDH")
          /\ based' = TRUE /\ UNCHANGED <<head, tail, programmed>>
       \/ /\ pc[x] = "TDH" /\ Goto(x, "TDT")
          /\ head' = 0 /\ UNCHANGED <<tail, programmed, based>>
       \/ /\ pc[x] = "TDT" /\ Goto(x, "TDLEN")
          /\ tail' = 0 /\ UNCHANGED <<head, programmed, based>>
       \/ /\ pc[x] = "TDLEN" /\ Goto(x, "h")
          /\ programmed' = TRUE /\ UNCHANGED <<head, tail, based>>
    /\ UNCHANGED <<tbuf, h, t, packets, out>>

ReadHead(x) ==
    /\ pc[x] = "h" /\ Goto(x, "t")
    /\ h' = [h EXCEPT ![x] = head]
    /\ UNCHANGED <<head, tail, programmed, based, tbuf, t, packets, out>>

(* The register reads as all ones: the card is gone. *)
Gone(x) ==
    /\ pc[x] = "h" /\ Goto(x, "idle")
    /\ packets' = [packets EXCEPT ![x] = <<>>]
    /\ UNCHANGED <<head, tail, programmed, based, tbuf, h, t, out>>

ReadTail(x) ==
    /\ pc[x] = "t" /\ Goto(x, "loop")
    /\ t' = [t EXCEPT ![x] = tail]
    /\ UNCHANGED <<head, tail, programmed, based, tbuf, h, packets, out>>

(* A slip: the last descriptor is used, too, and the ring looks empty. *)
Full_Never(x) == FALSE

(* `h == nt': one descriptor always stays free. *)
Full(x) == h[x] = NextDesc(t[x])

(* One round of the loop; a large frame is passed over. *)
Copy(x) ==
    /\ pc[x] = "loop"
    /\ packets[x] # <<>> /\ ~Full(x)
    /\ packets' = [packets EXCEPT ![x] = Tail(@)]
    /\ IF Head(packets[x]) \in Large
       THEN UNCHANGED <<tbuf, t>>
       ELSE /\ tbuf' = [tbuf EXCEPT ![t[x]] = Head(packets[x])]
            /\ t' = [t EXCEPT ![x] = NextDesc(@)]
    /\ UNCHANGED <<head, tail, programmed, based, pc, h, out>>

(* The end of the loop; if the ring is full, the other frames are lost. *)
WriteTail(x) ==
    /\ pc[x] = "loop"
    /\ packets[x] = <<>> \/ Full(x)
    /\ tail' = t[x]
    /\ packets' = [packets EXCEPT ![x] = <<>>]
    /\ h' = [h EXCEPT ![x] = 0] /\ t' = [t EXCEPT ![x] = 0]
    /\ Goto(x, "idle")
    /\ UNCHANGED <<head, programmed, based, tbuf, out>>

Next == \/ HwSend
        \/ HwReset
        \/ \E x \in Sender : \/ send_physnic(x) \/ write_mydesc(x)
                             \/ ReadHead(x) \/ Gone(x) \/ ReadTail(x)
                             \/ Copy(x) \/ WriteTail(x)

Spec == Init /\ [][Next]_vars

-----------------------------------------------------------------------------
(***************************************************************************)
(* Refinement: the frames waiting are those between head and tail, or up   *)
(* to t while a sender fills the ring.  After a reset none are.            *)
(***************************************************************************)
Reached == IF \E x \in Sender : pc[x] = "loop"
           THEN t[CHOOSE x \in Sender : pc[x] = "loop"] ELSE tail

Waiting == IF ~(programmed /\ based) THEN <<>>
           ELSE [k \in 1 .. (Reached - head) % NUM_OF_TDESC |->
                    tbuf[(head + k - 1) % NUM_OF_TDESC]]

Queue == INSTANCE FrameQueue WITH Frame <- Frame \ Large, BATCH <- 1, q <- Waiting

(* A reset came between the writes to TDBA and TDLEN: from then on TDLEN   *)
(* looks right, write_mydesc() does not program the ring again, and the    *)
(* card reads descriptors from where there are none, until the next reset. *)
Astray == programmed /\ ~based

(* With one sender at a time, every frame that fits into the ring is sent  *)
(* once, unchanged and in order, while the card takes frames out and is    *)
(* reset between any two accesses to its registers.  Only when a reset has *)
(* left the card astray is nothing promised; the frames of that time are   *)
(* lost, none comes out later.                                             *)
SentInOrder ==
    Queue!Init /\ [][Queue!Next \/ (Astray /\ Waiting' = <<>>)]_<<Waiting, out>>
=============================================================================
