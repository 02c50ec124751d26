------------------------------ MODULE GuestRx ------------------------------
(***************************************************************************)
(* Reception by the guest through the PRO/1000 driver                      *)
(* (drivers/net/pro1000.c): send_virtnic() copies frames into the buffers  *)
(* of the guest's receive ring, several buffers for a long frame, and      *)
(* fills the descriptors in.  It runs under d2->lock, which the guest's    *)
(* accesses to the registers take, too; descriptors are ordinary memory    *)
(* that the guest reads meanwhile on another processor.                    *)
(*                                                                         *)
(* Data are counted in cells, as in module GuestTx.  The guest is a        *)
(* correct driver of the card: it clears a descriptor before it hands it   *)
(* over, and reads descriptors in order.                                   *)
(***************************************************************************)
EXTENDS Integers, Sequences

CONSTANTS
    RingLen,      \* descriptors in the guest's ring
    Config,       \* ways in which guests set up the card, see ConfigType
    SENDVIRT_MAXSIZE,
    Length,       \* lengths of frames
    MaxFrames,    \* bound: frames passed to send_virtnic()
    MaxBatch      \* bound: frames passed at a time

(* Extended descriptors (RFCTL), cells in a buffer (RCTL), cells of CRC     *)
(* behind a frame, and whether the guest looks for the done bit or reads    *)
(* the head register.                                                       *)
ConfigType == [ext : BOOLEAN, bufsize : Nat, asize : {0, 1}, polls : BOOLEAN]

VARIABLES
    config,
    ring,         \* descriptors with their buffers
    head, tail,   \* s->head, s->tail
    nr, partial,  \* the guest's next descriptor, and what it has of a frame
    pc, todo,     \* where send_virtnic() is, and what it has still to send
    i, pkt,       \* local variables of sendvirt(); pkt up to pktlen
    sent,         \* lengths of the frames passed to sendvirt() (history)
    accepted,     \* the frames that sendvirt() has not dropped (history)
    received      \* the frames that the guest has got (history)

guest == <<config, tail, nr, partial, received>>
vars == <<guest, ring, head, pc, todo, i, pkt, sent, accepted>>

-----------------------------------------------------------------------------
NextIndex(k) == IF k + 1 >= RingLen THEN 0 ELSE k + 1

(* Frame number f, with its CRC *)
Cells(f, len) == [n \in 1 .. len + config.asize |-> [frame |-> f, n |-> n]]

(* A descriptor that has been cleared; nobody knows what its buffer holds. *)
Fresh == [dd |-> FALSE, eop |-> FALSE, len |-> 0, buf |-> <<>>]

(* The guest has handed over all descriptors but one. *)
Init ==
    /\ config \in Config
    /\ ring = [k \in 0 .. RingLen - 1 |-> Fresh]
    /\ head = 0 /\ tail = RingLen - 1
    /\ nr = 0 /\ partial = <<>>
    /\ pc = "idle" /\ todo = <<>>
    /\ i = 0 /\ pkt = <<>>
    /\ sent = <<>> /\ accepted = <<>> /\ received = <<>>

-----------------------------------------------------------------------------
(* What the guest finds in a descriptor; cells that were not written are   *)
(* whatever the buffer held.                                               *)
Contents(d) ==
    [n \in 1 .. d.len |-> IF n <= Len(d.buf) THEN d.buf[n] ELSE [stale |-> TRUE]]

(* A descriptor is read by a guest that has got the frames a.frames, and    *)
(* a.partial of the next.                                                   *)
Take(a, d) ==
    LET all == a.partial \o Contents(d)
    IN  IF d.eop THEN [frames |-> Append(a.frames, all), partial |-> <<>>]
                 ELSE [frames |-> a.frames, partial |-> all]

(* The head register is read under the lock; the done bit at any time. *)
Ready == IF config.polls THEN ring[nr].dd ELSE pc = "idle" /\ nr # head

GuestReads ==
    /\ nr # tail
    /\ Ready
    /\ nr' = NextIndex(nr)
    /\ LET got == Take([frames |-> received, partial |-> partial], ring[nr])
       IN  received' = got.frames /\ partial' = got.partial
    /\ UNCHANGED <<config, tail, ring, head, pc, todo, i, pkt, sent, accepted>>

(* A descriptor is cleared and handed over again (handle_desc, tail). *)
GuestPosts ==
    /\ pc = "idle"
    /\ NextIndex(tail) # nr
    /\ ring' = [ring EXCEPT ![tail] = Fresh]
    /\ tail' = NextIndex(tail)
    /\ UNCHANGED <<config, nr, partial, received, head, pc, todo, i, pkt, sent, accepted>>

-----------------------------------------------------------------------------
send_virtnic ==
    /\ pc = "idle"
    /\ \E n \in 1 .. MaxBatch : /\ Len(sent) + n <= MaxFrames
                                /\ todo' \in [1 .. n -> Length]
    /\ pc' = "next"
    /\ UNCHANGED <<guest, ring, head, i, pkt, sent, accepted>>

(* sendvirt, up to its loop; a frame that is too long is dropped. *)
sendvirt ==
    /\ pc = "next" /\ todo # <<>>
    /\ todo' = Tail(todo)
    /\ sent' = Append(sent, Head(todo))
    /\ IF Head(todo) > SENDVIRT_MAXSIZE
       THEN UNCHANGED <<pc, i, pkt>>
       ELSE pc' = "loop" /\ i' = head /\ pkt' = Cells(Len(sent) + 1, Head(todo))
    /\ UNCHANGED <<guest, ring, head, accepted>>

Return ==
    /\ pc = "next" /\ todo = <<>>
    /\ pc' = "idle"
    /\ UNCHANGED <<guest, ring, head, todo, i, pkt, sent, accepted>>

(* No descriptor is left, or one is not clean: the frame is dropped, and   *)
(* what has been written of it stays.  A slip: s->head moves.              *)
DropFrame_MoveHead == head' = i
DropFrame == UNCHANGED head

NoDesc == i = tail \/ (config.ext /\ ring[i].dd)

Drop ==
    /\ pc = "loop" /\ pkt # <<>>
    /\ NoDesc
    /\ DropFrame
    /\ pc' = "next"
    /\ UNCHANGED <<guest, ring, todo, i, pkt, sent, accepted>>

(* pktlen <= bufsize: the last descriptor of the frame *)
IsLast == Len(pkt) <= config.bufsize

Copied == SubSeq(pkt, 1, IF IsLast THEN Len(pkt) ELSE config.bufsize)

(* One round of the loop.  Of several legacy descriptors, only the last is *)
(* marked done.  Extended ones are, before their length is set.            *)
Fill ==
    /\ pc = "loop" /\ pkt # <<>>
    /\ ~NoDesc
    /\ IF config.ext
       THEN /\ ring' = [ring EXCEPT ![i] = [@ EXCEPT !.dd = TRUE, !.eop = IsLast,
                                                     !.buf = Copied]]
            /\ pc' = "length"
            /\ UNCHANGED <<i, pkt>>
       ELSE /\ ring' = [ring EXCEPT ![i] = [dd |-> IsLast, eop |-> IsLast,
                                            len |-> Len(Copied), buf |-> Copied]]
            /\ i' = NextIndex(i)
            /\ pkt' = SubSeq(pkt, Len(Copied) + 1, Len(pkt))
            /\ UNCHANGED pc
    /\ UNCHANGED <<guest, head, todo, sent, accepted>>

(* rd1->len = pktlen, also when the buffer is smaller *)
SetLength ==
    /\ pc = "length"
    /\ ring' = [ring EXCEPT ![i].len = Len(pkt)]
    /\ i' = NextIndex(i)
    /\ pkt' = SubSeq(pkt, Len(Copied) + 1, Len(pkt))
    /\ pc' = "loop"
    /\ UNCHANGED <<guest, head, todo, sent, accepted>>

(* s->head = i, and an interrupt *)
Accept ==
    /\ pc = "loop" /\ pkt = <<>>
    /\ head' = i
    /\ accepted' = Append(accepted, Cells(Len(sent), sent[Len(sent)]))
    /\ pc' = "next"
    /\ UNCHANGED <<guest, ring, todo, i, pkt, sent>>

Next == \/ GuestReads \/ GuestPosts
        \/ send_virtnic \/ sendvirt \/ Return \/ Drop \/ Fill \/ SetLength \/ Accept

Spec == Init /\ [][Next]_vars

-----------------------------------------------------------------------------
(* What descriptors ds give to a guest that has got p of a frame *)
GotUpto(ds, p) ==
    LET got[k \in 0 .. Len(ds)] ==
            IF k = 0 THEN [frames |-> <<>>, partial |-> p] ELSE Take(got[k - 1], ds[k])
    IN  got

Got(ds, p) == GotUpto(ds, p)[Len(ds)]

(* The frames that the guest will read up to the head register *)
Unread == Got([k \in 1 .. (head - nr) % RingLen |-> ring[(nr + k - 1) % RingLen]], partial)

(* The frame that sendvirt() is at *)
Current == IF pc \in {"loop", "length"} THEN <<Cells(Len(sent), sent[Len(sent)])>> ELSE <<>>

(***************************************************************************)
(* The guest gets every frame that sendvirt() has accepted, whole, once    *)
(* and in order, although it reads descriptors while they are written, its *)
(* ring wraps around, and sendvirt() gives up in the middle of a frame     *)
(* when the ring runs out of descriptors.                                  *)
(***************************************************************************)
WholeFrames ==
    /\ \E n \in 0 .. Len(accepted \o Current) : received = SubSeq(accepted \o Current, 1, n)
    /\ pc = "idle" => Unread = [frames |-> SubSeq(accepted, Len(received) + 1, Len(accepted)),
                                partial |-> <<>>]
=============================================================================
