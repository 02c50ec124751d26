------------------------------ MODULE GuestTx ------------------------------
(***************************************************************************)
(* Transmission by the guest through the PRO/1000 driver                   *)
(* (drivers/net/pro1000.c): the guest writes descriptors into its ring and *)
(* then the tail register.  The write traps, and guest_is_transmitting()   *)
(* gathers the data in d2->buf and hands whole packets to recvvirt_func,   *)
(* cutting them into TCP segments where the guest has asked for it (TSE).  *)
(* All of it runs under d2->lock, in the guest's own access.               *)
(*                                                                         *)
(* Data are counted in cells.  A packet begins with its header, one cell   *)
(* that has the fields the driver changes; `sum' says whether the TCP/IP   *)
(* checksums still are what the guest has prepared ("seed") or are right.  *)
(* The guest is a correct driver: IFCS is set, a context precedes a TSE    *)
(* packet, packets without TSE fit into BUFSIZE.  The done bits that it    *)
(* may poll instead of the head register are left out.                     *)
(***************************************************************************)
EXTENDS Integers, Sequences

CONSTANTS
    RingLen,      \* descriptors in the guest's ring
    BUFSIZE,      \* size of d2->buf in cells (2048 bytes)
    Packet,       \* the packets that the guest may send
    MaxFrames     \* bound: how many of them it sends

VARIABLES
    ring,         \* the guest's descriptors
    next,         \* the guest's next free one
    queued,       \* the packets that the guest has put there (history)
    head, tail,   \* s->head, s->tail
    en,           \* transmission is enabled in TCTL and PCI configuration
    pc, i,        \* where guest_is_transmitting() is, and its local variable
    rest,         \* what process_tdesc() has not copied of a data descriptor
    buf,          \* d2->buf up to d2->len
    csum,         \* d2->dext1_ixsm, dext1_txsm
    mss, paylen,  \* d2->dext0_mss, dext0_paylen
    tse_first,    \* d2->tse_first
    saved,        \* d2->tse_iplen and the other fields of the first header
    out           \* the packets passed to recvvirt_func (history)

guest == <<ring, next, queued, en>>
tse   == <<mss, paylen, tse_first, saved>>
vars  == <<guest, head, tail, pc, i, rest, buf, csum, tse, out>>

-----------------------------------------------------------------------------
(***************************************************************************)
(* A packet: its kind ("legacy", "data" or "tse" by its descriptors),      *)
(* cells of payload, segment size, whether checksums are left to the card, *)
(* and the lengths of the descriptors' data.                               *)
(***************************************************************************)
PacketType ==
    [kind : {"legacy", "data", "tse"}, pay : Nat, mss : Nat, sum : BOOLEAN, cuts : Seq(Nat)]

Segments(p) == (p.pay + p.mss - 1) \div p.mss

(* How many cells the first k descriptors hold *)
Upto(cuts) ==
    LET sum[k \in 0 .. Len(cuts)] == IF k = 0 THEN 0 ELSE sum[k - 1] + cuts[k] IN sum

(* What the guest puts into memory for its packet number f *)
Cells(f, p) ==
    <<[frame |-> f, id |-> 0, seq |-> 0, fin |-> TRUE, len |-> p.pay,
       sum |-> IF p.sum THEN "seed" ELSE "good"]>>
        \o [n \in 1 .. p.pay |-> [frame |-> f, n |-> n]]

Descriptors(f, p) ==
    LET end  == Upto(p.cuts)
        Data == [k \in 1 .. Len(p.cuts) |->
                   [type |-> IF p.kind = "legacy" THEN "legacy" ELSE "data",
                    cells |-> SubSeq(Cells(f, p), end[k - 1] + 1, end[k]),
                    tse |-> p.kind = "tse", sum |-> p.sum, eop |-> k = Len(p.cuts)]]
    IN  IF p.kind = "tse"
        THEN <<[type |-> "context", mss |-> p.mss, paylen |-> p.pay]>> \o Data
        ELSE Data

NextIndex(k) == IF k + 1 >= RingLen THEN 0 ELSE k + 1

-----------------------------------------------------------------------------
(* The guest has set up its ring (init_desc). *)
Init ==
    /\ ring = [k \in 0 .. RingLen - 1 |-> <<>>]
    /\ next = 0 /\ queued = <<>>
    /\ head = 0 /\ tail = 0
    /\ en \in BOOLEAN
    /\ pc = "idle" /\ i = 0
    /\ rest = <<>> /\ buf = <<>>
    /\ csum = FALSE
    /\ mss = 0 /\ paylen = 0
    /\ tse_first = FALSE
    /\ saved = [len |-> 0, sum |-> "none", fin |-> FALSE]
    /\ out = <<>>

Queue(p) ==
    /\ pc = "idle"
    /\ Len(queued) < MaxFrames
    /\ LET d == Descriptors(Len(queued) + 1, p)
       IN  /\ ((next - head) % RingLen) + Len(d) < RingLen
           /\ ring' = [k \in 0 .. RingLen - 1 |->
                         LET j == ((k - next) % RingLen) + 1
                         IN  IF j <= Len(d) THEN d[j] ELSE ring[k]]
           /\ next' = (next + Len(d)) % RingLen
    /\ queued' = Append(queued, p)
    /\ UNCHANGED <<head, tail, en, pc, i, rest, buf, csum, tse, out>>

(* A write to TCTL, or to the PCI command register *)
Enable ==
    /\ pc = "idle"
    /\ en' = ~en
    /\ UNCHANGED <<ring, next, queued, head, tail, pc, i, rest, buf, csum, tse, out>>

(* handle_desc, tail register; guest_is_transmitting up to its loop *)
WriteTail ==
    /\ pc = "idle"
    /\ tail' = next
    /\ i' = head
    /\ pc' = IF en THEN "fetch" ELSE "idle"
    /\ UNCHANGED <<guest, head, rest, buf, csum, tse, out>>

(* The end of guest_is_transmitting *)
Finish ==
    /\ pc = "fetch" /\ i = tail
    /\ head' = i
    /\ pc' = "idle"
    /\ UNCHANGED <<guest, tail, i, rest, buf, csum, tse, out>>

-----------------------------------------------------------------------------
(* process_tdesc *)
IsType(type) == pc = "fetch" /\ i # tail /\ ring[i].type = type

(* DEXT, DTYP 0 *)
Context ==
    /\ IsType("context")
    /\ mss' = ring[i].mss /\ paylen' = ring[i].paylen
    /\ tse_first' = TRUE
    /\ i' = NextIndex(i)
    /\ UNCHANGED <<guest, head, tail, pc, rest, buf, csum, saved, out>>

(* tdesc_copytobuf: as much of data as fits *)
Copied(data) == IF BUFSIZE - Len(buf) < Len(data) THEN BUFSIZE - Len(buf) ELSE Len(data)

Legacy ==
    /\ IsType("legacy")
    /\ LET data == ring[i].cells
           b    == buf \o SubSeq(data, 1, Copied(data))
       IN  IF ring[i].eop THEN out' = Append(out, b) /\ buf' = <<>>
                          ELSE buf' = b /\ UNCHANGED out
    /\ i' = NextIndex(i)
    /\ UNCHANGED <<guest, head, tail, pc, rest, csum, tse>>

(* DEXT, DTYP 1, up to the label loop *)
DataStart ==
    /\ IsType("data")
    /\ csum' = IF buf = <<>> THEN ring[i].sum ELSE csum
    /\ rest' = ring[i].cells
    /\ pc' = "data"
    /\ UNCHANGED <<guest, head, tail, i, buf, tse, out>>

(* dextlast and dextsize.  A slip: the rest of the packet is expected to   *)
(* come together in the buffer.                                            *)
dextlast == mss >= paylen
dextsize_Whole == 1 + paylen
dextsize == 1 + (IF dextlast THEN paylen ELSE mss)

(* tse_first: what the first header holds.  A slip: FIN is saved after it  *)
(* has been cleared.                                                       *)
SaveHeader_Cleared(h) == [len |-> h.len, sum |-> h.sum, fin |-> h.fin /\ dextlast]

SaveHeader(h) == [len |-> h.len, sum |-> h.sum, fin |-> h.fin]

(* tse_set_header, and checksum: right if it starts from the guest's seed *)
SetHeader(h) == [h EXCEPT !.len = IF dextlast THEN paylen ELSE mss,
                          !.fin = h.fin /\ dextlast]
Checksum(h) == [h EXCEPT !.sum = IF h.sum = "seed" THEN "good" ELSE "bad"]

(* tse_set_next_header, with what tse_first has saved *)
NextHeader(h, s) == [h EXCEPT !.len = s.len, !.sum = s.sum, !.fin = h.fin \/ s.fin,
                              !.id = h.id + 1, !.seq = h.seq + mss]

(* What stays in d2->buf behind the header after a segment *)
Shift(b, size) == SubSeq(b, size + 1, Len(b))

(* From the label send on: b is the buffer, size the packet's size in it.  *)
(* What lies behind b is what the buffer held before.                      *)
Send(b, istse, full, size) ==
    LET h1 == IF istse THEN SetHeader(b[1]) ELSE b[1]
        h2 == IF csum THEN Checksum(h1) ELSE h1
        s  == IF full /\ tse_first THEN SaveHeader(b[1]) ELSE saved
    IN  /\ out' = Append(out, <<h2>> \o [k \in 1 .. size - 1 |->
                     IF k + 1 <= Len(b) THEN b[k + 1] ELSE [stale |-> TRUE]])
        /\ saved' = s
        /\ tse_first' = (tse_first /\ ~full)
        /\ IF istse /\ ~dextlast
           THEN /\ buf' = <<NextHeader(h2, s)>> \o Shift(b, size)
                /\ paylen' = paylen - mss
           ELSE buf' = <<>> /\ UNCHANGED paylen
        /\ UNCHANGED mss

(* One round of the loop.  It is left when the descriptor has been copied  *)
(* completely, or (a message on the console) when the buffer is empty.     *)
DataLoop ==
    /\ pc = "data"
    /\ LET td == ring[i]
           n  == Copied(rest)
           b  == buf \o SubSeq(rest, 1, n)
           full == td.tse /\ Len(b) >= dextsize
       IN  /\ rest' = SubSeq(rest, n + 1, Len(rest))
           /\ IF full \/ td.eop
              THEN Send(b, td.tse, full, IF td.tse THEN dextsize ELSE Len(b))
              ELSE buf' = b /\ UNCHANGED <<tse, out>>
    /\ IF rest' # <<>> /\ buf' # <<>>
       THEN UNCHANGED <<pc, i>>
       ELSE pc' = "fetch" /\ i' = NextIndex(i)
    /\ UNCHANGED <<guest, head, tail, csum>>

-----------------------------------------------------------------------------
Handler == Finish \/ Context \/ Legacy \/ DataStart \/ DataLoop

Next == \/ \E p \in Packet : Queue(p)
        \/ Enable
        \/ WriteTail
        \/ Finish \/ Context \/ Legacy \/ DataStart \/ DataLoop

Spec == Init /\ [][Next]_vars

(* The processor that has trapped goes on. *)
Fairness == WF_vars(Handler)

FairSpec == Spec /\ Fairness

-----------------------------------------------------------------------------
(* Indices stay in the ring, and d2->buf holds no more than its size. *)
TypeOK ==
    /\ {next, head, tail, i} \subseteq 0 .. RingLen - 1
    /\ pc \in {"idle", "fetch", "data"}
    /\ {en, csum, tse_first} \subseteq BOOLEAN
    /\ Len(buf) <= BUFSIZE
    /\ paylen \in Nat
    /\ queued \in Seq(PacketType)

(* What goes out for packet number f: itself, or its segments, each with   *)
(* the header of the packet carried on, right checksums, and FIN and PSH   *)
(* in the last one only.                                                   *)
Expected(f, p) ==
    LET all  == Cells(f, p)
        size == IF p.kind = "tse" THEN p.mss ELSE p.pay
        segs == IF p.kind = "tse" THEN Segments(p) ELSE 1
    IN  [k \in 1 .. segs |->
           LET first == (k - 1) * size
               last  == IF k = segs THEN p.pay ELSE k * size
           IN  <<[all[1] EXCEPT !.id = k - 1, !.seq = first, !.fin = (k = segs),
                                !.len = last - first, !.sum = "good"]>>
                   \o SubSeq(all, first + 2, last + 1)]

ExpectedUpto(q) ==
    LET all[n \in 0 .. Len(q)] == IF n = 0 THEN <<>> ELSE all[n - 1] \o Expected(n, q[n])
    IN  all

AllExpected == ExpectedUpto(queued)[Len(queued)]

(***************************************************************************)
(* What the guest sends goes out, packet by packet or segment by segment,  *)
(* in order, however it is cut into descriptors, and nothing is left in    *)
(* the buffer when the driver has processed all descriptors.               *)
(***************************************************************************)
EveryFrameSent ==
    /\ \E n \in 0 .. Len(AllExpected) : out = SubSeq(AllExpected, 1, n)
    /\ pc = "idle" /\ head = next => out = AllExpected /\ buf = <<>>

(* The handler of a tail write ends: the loop that goes round while cells  *)
(* of a descriptor are left makes progress each time.                      *)
HandlerEnds == pc # "idle" ~> pc = "idle"
=============================================================================
