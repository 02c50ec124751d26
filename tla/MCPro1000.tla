----------------------------- MODULE MCPro1000 -----------------------------
(***************************************************************************)
(* The four directions of the PRO/1000 driver for TLC: reception by the    *)
(* VMM (module RxRing) and its transmission (TxRing), transmission by the  *)
(* guest (GuestTx) and its reception (GuestRx).  They share d2->lock and   *)
(* no data: a behaviour exercises one of them, chosen at the start.        *)
(***************************************************************************)
EXTENDS RxRing

CONSTANTS RingLen, BUFSIZE, Packet, MaxFrames,
          Mss,         \* segment sizes that the guest asks for
          MaxPay,      \* cells of payload of a TSE packet
          MaxDescs,    \* data descriptors of a packet
          Length,      \* lengths of the frames for the guest, in cells
          SENDVIRT_MAXSIZE, GuestRing, MaxGuestFrames, MaxBatch,
          Config,      \* ways in which guests set up the card for reception
          NUM_OF_TDESC, MaxPackets

ASSUME TxAssumption == NUM_OF_TDESC \in Nat /\ NUM_OF_TDESC > 1

(* Frames of several buffers only for a guest that reads legacy            *)
(* descriptors, and no done bits in extended ones: see the README.         *)
ASSUME GuestRxAssumption ==
    /\ GuestRing \in Nat /\ GuestRing > 1
    /\ SENDVIRT_MAXSIZE \in Nat /\ Length \subseteq Nat \ {0} /\ MaxBatch \in Nat
    /\ Config \subseteq [ext : BOOLEAN, bufsize : Nat \ {0}, asize : {0, 1}, polls : BOOLEAN]
    /\ \A c \in Config : c.ext => SENDVIRT_MAXSIZE + c.asize <= c.bufsize /\ ~c.polls

VARIABLES
    dir,    \* the direction that is exercised
    ring, next, queued, txhead, txtail, en, txpc, i, rest, buf, csum,    \* GuestTx
    mss, paylen, tse_first, saved, txout,
    config, grring, grhead, grtail, nr, partial, grpc, todo, gri, grpkt, \* GuestRx
    sent, accepted, received,
    phead, ptail, pprogrammed, pbased, tbuf, ppc, ph, pt, packets, pout          \* TxRing

Tx == INSTANCE GuestTx WITH head <- txhead, tail <- txtail, pc <- txpc, out <- txout

(* The guest leaves room for a packet in d2->buf, or for a segment of it,  *)
(* each descriptor holds something, and only packets with an extended      *)
(* descriptor leave checksums to the card; TSE needs that it does.         *)
ASSUME GuestTxAssumption ==
    /\ RingLen \in Nat /\ RingLen > 1 /\ BUFSIZE \in Nat
    /\ \A p \in Packet :
         /\ p \in Tx!PacketType
         /\ p.cuts # <<>> /\ \A k \in 1 .. Len(p.cuts) : p.cuts[k] > 0
         /\ Tx!Upto(p.cuts)[Len(p.cuts)] = p.pay + 1
         /\ p.kind = "legacy" => ~p.sum
         /\ IF p.kind = "tse" THEN p.sum /\ p.pay > 0 /\ p.mss > 0 /\ p.mss < BUFSIZE
                              ELSE p.pay < BUFSIZE

(* Guests with small and large buffers that meet the assumption *)
GuestConfig ==
    {c \in [ext : BOOLEAN, bufsize : {2, 4}, asize : {0, 1}, polls : BOOLEAN] :
        ~c.ext \/ (c.bufsize = 4 /\ ~c.polls)}

Gr == INSTANCE GuestRx WITH
          RingLen <- GuestRing, MaxFrames <- MaxGuestFrames,
          ring <- grring, head <- grhead, tail <- grtail, pc <- grpc, i <- gri, pkt <- grpkt

Phys == INSTANCE TxRing WITH
            Sender <- {"sender"}, Large <- Bad, head <- phead, tail <- ptail,
            programmed <- pprogrammed, based <- pbased, pc <- ppc, h <- ph, t <- pt, out <- pout

txvars == <<ring, next, queued, txhead, txtail, en, txpc, i, rest, buf, csum,
            mss, paylen, tse_first, saved, txout>>

(* Packets cut into descriptors in every way.  Those without TSE fit into   *)
(* BUFSIZE.                                                                 *)
Ends(n, k) == {e \in [0 .. k -> 0 .. n] : /\ e[0] = 0 /\ e[k] = n
                                          /\ \A j \in 1 .. k : e[j - 1] < e[j]}

Cuts(n) == UNION {{[j \in 1 .. k |-> e[j] - e[j - 1]] : e \in Ends(n, k)} : k \in 1 .. MaxDescs}

PacketsOf(kind, size, sizes, sums) ==
    UNION {[kind : {kind}, pay : {p}, mss : sizes, sum : sums, cuts : Cuts(p + 1)]
             : p \in 1 .. size}

AnyPacket == PacketsOf("legacy", BUFSIZE - 1, {1}, {FALSE})
                \cup PacketsOf("data", BUFSIZE - 1, {1}, BOOLEAN)
                \cup PacketsOf("tse", MaxPay, Mss, {TRUE})

(* The last descriptor brings only cells of the last segment, and the      *)
(* buffer does not hold two segments.                                      *)
Tidy(p) == p.kind = "tse" =>
    /\ p.cuts[Len(p.cuts)] <= p.pay - ((p.pay + p.mss - 1) \div p.mss - 1) * p.mss
    /\ 2 * p.mss >= BUFSIZE

TidyPacket == {p \in AnyPacket : Tidy(p)}

grvars == <<config, grring, grhead, grtail, nr, partial, grpc, todo, gri, grpkt,
            sent, accepted, received>>
pvars == <<phead, ptail, pprogrammed, pbased, tbuf, ppc, ph, pt, packets, pout>>

(* The directions that are not exercised do not move. *)
MCInit ==
    /\ dir \in {"rx", "tx", "guestrx", "phys"}
    /\ Init /\ Tx!Init /\ Gr!Init /\ Phys!Init
    /\ dir # "tx" => en
    /\ dir # "guestrx" => config = CHOOSE c \in Config : TRUE

MCNext ==
    /\ UNCHANGED dir
    /\ dir # "rx" => UNCHANGED vars
    /\ dir # "tx" => UNCHANGED txvars
    /\ dir # "guestrx" => UNCHANGED grvars
    /\ dir # "phys" => UNCHANGED pvars
    /\ \/ dir = "rx" /\ Next
       \/ dir = "tx" /\ Tx!Next
       \/ dir = "guestrx" /\ Gr!Next
       \/ dir = "phys" /\ Phys!Next

(* The fairness of the direction that is exercised *)
MCFairness == WF_vars(dir = "rx" /\ Driver) /\ Tx!Fairness

MCSpec == MCInit /\ [][MCNext]_<<dir, vars, txvars, grvars, pvars>> /\ MCFairness

-----------------------------------------------------------------------------
(* What the guest sends goes out completely, in order and correctly cut     *)
(* into segments.                                                           *)
EveryFrameSent == Tx!EveryFrameSent

(* A write to the tail register does not hang the guest. *)
HandlerEnds == Tx!HandlerEnds

(* The guest gets what sendvirt() has accepted, whole and in order. *)
WholeFrames == Gr!WholeFrames

(* What the VMM sends goes out once, unchanged and in order. *)
SentInOrder == Phys!SentInOrder
=============================================================================
