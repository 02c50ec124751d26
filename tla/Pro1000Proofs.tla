---------------------------- MODULE Pro1000Proofs ----------------------------
(***************************************************************************)
(* Proofs for the descriptor rings of the PRO/1000 driver, for rings of    *)
(* every size: the card does not write to a buffer that the driver is      *)
(* using, every good frame is handed over once and in order (module        *)
(* RxRing), what send_physnic() puts into the ring goes out once,          *)
(* unchanged and in order (module TxRing), the guest gets whole frames     *)
(* (module GuestRx), and what the guest sends goes out in order, cut into  *)
(* the segments it has asked for (module GuestTx).                         *)
(***************************************************************************)
EXTENDS MCPro1000, Lemmas

-----------------------------------------------------------------------------
(* Distances around a ring, without a remainder *)
Distance(a, j, n) == IF j >= a THEN j - a ELSE j - a + n

LEMMA DistanceIs ==
  ASSUME NEW n \in Nat \ {0}, NEW a \in 0 .. n - 1, NEW j \in 0 .. n - 1
  PROVE  (j - a) % n = Distance(a, j, n) /\ Distance(a, j, n) \in 0 .. n - 1
  <1>1. CASE j >= a
    <2>1. j - a \in 0 .. n - 1
      BY <1>1
    <2>2. (j - a) % n = j - a
      BY <2>1, SmallRemainder
    <2> QED BY <1>1, <2>1, <2>2 DEF Distance
  <1>2. CASE j < a
    <2>1. n - (a - j) \in 0 .. n - 1 /\ n * (-1) + (n - (a - j)) = j - a
      BY <1>2
    <2>2. (n * (-1) + (n - (a - j))) % n = n - (a - j)
      <3>1. PICK k \in Int : k = -1
        OBVIOUS
      <3>2. (n * k + (n - (a - j))) % n = n - (a - j)
        BY <2>1, Remainder
      <3> QED BY <3>1, <3>2
    <2> QED BY <1>2, <2>1, <2>2 DEF Distance
  <1> QED BY <1>1, <1>2

-----------------------------------------------------------------------------
(***************************************************************************)
(* Reception.  Ahead(x) counts descriptors from the one behind register    *)
(* tail on.  On the way around the ring the driver comes first, then where *)
(* it stops, then the card; the card stops at tail, the last of all.       *)
(***************************************************************************)
N == NUM_OF_RDESC

Ahead(x) == IF x > tail THEN x - tail - 1 ELSE x - tail - 1 + N

(* What the card has filled and the driver has not given back holds frames. *)
FilledInv ==
    programmed => \A x \in Desc : Ahead(x) < Ahead(head) => rbuf[x] \in Frame

RxInv ==
    /\ TypeOK
    /\ FilledInv
    /\ pc # "idle" => programmed
    /\ pc # "idle" =>
          /\ Ahead(NextDesc(t)) <= Ahead(h) /\ Ahead(h) <= Ahead(head)
          /\ \A k \in 1 .. Len(pkt) : Ahead(pkt[k]) < Ahead(NextDesc(t))
    /\ pc = "take" => h # NextDesc(t)

LEMMA RingFacts ==
  /\ N \in Nat /\ N > 1 /\ Desc = 0 .. N - 1 /\ N = NUM_OF_RDESC
  /\ 0 \in Desc /\ N - 1 \in Desc
  /\ \A x \in Desc : NextDesc(x) \in Desc
  /\ \A x \in Desc : NextDesc(x) = IF x = N - 1 THEN 0 ELSE x + 1
  BY RxAssumption DEF N, Desc, NextDesc

LEMMA AheadFacts ==
  ASSUME tail \in Desc
  PROVE  /\ \A x \in Desc : Ahead(x) \in 0 .. N - 1
         /\ \A x, y \in Desc : Ahead(x) = Ahead(y) => x = y
         /\ \A x \in Desc : x # tail => Ahead(NextDesc(x)) = Ahead(x) + 1 /\ Ahead(x) < N - 1
         /\ Ahead(NextDesc(tail)) = 0
         /\ Ahead(tail) = N - 1
  <1>1. tail \in 0 .. N - 1 /\ N \in Nat /\ N > 1
    BY RingFacts
  <1>2. \A x \in 0 .. N - 1 : Ahead(x) \in 0 .. N - 1
    BY <1>1 DEF Ahead
  <1>3. \A x, y \in 0 .. N - 1 : Ahead(x) = Ahead(y) => x = y
    BY <1>1 DEF Ahead
  <1>4. ASSUME NEW x \in 0 .. N - 1, x # tail
        PROVE  Ahead(NextDesc(x)) = Ahead(x) + 1 /\ Ahead(x) < N - 1
    <2>1. NextDesc(x) = IF x = N - 1 THEN 0 ELSE x + 1
      BY RingFacts
    <2> QED BY <1>1, <1>4, <2>1 DEF Ahead
  <1>5. Ahead(NextDesc(tail)) = 0
    <2>1. NextDesc(tail) = IF tail = N - 1 THEN 0 ELSE tail + 1
      BY RingFacts
    <2> QED BY <1>1, <2>1 DEF Ahead
  <1>6. Ahead(tail) = N - 1
    BY <1>1 DEF Ahead
  <1> QED BY <1>2, <1>3, <1>4, <1>5, <1>6, RingFacts

(* Between(a, j), in the same count, as long as the way does not pass tail *)
LEMMA BetweenIs ==
  ASSUME tail \in Desc, NEW a \in Desc, NEW j \in Desc, NEW d \in Between(a, j), Ahead(a) <= Ahead(j)
  PROVE  d \in Desc /\ Ahead(a) <= Ahead(d) /\ Ahead(d) < Ahead(j)
  <1>1. d \in Desc /\ (d - a) % N < (j - a) % N
    BY DEF Between, N
  <1>2. N \in Nat \ {0} /\ a \in 0 .. N - 1 /\ j \in 0 .. N - 1 /\ d \in 0 .. N - 1 /\ tail \in 0 .. N - 1
    BY <1>1, RingFacts
  <1>3. (d - a) % N = Distance(a, d, N) /\ (j - a) % N = Distance(a, j, N)
    BY <1>2, DistanceIs
  <1>4. Distance(a, d, N) < Distance(a, j, N)
    BY <1>1, <1>3
  <1> HIDE DEF N
  <1> QED BY <1>1, <1>2, <1>4 DEF Distance, Ahead

LEMMA RxInit == Init => RxInv
  <1> SUFFICES ASSUME Init PROVE RxInv
    OBVIOUS
  <1>1. TypeOK
    <2>1. head \in Desc /\ tail \in Desc /\ h \in Desc /\ t \in Desc
      BY RingFacts DEF Init
    <2>2. rbuf \in [Desc -> Frame \cup {NoFrame}]
      BY DEF Init
    <2> QED BY <2>1, <2>2 DEF Init, TypeOK
  <1>2. Ahead(head) = 0 /\ tail \in Desc
    <2>1. head = 0 /\ tail = N - 1 /\ N \in Nat /\ N > 1
      BY RingFacts DEF Init
    <2> QED BY <2>1, RingFacts DEF Ahead
  <1>3. FilledInv
    BY <1>2, AheadFacts, RingFacts DEF FilledInv
  <1> QED BY <1>1, <1>3 DEF Init, RxInv

LEMMA RxStep == RxInv /\ [Next]_vars => RxInv'
  <1> SUFFICES ASSUME RxInv, [Next]_vars PROVE RxInv'
    OBVIOUS
  <1>1. /\ TypeOK /\ FilledInv
        /\ tail \in Desc /\ head \in Desc /\ t \in Desc /\ h \in Desc /\ pkt \in Seq(Desc)
        /\ rbuf \in [Desc -> Frame \cup {NoFrame}]
    BY DEF RxInv, TypeOK
  <1>2. CASE \E f \in Frame : HwReceive(f)
    <2>1. PICK f \in Frame : HwReceive(f)
      BY <1>2
    <2>2. /\ head # tail /\ head' = NextDesc(head) /\ programmed
          /\ rbuf' = [rbuf EXCEPT ![head] = f]
          /\ UNCHANGED <<tail, programmed, pc, h, t, pkt, out>>
      BY <2>1 DEF HwReceive
    <2>3. TypeOK'
      BY <1>1, <2>2, RingFacts DEF TypeOK
    <2>4. Ahead(head') = Ahead(head) + 1 /\ Ahead(head) \in Int /\ Ahead(h) \in Int
      BY <1>1, <2>2, AheadFacts
    <2>5. \A x : Ahead(x)' = Ahead(x)
      BY <2>2 DEF Ahead
    <2>6. Ahead(head)' = Ahead(head) + 1
      BY <2>2, <2>4 DEF Ahead
    <2>7. Ahead(h)' = Ahead(h) /\ Ahead(NextDesc(t))' = Ahead(NextDesc(t))
      BY <2>2 DEF Ahead
    <2>8. FilledInv'
      <3> SUFFICES ASSUME NEW x \in Desc, Ahead(x) < Ahead(head) + 1 PROVE rbuf'[x] \in Frame
        BY <2>5, <2>6 DEF FilledInv
      <3>1. CASE x = head
        BY <1>1, <2>2, <3>1
      <3>2. CASE x # head
        <4>1. Ahead(x) # Ahead(head) /\ Ahead(x) \in Int
          BY <1>1, <3>2, AheadFacts
        <4>2. Ahead(x) < Ahead(head)
          BY <2>4, <4>1
        <4> QED BY <1>1, <2>2, <3>2, <4>2 DEF FilledInv
      <3> QED BY <3>1, <3>2
    <2> QED BY <2>2, <2>3, <2>4, <2>5, <2>6, <2>7, <2>8 DEF RxInv
  <1>3. CASE HwReset
    <2>1. /\ pc' = "idle" /\ head' = 0 /\ tail' = 0 /\ programmed' = FALSE
          /\ UNCHANGED <<rbuf, pc, h, t, pkt, out>>
      BY <1>3 DEF HwReset
    <2>2. TypeOK'
      BY <1>1, <2>1, RingFacts DEF TypeOK
    <2> QED BY <2>1, <2>2 DEF RxInv, FilledInv
  <1>4. CASE receive_physnic
    <2>1. TypeOK'
      <3>1. head' \in Desc /\ tail' \in Desc /\ programmed' \in BOOLEAN
        BY <1>1, <1>4, RingFacts DEF receive_physnic, write_mydesc, TypeOK
      <3> QED BY <1>1, <1>4, <3>1 DEF receive_physnic, TypeOK
    <2>2. /\ h' = head' /\ t' = tail' /\ pkt' = <<>> /\ pc' = "loop" /\ programmed' /\ rbuf' = rbuf
          /\ \/ programmed /\ head' = head /\ tail' = tail
             \/ head' = 0 /\ tail' = N - 1
      BY <1>4 DEF receive_physnic, write_mydesc, N
    <2>3. tail' \in Desc /\ head' \in Desc
      BY <2>1 DEF TypeOK
    <2>4. Ahead(head)' \in 0 .. N - 1 /\ Ahead(h)' = Ahead(head)'
      <3>1. tail' \in 0 .. N - 1 /\ head' \in 0 .. N - 1 /\ N \in Nat
        BY <2>3, RingFacts
      <3>2. Ahead(head)' \in 0 .. N - 1
        <4>1. Ahead(head)' = IF head' > tail' THEN head' - tail' - 1 ELSE head' - tail' - 1 + N
          BY DEF Ahead, N
        <4>2. \A x, y \in 0 .. N - 1 : (IF x > y THEN x - y - 1 ELSE x - y - 1 + N) \in 0 .. N - 1
          BY <3>1
        <4> QED BY <3>1, <4>1, <4>2
      <3>3. Ahead(h)' = Ahead(head)'
        BY <2>2 DEF Ahead
      <3> QED BY <3>2, <3>3
    <2>5. Ahead(NextDesc(t))' = 0
      BY <2>2, <2>3, RingFacts DEF Ahead
    <2>6. FilledInv'
      <3>1. CASE programmed /\ head' = head /\ tail' = tail
        BY <1>1, <2>2, <3>1 DEF FilledInv, Ahead
      <3>2. CASE head' = 0 /\ tail' = N - 1
        <4>1. \A x \in Desc : ~(Ahead(x)' < Ahead(head)')
          BY <3>2, RingFacts DEF Ahead
        <4> QED BY <4>1 DEF FilledInv
      <3> QED BY <2>2, <3>1, <3>2
    <2> QED BY <2>1, <2>2, <2>4, <2>5, <2>6 DEF RxInv
  <1>5. CASE TakeDesc
    <2>1. /\ pc = "take" \/ (pc = "loop" /\ ~HandOver)
          /\ t' = NextDesc(t) /\ pkt' = Collect(NextDesc(t)) /\ pc' = "loop"
          /\ UNCHANGED <<head, tail, programmed, rbuf, h, out>>
      BY <1>5 DEF TakeDesc, MoveOn
    <2>2. h # NextDesc(t) /\ NextDesc(t) \in Desc
      BY <1>1, <2>1, RingFacts DEF HandOver, RxInv
    <2>3. /\ Ahead(NextDesc(t)) < Ahead(h) /\ Ahead(h) <= Ahead(head)
          /\ Ahead(NextDesc(t)) \in 0 .. N - 1 /\ Ahead(h) \in 0 .. N - 1
      BY <1>1, <2>1, <2>2, AheadFacts DEF RxInv
    <2>4. NextDesc(t) # tail
      BY <1>1, <2>2, <2>3, AheadFacts, RingFacts
    <2>5. Ahead(NextDesc(NextDesc(t))) = Ahead(NextDesc(t)) + 1
      BY <1>1, <2>2, <2>4, AheadFacts
    <2>6. /\ \A x : Ahead(x)' = Ahead(x)
          /\ Ahead(h)' = Ahead(h) /\ Ahead(head)' = Ahead(head)
          /\ Ahead(NextDesc(t))' = Ahead(NextDesc(NextDesc(t)))
      BY <2>1 DEF Ahead
    <2>7. /\ pkt' \in Seq(Desc)
          /\ \A k \in 1 .. Len(pkt') : \/ k \in 1 .. Len(pkt) /\ pkt'[k] = pkt[k]
                                       \/ pkt'[k] = NextDesc(t)
      BY <1>1, <2>1, <2>2 DEF Collect
    <2>8. \A k \in 1 .. Len(pkt') : Ahead(pkt'[k]) < Ahead(NextDesc(t)) + 1
      <3>1. \A k \in 1 .. Len(pkt) : pkt[k] \in Desc
        BY <1>1, ElementOf
      <3>2. \A k \in 1 .. Len(pkt) : Ahead(pkt[k]) < Ahead(NextDesc(t)) /\ Ahead(pkt[k]) \in 0 .. N - 1
        BY <1>1, <2>1, <3>1, AheadFacts DEF RxInv
      <3> QED BY <2>3, <2>7, <3>2
    <2>9. TypeOK'
      BY <1>1, <2>1, <2>2, <2>7 DEF TypeOK
    <2>10. (\A k \in 1 .. Len(pkt) : Ahead(pkt[k]) < Ahead(NextDesc(t)))'
      BY <2>5, <2>6, <2>8
    <2>11. FilledInv' /\ (pc # "idle" => programmed)'
      BY <1>1, <2>1, <2>6 DEF FilledInv, RxInv
    <2> QED BY <2>1, <2>3, <2>5, <2>6, <2>9, <2>10, <2>11 DEF RxInv
  <1>6. CASE CallRecv
    <2>1. /\ pc = "loop" /\ pkt' = <<>> /\ pc' = (IF h = NextDesc(t) THEN "done" ELSE "take")
          /\ out' = [k \in 1 .. Len(pkt) |-> rbuf[pkt[k]]]
          /\ UNCHANGED <<head, tail, programmed, rbuf, h, t>>
      BY <1>6 DEF CallRecv
    <2>2. /\ Ahead(NextDesc(t)) <= Ahead(h) /\ Ahead(h) <= Ahead(head) /\ programmed
          /\ \A k \in 1 .. Len(pkt) : Ahead(pkt[k]) < Ahead(NextDesc(t))
      BY <2>1 DEF RxInv
    <2>3. \A k \in 1 .. Len(pkt) : pkt[k] \in Desc
      BY <1>1, ElementOf
    <2>4. \A k \in 1 .. Len(pkt) : Ahead(pkt[k]) < Ahead(head)
      <3>1. NextDesc(t) \in Desc
        BY <1>1, RingFacts
      <3>2. /\ Ahead(NextDesc(t)) \in Int /\ Ahead(h) \in Int /\ Ahead(head) \in Int
            /\ \A k \in 1 .. Len(pkt) : Ahead(pkt[k]) \in Int
        BY <1>1, <2>3, <3>1, AheadFacts
      <3> QED BY <2>2, <3>2
    <2>5. \A k \in 1 .. Len(pkt) : rbuf[pkt[k]] \in Frame
      BY <1>1, <2>2, <2>3, <2>4 DEF FilledInv
    <2>6. out' \in Seq(Frame)
      <3>1. out' \in [1 .. Len(pkt) -> Frame] /\ Len(pkt) \in Nat
        BY <1>1, <2>1, <2>5
      <3> QED BY <3>1, SequenceOf
    <2>7. TypeOK'
      BY <1>1, <2>1, <2>6 DEF TypeOK
    <2>8. /\ Ahead(h)' = Ahead(h) /\ Ahead(head)' = Ahead(head)
          /\ Ahead(NextDesc(t))' = Ahead(NextDesc(t)) /\ Len(pkt') = 0
      BY <2>1 DEF Ahead
    <2>9. FilledInv'
      BY <1>1, <2>1 DEF FilledInv, Ahead
    <2> QED BY <2>1, <2>2, <2>7, <2>8, <2>9 DEF RxInv
  <1>7. CASE ReturnDesc
    <2>1. /\ pc = "done" /\ tail' = t /\ pc' = "idle"
          /\ UNCHANGED <<head, programmed, rbuf, h, t, pkt, out>>
      BY <1>7 DEF ReturnDesc
    <2>2. Ahead(NextDesc(t)) <= Ahead(head)
      <3>1. NextDesc(t) \in Desc
        BY <1>1, RingFacts
      <3>2. Ahead(NextDesc(t)) \in Int /\ Ahead(h) \in Int /\ Ahead(head) \in Int
        BY <1>1, <3>1, AheadFacts
      <3> QED BY <2>1, <3>2 DEF RxInv
    <2>3. \A x \in Desc : Ahead(x)' < Ahead(head)' => Ahead(x) < Ahead(head)
      <3>1. /\ tail \in 0 .. N - 1 /\ head \in 0 .. N - 1 /\ t \in 0 .. N - 1 /\ N \in Nat /\ N > 1
            /\ NextDesc(t) = IF t = N - 1 THEN 0 ELSE t + 1
        BY <1>1, RingFacts
      <3> SUFFICES ASSUME NEW x \in 0 .. N - 1, Ahead(x)' < Ahead(head)' PROVE Ahead(x) < Ahead(head)
        BY RingFacts
      <3> QED BY <2>1, <2>2, <3>1 DEF Ahead
    <2>4. FilledInv'
      BY <1>1, <2>1, <2>3 DEF FilledInv
    <2> QED BY <1>1, <2>1, <2>4 DEF RxInv, TypeOK
  <1>8. CASE UNCHANGED vars
    BY <1>8 DEF vars, RxInv, TypeOK, FilledInv, Ahead
  <1> QED BY <1>2, <1>3, <1>4, <1>5, <1>6, <1>7, <1>8 DEF Next

LEMMA RxSafe == RxInv => NoOverwrite
  <1> SUFFICES ASSUME RxInv, pc \in {"loop", "take"},
                      NEW d \in Between(head, tail),
                      d \in {pkt[k] : k \in 1 .. Len(pkt)} \cup Between(NextDesc(t), h)
               PROVE  FALSE
    BY DEF NoOverwrite
  <1>1. /\ tail \in Desc /\ head \in Desc /\ t \in Desc /\ h \in Desc /\ pkt \in Seq(Desc)
    BY DEF RxInv, TypeOK
  <1>2. NextDesc(t) \in Desc
    BY <1>1, RingFacts
  <1>3. /\ Ahead(NextDesc(t)) <= Ahead(h) /\ Ahead(h) <= Ahead(head)
        /\ \A k \in 1 .. Len(pkt) : Ahead(pkt[k]) < Ahead(NextDesc(t))
    BY DEF RxInv
  <1>4. /\ Ahead(NextDesc(t)) \in Int /\ Ahead(h) \in Int /\ Ahead(head) \in 0 .. N - 1
        /\ Ahead(tail) = N - 1
    BY <1>1, <1>2, AheadFacts
  <1>5. Ahead(head) <= Ahead(d) /\ d \in Desc
    <2>1. Ahead(head) <= Ahead(tail)
      BY <1>4, RingFacts
    <2> QED BY <1>1, <2>1, BetweenIs
  <1>6. Ahead(d) \in Int
    BY <1>1, <1>5, AheadFacts
  <1>7. CASE d \in Between(NextDesc(t), h)
    <2>1. Ahead(d) < Ahead(h)
      BY <1>1, <1>2, <1>3, <1>7, BetweenIs
    <2> QED BY <1>3, <1>4, <1>5, <1>6, <2>1
  <1>8. CASE \E k \in 1 .. Len(pkt) : d = pkt[k]
    BY <1>3, <1>4, <1>5, <1>6, <1>8
  <1> QED BY <1>7, <1>8

LEMMA RxAlways == Spec => []RxInv
  BY RxInit, RxStep, PTL DEF Spec

(* receive_physnic(): for every size of ring and of batch, the card never  *)
(* writes to a buffer that the driver has collected or has still to look   *)
(* at.                                                                     *)
THEOREM CardKeepsOff == Spec => []NoOverwrite
  BY RxAlways, RxSafe, PTL

(* Types; among them, that recvphys_func is called with buffers that hold  *)
(* a frame only, never with one that the card has not written yet.         *)
THEOREM RxTypes == Spec => []TypeOK
  <1>1. RxInv => TypeOK
    BY DEF RxInv
  <1> QED BY <1>1, RxAlways, PTL

-----------------------------------------------------------------------------
(***************************************************************************)
(* Reception implements a queue.  Between(r, j) as a sequence: the buffers *)
(* behind descriptor r, up to and not including descriptor j.              *)
(***************************************************************************)
Gap(r, j) == IF j > r THEN j - r - 1 ELSE j - r - 1 + N
Place(r, k) == IF r + k < N THEN r + k ELSE r + k - N
Contents(r, j, b) == [k \in 1 .. Gap(r, j) |-> b[Place(r, k)]]

Good == Frame \ Bad
Buffer == Frame \cup {NoFrame}

Picked(p, b) == [k \in 1 .. Len(p) |-> b[p[k]]]
Held(on, r, j, b) == IF on THEN Contents(r, j, b) ELSE <<>>
Wait(on, r, j, p, b) == Picked(p, b) \o Only(Held(on, r, j, b), Good)

LEMMA GapIs ==
  ASSUME NEW r \in Desc, NEW j \in Desc
  PROVE  (j - r - 1) % N = Gap(r, j) /\ Gap(r, j) \in 0 .. N - 1
  <1>1. N \in Nat \ {0} /\ r \in 0 .. N - 1 /\ j \in 0 .. N - 1
    BY RingFacts
  <1> HIDE DEF N
  <1>2. CASE j > r
    <2>1. j - r - 1 \in 0 .. N - 1
      BY <1>1, <1>2
    <2>2. (j - r - 1) % N = j - r - 1
      BY <1>1, <2>1, SmallRemainder
    <2> QED BY <1>2, <2>1, <2>2 DEF Gap
  <1>3. CASE ~(j > r)
    <2>1. PICK x \in 0 .. N - 1 : x = j - r - 1 + N
      BY <1>1, <1>3
    <2>2. PICK k \in Int : k = -1
      OBVIOUS
    <2>3. (N * k + x) % N = x
      BY <1>1, Remainder
    <2>4. N * k + x = j - r - 1
      BY <1>1, <2>1, <2>2
    <2> QED BY <1>3, <2>1, <2>3, <2>4 DEF Gap
  <1> QED BY <1>2, <1>3

LEMMA PlaceIs ==
  ASSUME NEW r \in Desc, NEW k \in 1 .. N
  PROVE  (r + k) % N = Place(r, k) /\ Place(r, k) \in Desc
  <1>1. N \in Nat \ {0} /\ Desc = 0 .. N - 1 /\ r \in 0 .. N - 1
    BY RingFacts
  <1> HIDE DEF N, Desc
  <1>2. CASE r + k < N
    <2>1. r + k \in 0 .. N - 1
      BY <1>1, <1>2
    <2>2. (r + k) % N = r + k
      BY <1>1, <2>1, SmallRemainder
    <2> QED BY <1>1, <1>2, <2>1, <2>2 DEF Place
  <1>3. CASE ~(r + k < N)
    <2>1. PICK x \in 0 .. N - 1 : x = r + k - N
      BY <1>1, <1>3
    <2>2. (x + N) % N = x
      BY <1>1, OneTurnRemainder
    <2>3. x + N = r + k
      BY <1>1, <2>1
    <2> QED BY <1>1, <1>3, <2>1, <2>2, <2>3 DEF Place
  <1> QED BY <1>2, <1>3

LEMMA ContentsIs ==
  ASSUME NEW r \in Desc, NEW j \in Desc, NEW b
  PROVE  [k \in 1 .. (j - r - 1) % NUM_OF_RDESC |-> b[(r + k) % NUM_OF_RDESC]] = Contents(r, j, b)
  <1>1. (j - r - 1) % N = Gap(r, j) /\ Gap(r, j) \in 0 .. N - 1 /\ N \in Nat
    BY GapIs, RingFacts
  <1>2. \A k \in 1 .. Gap(r, j) : (r + k) % N = Place(r, k)
    <2>1. \A k \in 1 .. Gap(r, j) : k \in 1 .. N
      BY <1>1
    <2> QED BY <2>1, PlaceIs
  <1>3. [k \in 1 .. (j - r - 1) % N |-> b[(r + k) % N]] = Contents(r, j, b)
    BY <1>1, <1>2 DEF Contents
  <1> QED BY <1>3 DEF N

LEMMA ContentsType ==
  ASSUME NEW r \in Desc, NEW j \in Desc, NEW b \in [Desc -> Buffer]
  PROVE  Contents(r, j, b) \in Seq(Buffer) /\ Len(Contents(r, j, b)) = Gap(r, j) /\ Gap(r, j) \in Nat
  <1>1. Gap(r, j) \in 0 .. N - 1 /\ N \in Nat
    BY GapIs, RingFacts
  <1>2. \A k \in 1 .. Gap(r, j) : Place(r, k) \in Desc
    <2>1. \A k \in 1 .. Gap(r, j) : k \in 1 .. N
      BY <1>1
    <2> QED BY <2>1, PlaceIs
  <1>3. Contents(r, j, b) \in [1 .. Gap(r, j) -> Buffer]
    BY <1>2 DEF Contents
  <1>4. Gap(r, j) \in Nat
    BY <1>1
  <1>5. PICK g \in Nat : g = Gap(r, j)
    BY <1>4
  <1>6. PICK c \in [1 .. g -> Buffer] : c = Contents(r, j, b)
    BY <1>3, <1>5
  <1>7. c \in Seq(Buffer) /\ Len(c) = g
    BY SequenceOf
  <1> QED BY <1>5, <1>6, <1>7

(* The card fills descriptor j. *)
LEMMA ContentsMore ==
  ASSUME NEW r \in Desc, NEW j \in Desc, NEW b \in [Desc -> Buffer], NEW f \in Buffer, j # r
  PROVE  Contents(r, NextDesc(j), [b EXCEPT ![j] = f]) = Append(Contents(r, j, b), f)
  <1> DEFINE c == [b EXCEPT ![j] = f]
             g == Gap(r, j)
             w == Contents(r, j, b)
  <1>1. N \in Nat /\ N > 1 /\ r \in 0 .. N - 1 /\ j \in 0 .. N - 1 /\ Desc = 0 .. N - 1
        /\ NextDesc(j) = IF j = N - 1 THEN 0 ELSE j + 1
    BY RingFacts
  <1>2. Gap(r, NextDesc(j)) = g + 1
    BY <1>1 DEF Gap
  <1>3. Place(r, g + 1) = j
    BY <1>1 DEF Gap, Place
  <1>4. \A k \in 1 .. g : Place(r, k) # j
    BY <1>1 DEF Gap, Place
  <1>5. g \in 0 .. N - 1 /\ w \in Seq(Buffer) /\ Len(w) = g /\ g \in Nat
    BY GapIs, ContentsType
  <1>6. w = [k \in 1 .. g |-> b[Place(r, k)]]
    BY DEF Contents
  <1>7. Contents(r, NextDesc(j), c) = [k \in 1 .. g + 1 |-> c[Place(r, k)]]
    BY <1>2 DEF Contents
  <1>8. \A k \in 1 .. g : Place(r, k) \in Desc
    <2>1. \A k \in 1 .. g : k \in 1 .. N
      BY <1>1, <1>5
    <2> QED BY <2>1, PlaceIs
  <1>9. \A k \in 1 .. g : c[Place(r, k)] = w[k]
    BY <1>4, <1>6, <1>8
  <1>10. c[Place(r, g + 1)] = f
    BY <1>3
  <1> HIDE DEF c, g, w
  <1>11. \A k \in 1 .. g + 1 : c[Place(r, k)] = IF k = g + 1 THEN f ELSE w[k]
    <2> SUFFICES ASSUME NEW k \in 1 .. g + 1 PROVE c[Place(r, k)] = IF k = g + 1 THEN f ELSE w[k]
      OBVIOUS
    <2>1. k = g + 1 \/ k \in 1 .. g
      BY <1>5
    <2>2. k \in 1 .. g => k # g + 1
      BY <1>5
    <2> QED BY <1>9, <1>10, <2>1, <2>2
  <1>12. Append(w, f) = [k \in 1 .. g + 1 |-> IF k = g + 1 THEN f ELSE w[k]]
    BY <1>5, <1>6
  <1>13. Contents(r, NextDesc(j), c) = Append(w, f)
    BY <1>7, <1>11, <1>12
  <1> QED BY <1>13 DEF c, w

(* The driver goes on to the descriptor behind r. *)
LEMMA ContentsLess ==
  ASSUME NEW r \in Desc, NEW j \in Desc, NEW b, j # NextDesc(r)
  PROVE  /\ Gap(r, j) = Gap(NextDesc(r), j) + 1
         /\ Contents(r, j, b)[1] = b[NextDesc(r)]
         /\ \A k \in 1 .. Gap(NextDesc(r), j) :
               Contents(r, j, b)[k + 1] = Contents(NextDesc(r), j, b)[k]
  <1>1. N \in Nat /\ N > 1 /\ r \in 0 .. N - 1 /\ j \in 0 .. N - 1
        /\ NextDesc(r) = IF r = N - 1 THEN 0 ELSE r + 1
    BY RingFacts
  <1>2. PICK x \in 0 .. N - 1 : x = NextDesc(r)
    BY <1>1
  <1>3. Gap(r, j) = Gap(x, j) + 1 /\ Gap(x, j) \in Nat
    BY <1>1, <1>2 DEF Gap
  <1>4. Place(r, 1) = x
    BY <1>1, <1>2 DEF Place
  <1>5. \A k \in 1 .. Gap(x, j) : Place(r, k + 1) = Place(x, k)
    BY <1>1, <1>2 DEF Place, Gap
  <1>6. 1 \in 1 .. Gap(r, j) /\ \A k \in 1 .. Gap(x, j) : k + 1 \in 1 .. Gap(r, j)
    BY <1>3
  <1>7. Contents(r, j, b)[1] = b[x]
    BY <1>4, <1>6 DEF Contents
  <1>8. \A k \in 1 .. Gap(x, j) : Contents(r, j, b)[k + 1] = Contents(x, j, b)[k]
    BY <1>5, <1>6 DEF Contents
  <1> QED BY <1>2, <1>3, <1>7, <1>8

(***************************************************************************)
(* What the operations of the ring do to the frames that wait              *)
(***************************************************************************)
LEMMA PickedType ==
  ASSUME NEW p \in Seq(Desc), NEW b \in [Desc -> Buffer]
  PROVE  Picked(p, b) \in Seq(Buffer) /\ Len(Picked(p, b)) = Len(p)
  <1>1. PICK n \in Nat : n = Len(p)
    OBVIOUS
  <1>2. \A k \in 1 .. n : p[k] \in Desc
    BY <1>1, ElementOf
  <1>3. Picked(p, b) \in [1 .. n -> Buffer]
    BY <1>1, <1>2 DEF Picked
  <1>4. PICK c \in [1 .. n -> Buffer] : c = Picked(p, b)
    BY <1>3
  <1>5. c \in Seq(Buffer) /\ Len(c) = n
    BY SequenceOf
  <1> QED BY <1>1, <1>4, <1>5

LEMMA HeldType ==
  ASSUME NEW on, NEW r \in Desc, NEW j \in Desc, NEW b \in [Desc -> Buffer]
  PROVE  /\ Held(on, r, j, b) \in Seq(Buffer)
         /\ Only(Held(on, r, j, b), Good) \in Seq(Buffer)
  <1>1. Held(on, r, j, b) \in Seq(Buffer)
    BY ContentsType DEF Held
  <1>2. PICK s \in Seq(Buffer) : s = Held(on, r, j, b)
    BY <1>1
  <1>3. Only(s, Good) \in Seq(Good)
    BY OnlyRecurs
  <1>4. PICK u \in Seq(Good) : u = Only(s, Good)
    BY <1>3
  <1>5. Good \subseteq Buffer
    BY DEF Good, Buffer
  <1>6. u \in Seq(Buffer)
    BY <1>5, Widen
  <1> QED BY <1>1, <1>2, <1>4, <1>6

(* The three ways in which what waits changes *)
Gets(r, j, p, b, f) ==
    Wait(TRUE, r, NextDesc(j), p, [b EXCEPT ![j] = f])
        = IF f \in Good THEN Append(Wait(TRUE, r, j, p, b), f) ELSE Wait(TRUE, r, j, p, b)

Keeps(r, j, p, b, p1) == Wait(TRUE, NextDesc(r), j, p1, b) = Wait(TRUE, r, j, p, b)

Gives(w, n, d, left) ==
    n <= Len(w) /\ d = SubSeq(w, 1, n) /\ left = SubSeq(w, n + 1, Len(w))

(* Nothing waits. *)
LEMMA WaitNothing ==
  ASSUME NEW on, NEW r, NEW j, NEW b, on => Gap(r, j) = 0
  PROVE  Wait(on, r, j, <<>>, b) = <<>>
  <1>1. Held(on, r, j, b) = <<>>
    BY DEF Held, Contents
  <1>2. Only(Held(on, r, j, b), Good) = <<>>
    BY <1>1, OnlyEmpty
  <1>3. Picked(<<>>, b) = <<>>
    BY DEF Picked
  <1>4. <<>> \o <<>> = <<>>
    OBVIOUS
  <1> QED BY <1>2, <1>3, <1>4 DEF Wait

(* The card stores a frame. *)
LEMMA WaitMore ==
  ASSUME NEW r \in Desc, NEW j \in Desc, NEW p \in Seq(Desc), NEW b \in [Desc -> Buffer],
         NEW f \in Frame, j # r, \A k \in 1 .. Len(p) : p[k] # j
  PROVE  Gets(r, j, p, b, f)
  <1>0. f \in Buffer
    BY DEF Buffer
  <1>1. PICK c : c = [b EXCEPT ![j] = f]
    OBVIOUS
  <1>2. Picked(p, c) = Picked(p, b)
    <2>1. \A k \in 1 .. Len(p) : p[k] \in Desc
      BY ElementOf
    <2>2. \A k \in 1 .. Len(p) : c[p[k]] = b[p[k]]
      BY <1>1, <2>1
    <2> QED BY <2>2 DEF Picked
  <1>3. PICK s \in Seq(Buffer) : s = Contents(r, j, b)
    BY ContentsType
  <1>4. Contents(r, NextDesc(j), c) = Append(s, f)
    BY <1>0, <1>1, <1>3, ContentsMore
  <1>5. Only(Append(s, f), Good) = Extended(Only(s, Good), f, Good)
    BY <1>0, OnlyAppend
  <1>6. Held(TRUE, r, j, b) = s /\ Held(TRUE, r, NextDesc(j), c) = Append(s, f)
    BY <1>3, <1>4 DEF Held
  <1>7. Only(s, Good) \in Seq(Buffer)
    BY <1>6, HeldType
  <1>8. PICK u \in Seq(Buffer), d \in Seq(Buffer) : u = Only(s, Good) /\ d = Picked(p, b)
    BY <1>7, PickedType
  <1>9. d \o Append(u, f) = Append(d \o u, f)
    <2>1. Extended(d \o u, f, Buffer) = d \o Extended(u, f, Buffer)
      BY AppendToBoth
    <2> QED BY <1>0, <2>1 DEF Extended
  <1>10. Wait(TRUE, r, j, p, b) = d \o u
    BY <1>6, <1>8 DEF Wait
  <1>11. Wait(TRUE, r, NextDesc(j), p, c) = d \o Extended(u, f, Good)
    BY <1>2, <1>5, <1>6, <1>8 DEF Wait
  <1> QED BY <1>1, <1>9, <1>10, <1>11 DEF Extended, Gets

(* The driver collects a descriptor. *)
LEMMA WaitSame ==
  ASSUME NEW r \in Desc, NEW j \in Desc, NEW p \in Seq(Desc), NEW b \in [Desc -> Buffer],
         NEW p1, j # NextDesc(r), b[NextDesc(r)] \in Frame,
         p1 = IF b[NextDesc(r)] \in Bad THEN p ELSE Append(p, NextDesc(r))
  PROVE  Keeps(r, j, p, b, p1)
  <1> USE DEF Keeps
  <1>1. PICK x \in Desc : x = NextDesc(r)
    BY RingFacts
  <1>2. PICK e \in Buffer : e = b[x]
    OBVIOUS
  <1>3. PICK s \in Seq(Buffer), w \in Seq(Buffer) : s = Contents(x, j, b) /\ w = Contents(r, j, b)
    BY ContentsType
  <1>4. InFront(w, e, s)
    <2>1. Len(s) = Gap(x, j) /\ Len(w) = Gap(r, j)
      BY <1>3, ContentsType
    <2>2. /\ Gap(r, j) = Gap(x, j) + 1
          /\ Contents(r, j, b)[1] = b[x]
          /\ \A k \in 1 .. Gap(x, j) : Contents(r, j, b)[k + 1] = Contents(x, j, b)[k]
      BY <1>1, ContentsLess
    <2> QED BY <1>2, <1>3, <2>1, <2>2 DEF InFront
  <1>5. Only(w, Good) = Extended(<<>>, e, Good) \o Only(s, Good)
    BY <1>4, OnlyFront
  <1>6. Held(TRUE, x, j, b) = s /\ Held(TRUE, r, j, b) = w
    BY <1>3 DEF Held
  <1>7. Only(s, Good) \in Seq(Buffer)
    BY <1>6, HeldType
  <1>8. PICK u \in Seq(Buffer), d \in Seq(Buffer) : u = Only(s, Good) /\ d = Picked(p, b)
    BY <1>7, PickedType
  <1>9. Wait(TRUE, r, j, p, b) = d \o (Extended(<<>>, e, Good) \o u)
    BY <1>5, <1>6, <1>8 DEF Wait
  <1>10. Wait(TRUE, x, j, p1, b) = Picked(p1, b) \o u
    BY <1>6, <1>8 DEF Wait
  <1>11. CASE e \in Bad
    <2>1. Extended(<<>>, e, Good) = <<>>
      BY <1>11 DEF Extended, Good
    <2>2. <<>> \o u = u
      OBVIOUS
    <2>3. p1 = p
      BY <1>1, <1>2, <1>11
    <2> QED BY <1>1, <1>8, <1>9, <1>10, <2>1, <2>2, <2>3
  <1>12. CASE e \notin Bad
    <2>1. e \in Good
      BY <1>1, <1>2, <1>12 DEF Good
    <2>2. Extended(<<>>, e, Good) = <<e>>
      BY <2>1 DEF Extended
    <2>3. p1 = Append(p, x)
      BY <1>1, <1>2, <1>12
    <2>4. PICK n \in Nat : n = Len(p)
      OBVIOUS
    <2>5. Len(p1) = n + 1 /\ p1[n + 1] = x /\ \A k \in 1 .. n : p1[k] = p[k]
      BY <2>3, <2>4
    <2>6. Picked(p1, b) = [k \in 1 .. n + 1 |-> b[p1[k]]]
      BY <2>5 DEF Picked
    <2>7. Len(d) = n /\ d = [k \in 1 .. n |-> b[p[k]]]
      BY <1>8, <2>4, PickedType DEF Picked
    <2>8. \A k \in 1 .. n + 1 : b[p1[k]] = IF k = n + 1 THEN e ELSE d[k]
      <3> SUFFICES ASSUME NEW k \in 1 .. n + 1 PROVE b[p1[k]] = IF k = n + 1 THEN e ELSE d[k]
        OBVIOUS
      <3>1. k = n + 1 \/ (k \in 1 .. n /\ k # n + 1)
        OBVIOUS
      <3> QED BY <1>2, <2>5, <2>7, <3>1
    <2>9. Append(d, e) = [k \in 1 .. n + 1 |-> IF k = n + 1 THEN e ELSE d[k]]
      BY <2>7
    <2>10. Picked(p1, b) = Append(d, e)
      BY <2>6, <2>8, <2>9
    <2>11. Append(d, e) = d \o <<e>> /\ <<e>> \in Seq(Buffer)
      BY AppendIsConcat
    <2>12. (d \o <<e>>) \o u = d \o (<<e>> \o u)
      BY <2>11, ConcatAssociative
    <2> QED BY <1>1, <1>9, <1>10, <2>2, <2>10, <2>11, <2>12
  <1> QED BY <1>11, <1>12

(* The driver hands over what it has collected. *)
LEMMA WaitLess ==
  ASSUME NEW on, NEW r \in Desc, NEW j \in Desc, NEW p \in Seq(Desc), NEW b \in [Desc -> Buffer],
         NEW w, w = Wait(on, r, j, p, b)
  PROVE  Gives(w, Len(p), Picked(p, b), Wait(on, r, j, <<>>, b))
  <1>1. PICK u \in Seq(Buffer), d \in Seq(Buffer) : u = Only(Held(on, r, j, b), Good) /\ d = Picked(p, b)
    BY HeldType, PickedType
  <1>2. PICK n \in Nat, m \in Nat : n = Len(d) /\ m = Len(u)
    OBVIOUS
  <1>3. Len(p) = n
    BY <1>1, <1>2, PickedType
  <1>4. w = d \o u
    BY <1>1 DEF Wait
  <1>5. /\ Len(w) = n + m /\ w \in Seq(Buffer)
        /\ \A k \in 1 .. n : w[k] = d[k]
        /\ \A k \in 1 .. m : w[n + k] = u[k]
    BY <1>2, <1>4, Concatenation
  <1>6. Wait(on, r, j, <<>>, b) = u
    <2>1. Picked(<<>>, b) = <<>>
      BY DEF Picked
    <2>2. <<>> \o u = u
      OBVIOUS
    <2> QED BY <1>1, <2>1, <2>2 DEF Wait
  <1>7. SubSeq(w, 1, n) = d
    <2>1. SubSeq(w, 1, n) = [k \in 1 .. n |-> w[k]]
      BY <1>5
    <2>2. d = [k \in 1 .. n |-> d[k]]
      BY <1>2
    <2> QED BY <1>5, <2>1, <2>2
  <1>8. SubSeq(w, n + 1, n + m) = u
    <2>1. SubSeq(w, n + 1, n + m) = [k \in 1 .. m |-> w[n + k]]
      BY <1>5
    <2>2. u = [k \in 1 .. m |-> u[k]]
      BY <1>2
    <2> QED BY <1>5, <2>1, <2>2
  <1>9. n <= n + m
    OBVIOUS
  <1> QED BY <1>1, <1>3, <1>5, <1>6, <1>7, <1>8, <1>9 DEF Gives

(* The refinement mapping in these terms, now and after a step *)
LEMMA WaitIs ==
  ASSUME TypeOK
  PROVE  /\ Reached \in Desc
         /\ Waiting = Wait(programmed, Reached, head, pkt, rbuf)
  <1>1. Reached \in Desc /\ head \in Desc /\ programmed \in BOOLEAN
    BY DEF TypeOK, Reached
  <1>2. Filled = Held(programmed, Reached, head, rbuf)
    BY <1>1, ContentsIs DEF Filled, Held
  <1> QED BY <1>1, <1>2 DEF Waiting, Wait, Picked, Good

LEMMA WaitNext ==
  ASSUME TypeOK'
  PROVE  /\ Reached' \in Desc
         /\ Waiting' = Wait(programmed', Reached', head', pkt', rbuf')
  <1>1. Reached' \in Desc /\ head' \in Desc /\ programmed' \in BOOLEAN
    BY DEF TypeOK, Reached, Desc
  <1>2. Filled' = Held(programmed', Reached', head', rbuf')
    BY <1>1, ContentsIs DEF Filled, Held
  <1> QED BY <1>1, <1>2 DEF Waiting, Wait, Picked, Good

(* A batch is never larger than pkt[], and only the loop holds one. *)
BatchInv == Len(pkt) <= BATCH /\ (pc # "loop" => pkt = <<>>)

LEMMA BatchAlways == Spec => []BatchInv
  <1>1. Init => BatchInv
    BY RxAssumption DEF Init, BatchInv
  <1>2. ASSUME TypeOK, BatchInv, [Next]_vars PROVE BatchInv'
    <2>1. CASE pkt' = pkt /\ pc' = pc
      BY <1>2, <2>1 DEF BatchInv
    <2>2. CASE receive_physnic \/ CallRecv
      <3>1. pkt' = <<>>
        BY <2>2 DEF receive_physnic, CallRecv
      <3> QED BY <3>1, RxAssumption DEF BatchInv
    <2>3. CASE TakeDesc
      <3>1. pc' = "loop" /\ (pkt' = pkt \/ pkt' = Append(pkt, NextDesc(t)))
        BY <2>3 DEF TakeDesc, Collect
      <3>2. Len(pkt) \in Nat /\ Len(pkt) < BATCH /\ pkt \in Seq(Desc)
        <4>1. CASE pc = "take"
          BY <1>2, <4>1, RxAssumption DEF BatchInv, TypeOK
        <4>2. CASE ~HandOver
          BY <1>2, <4>2, RxAssumption DEF BatchInv, TypeOK, HandOver
        <4> QED BY <2>3, <4>1, <4>2 DEF TakeDesc
      <3>3. NextDesc(t) \in Desc
        BY <1>2, RingFacts DEF TypeOK
      <3>4. Len(pkt') = Len(pkt) \/ Len(pkt') = Len(pkt) + 1
        BY <3>1, <3>2, <3>3
      <3> QED BY <3>1, <3>2, <3>4, RxAssumption DEF BatchInv
    <2>4. CASE ReturnDesc
      BY <1>2, <2>4 DEF BatchInv, ReturnDesc
    <2> QED BY <1>2, <2>1, <2>2, <2>3, <2>4 DEF Next, vars, HwReceive, HwReset
  <1> QED BY <1>1, <1>2, RxTypes, PTL DEF Spec

LEMMA RxRefinesInit == Init => Queue!Init
  <1> SUFFICES ASSUME Init PROVE Queue!Init
    OBVIOUS
  <1>1. TypeOK
    BY RxInit DEF RxInv
  <1>2. head = 0 /\ Reached = N - 1 /\ pkt = <<>> /\ out = <<>> /\ programmed = TRUE
    BY DEF Init, Reached, N
  <1>3. Gap(N - 1, 0) = 0
    BY RingFacts DEF Gap
  <1>4. Wait(TRUE, N - 1, 0, <<>>, rbuf) = <<>>
    BY <1>3, WaitNothing
  <1>5. Waiting = <<>>
    BY <1>1, <1>2, <1>4, WaitIs
  <1> QED BY <1>2, <1>5 DEF Queue!Init

LEMMA RxRefinesStep ==
  RxInv /\ BatchInv /\ [Next]_vars => [Queue!Next]_(Queue!vars)
  <1> SUFFICES ASSUME RxInv, BatchInv, [Next]_vars, RxInv'
               PROVE  Queue!Next \/ UNCHANGED <<Waiting, out>>
    BY RxStep DEF Queue!vars
  <1>1. /\ TypeOK /\ TypeOK'
        /\ tail \in Desc /\ head \in Desc /\ t \in Desc /\ h \in Desc /\ pkt \in Seq(Desc)
        /\ rbuf \in [Desc -> Buffer] /\ programmed \in BOOLEAN
    BY DEF RxInv, TypeOK, Buffer
  <1>2. /\ Reached \in Desc
        /\ Waiting = Wait(programmed, Reached, head, pkt, rbuf)
        /\ Waiting' = Wait(programmed', Reached', head', pkt', rbuf')
    BY <1>1, WaitIs, WaitNext
  <1>3. /\ Reached = IF pc = "idle" THEN tail ELSE t
        /\ Reached' = IF pc' = "idle" THEN tail' ELSE t'
    BY DEF Reached
  <1>4. ASSUME pc # "idle"
        PROVE  /\ programmed = TRUE
               /\ Ahead(NextDesc(t)) <= Ahead(h) /\ Ahead(h) <= Ahead(head)
               /\ \A k \in 1 .. Len(pkt) : Ahead(pkt[k]) < Ahead(NextDesc(t)) /\ Ahead(pkt[k]) \in Int
               /\ Ahead(NextDesc(t)) \in Int /\ Ahead(h) \in Int /\ Ahead(head) \in Int
               /\ NextDesc(t) \in Desc
    <2>1. NextDesc(t) \in Desc /\ \A k \in 1 .. Len(pkt) : pkt[k] \in Desc
      BY <1>1, RingFacts, ElementOf
    <2>2. /\ Ahead(NextDesc(t)) \in Int /\ Ahead(h) \in Int /\ Ahead(head) \in Int
          /\ \A k \in 1 .. Len(pkt) : Ahead(pkt[k]) \in Int
      BY <1>1, <2>1, AheadFacts
    <2>3. programmed = TRUE
      BY <1>1, <1>4 DEF RxInv
    <2> QED BY <1>4, <2>1, <2>2, <2>3 DEF RxInv
  <1>5. CASE \E f \in Frame : HwReceive(f)
    <2>1. PICK f \in Frame : HwReceive(f)
      BY <1>5
    <2>2. /\ head # tail /\ head' = NextDesc(head) /\ programmed
          /\ rbuf' = [rbuf EXCEPT ![head] = f]
          /\ UNCHANGED <<tail, programmed, pc, h, t, pkt, out>>
      BY <2>1 DEF HwReceive
    <2>3. Reached' = Reached /\ programmed = TRUE /\ programmed' = TRUE
      BY <1>1, <1>3, <2>2
    <2>4. head # Reached /\ \A k \in 1 .. Len(pkt) : pkt[k] # head
      <3>1. CASE pc = "idle"
        <4>1. Len(pkt) = 0
          BY <3>1 DEF BatchInv
        <4> QED BY <1>3, <2>2, <3>1, <4>1
      <3>2. CASE pc # "idle"
        <4>1. head # t
          <5>1. head # tail => Ahead(NextDesc(head)) = Ahead(head) + 1
            BY <1>1, AheadFacts
          <5> QED BY <1>4, <2>2, <3>2, <5>1
        <4>2. \A k \in 1 .. Len(pkt) : Ahead(pkt[k]) < Ahead(head)
          BY <1>4, <3>2
        <4>3. \A k \in 1 .. Len(pkt) : pkt[k] # head
          BY <1>4, <3>2, <4>2
        <4> QED BY <1>3, <3>2, <4>1, <4>3
      <3> QED BY <3>1, <3>2
    <2>5. Wait(TRUE, Reached, NextDesc(head), pkt, [rbuf EXCEPT ![head] = f])
            = IF f \in Good THEN Append(Wait(TRUE, Reached, head, pkt, rbuf), f)
              ELSE Wait(TRUE, Reached, head, pkt, rbuf)
      <3>1. PICK r \in Desc, j \in Desc, p \in Seq(Desc), b \in [Desc -> Buffer] :
                r = Reached /\ j = head /\ p = pkt /\ b = rbuf
        BY <1>1, <1>2
      <3>2. j # r /\ \A k \in 1 .. Len(p) : p[k] # j
        BY <2>4, <3>1
      <3>3. Gets(r, j, p, b, f)
        BY <3>2, WaitMore
      <3> QED BY <3>1, <3>3 DEF Gets
    <2>6. Waiting' = IF f \in Good THEN Append(Waiting, f) ELSE Waiting
      BY <1>2, <2>2, <2>3, <2>5
    <2>7. CASE f \in Good
      <3>1. Queue!Arrive(f)
        BY <2>2, <2>6, <2>7 DEF Queue!Arrive
      <3> QED BY <2>7, <3>1 DEF Queue!Next, Good
    <2> QED BY <2>2, <2>6, <2>7
  <1>6. CASE HwReset
    <2>1. /\ programmed' = FALSE /\ pkt' = <<>> /\ out' = out
      BY <1>6 DEF HwReset, BatchInv
    <2>2. Waiting' = <<>>
      BY <1>2, <2>1, WaitNothing
    <2> QED BY <2>1, <2>2 DEF Queue!Next, Queue!Reset
  <1>7. CASE receive_physnic
    <2>1. /\ pkt = <<>> /\ pkt' = <<>> /\ out' = out /\ rbuf' = rbuf
          /\ Reached = tail /\ Reached' = tail'
          /\ IF programmed THEN UNCHANGED <<head, tail, programmed>>
             ELSE head' = 0 /\ tail' = N - 1 /\ programmed' = TRUE
      BY <1>3, <1>7 DEF receive_physnic, write_mydesc, BatchInv, N
    <2>2. CASE programmed
      BY <1>2, <2>1, <2>2
    <2>3. CASE ~programmed
      <3>1. Gap(N - 1, 0) = 0
        BY RingFacts DEF Gap
      <3>2. Wait(TRUE, N - 1, 0, <<>>, rbuf) = <<>>
        BY <3>1, WaitNothing
      <3>3. Wait(programmed, Reached, head, <<>>, rbuf) = <<>>
        BY <2>3, WaitNothing
      <3>4. Waiting' = <<>> /\ Waiting = <<>>
        BY <1>2, <2>1, <2>3, <3>2, <3>3
      <3> QED BY <2>1, <3>4
    <2> QED BY <2>2, <2>3
  <1>8. CASE TakeDesc
    <2>1. /\ pc \in {"take", "loop"} /\ (pc = "take" \/ ~HandOver)
          /\ t' = NextDesc(t) /\ pkt' = Collect(NextDesc(t)) /\ pc' = "loop"
          /\ UNCHANGED <<head, tail, programmed, rbuf, h, out>>
      BY <1>8 DEF TakeDesc, MoveOn
    <2>2. Reached = t /\ Reached' = NextDesc(t) /\ programmed = TRUE
      BY <1>3, <1>4, <2>1
    <2>3. h # NextDesc(t)
      BY <2>1 DEF HandOver, RxInv
    <2>4. Ahead(NextDesc(t)) < Ahead(head) /\ NextDesc(t) \in Desc
      <3>1. pc # "idle"
        BY <2>1
      <3>2. Ahead(h) # Ahead(NextDesc(t))
        BY <1>1, <1>4, <2>3, <3>1, AheadFacts
      <3>3. PICK a \in Int, c \in Int, d \in Int :
                a = Ahead(NextDesc(t)) /\ c = Ahead(h) /\ d = Ahead(head)
        BY <1>4, <3>1
      <3>4. a <= c /\ c <= d /\ a # c
        BY <1>4, <3>1, <3>2, <3>3
      <3>5. a < d
        BY <3>4
      <3> QED BY <1>4, <3>1, <3>3, <3>5
    <2>5. head # NextDesc(t)
      <3>1. Ahead(head) \in Int
        BY <1>1, AheadFacts
      <3> QED BY <2>4, <3>1
    <2>6. rbuf[NextDesc(t)] \in Frame
      BY <2>2, <2>4 DEF RxInv, FilledInv
    <2>7. Wait(TRUE, NextDesc(t), head, pkt', rbuf) = Wait(TRUE, t, head, pkt, rbuf)
      <3>0. pkt' \in Seq(Desc)
        BY <1>1 DEF TypeOK, Desc
      <3>1. PICK r \in Desc, j \in Desc, p \in Seq(Desc), b \in [Desc -> Buffer], p1 \in Seq(Desc) :
                r = t /\ j = head /\ p = pkt /\ b = rbuf /\ p1 = pkt'
        BY <1>1, <3>0
      <3>2. /\ j # NextDesc(r) /\ b[NextDesc(r)] \in Frame
            /\ p1 = IF b[NextDesc(r)] \in Bad THEN p ELSE Append(p, NextDesc(r))
        BY <2>1, <2>5, <2>6, <3>1 DEF Collect
      <3>3. Keeps(r, j, p, b, p1)
        BY <3>2, WaitSame
      <3> QED BY <3>1, <3>3 DEF Keeps
    <2>8. Waiting' = Waiting
      BY <1>2, <2>1, <2>2, <2>7
    <2> QED BY <2>1, <2>8
  <1>9. CASE CallRecv
    <2>1. /\ pc = "loop" /\ pkt' = <<>> /\ pc' # "idle"
          /\ out' = Picked(pkt, rbuf)
          /\ UNCHANGED <<head, tail, programmed, rbuf, h, t>>
      BY <1>9 DEF CallRecv, Picked
    <2>2. Reached' = Reached
      BY <1>3, <2>1
    <2>3. Gives(Waiting, Len(pkt), Picked(pkt, rbuf), Wait(programmed, Reached, head, <<>>, rbuf))
      BY <1>1, <1>2, WaitLess
    <2>4. PICK k : k = Len(pkt)
      OBVIOUS
    <2>5. k \in 0 .. BATCH /\ k <= BATCH
      BY <1>1, <2>4, RxAssumption DEF BatchInv
    <2>6. Waiting' = SubSeq(Waiting, k + 1, Len(Waiting))
      BY <1>2, <2>1, <2>2, <2>3, <2>4 DEF Gives
    <2>7. Queue!Deliver(k)
      BY <2>1, <2>3, <2>4, <2>5, <2>6 DEF Queue!Deliver, Gives
    <2> QED BY <2>5, <2>7 DEF Queue!Next
  <1>10. CASE ReturnDesc
    <2>1. /\ pc = "done" /\ tail' = t /\ pc' = "idle"
          /\ UNCHANGED <<head, programmed, rbuf, h, t, pkt, out>>
      BY <1>10 DEF ReturnDesc
    <2>2. Reached' = Reached
      BY <1>3, <2>1
    <2> QED BY <1>2, <2>1, <2>2
  <1>11. CASE UNCHANGED vars
    <2>1. Reached' = Reached
      BY <1>3, <1>11 DEF vars
    <2> QED BY <1>2, <1>11, <2>1 DEF vars
  <1> QED BY <1>5, <1>6, <1>7, <1>8, <1>9, <1>10, <1>11 DEF Next

(* receive_physnic() implements a queue: for every size of the ring and of *)
(* the batch, each good frame is handed over once and in order of arrival, *)
(* while the card goes on storing frames and the guest resets it at any    *)
(* moment.                                                                 *)
THEOREM ReceptionIsQueue == Spec => DeliversInOrder
  BY RxAlways, BatchAlways, RxRefinesInit, RxRefinesStep, PTL
     DEF Spec, DeliversInOrder, Queue!Spec

-----------------------------------------------------------------------------
(***************************************************************************)
(* Transmission.  The local copy ph of register head lags behind it; seen  *)
(* from there, the order around the ring is head, tail, pt, and pt never   *)
(* comes round to ph.  A reset makes all of this void until the next call, *)
(* which programs the registers first, to an empty ring.                   *)
(***************************************************************************)
M == NUM_OF_TDESC
Ring == 0 .. M - 1
D(a, b) == Distance(a, b, M)
me == "sender"

(* Where write_mydesc() is about to write a register *)
Programming == {"TDLEN=0", "TDBA", "TDH", "TDT", "TDLEN"}

TxType ==
    /\ phead \in Ring /\ ptail \in Ring /\ pprogrammed \in BOOLEAN /\ pbased \in BOOLEAN
    /\ tbuf \in [Ring -> Frame \cup {NoFrame}]
    /\ ppc \in [{me} -> {"idle", "h", "t", "loop"} \cup Programming]
    /\ ph \in [{me} -> Ring] /\ pt \in [{me} -> Ring]
    /\ packets \in [{me} -> Seq(Frame)]

TxInv ==
    /\ TxType
    /\ ppc[me] \in Programming => ~pprogrammed
    /\ ppc[me] \in {"TDT", "TDLEN"} => phead = 0
    /\ ppc[me] = "TDLEN" => ptail = 0
    /\ pprogrammed /\ ppc[me] = "t" => D(ph[me], phead) <= D(ph[me], ptail)
    /\ pprogrammed /\ ppc[me] = "loop"
          => D(ph[me], phead) <= D(ph[me], ptail) /\ D(ph[me], ptail) <= D(ph[me], pt[me])

(* The last descriptor with a frame is before this one. *)
Upto == IF ppc[me] = "loop" THEN pt[me] ELSE ptail

(* The k-th descriptor from a on *)
Slot(a, k) == IF a + k - 1 < M THEN a + k - 1 ELSE a + k - 1 - M

LEMMA TxRingFacts ==
  /\ M \in Nat /\ M > 1 /\ Ring = 0 .. M - 1 /\ Phys!Desc = Ring /\ 0 \in Ring
  /\ \A x \in Ring : Phys!NextDesc(x) \in Ring
  /\ \A x \in Ring : Phys!NextDesc(x) = IF x = M - 1 THEN 0 ELSE x + 1
  BY TxAssumption DEF M, Ring, Phys!Desc, Phys!NextDesc

LEMMA SlotIs ==
  ASSUME NEW a \in Ring, NEW k \in 1 .. M
  PROVE  (a + k - 1) % M = Slot(a, k) /\ Slot(a, k) \in Ring
  <1>1. M \in Nat \ {0} /\ a \in 0 .. M - 1
    BY TxRingFacts
  <1>2. CASE a + k - 1 < M
    <2>1. a + k - 1 \in 0 .. M - 1
      BY <1>1, <1>2
    <2>2. (a + k - 1) % M = a + k - 1
      BY <1>1, <2>1, SmallRemainder
    <2> QED BY <1>2, <2>1, <2>2, TxRingFacts DEF Slot
  <1>3. CASE a + k - 1 >= M
    <2>1. a + k - 1 - M \in 0 .. M - 1 /\ (a + k - 1 - M) + M = a + k - 1
      BY <1>1, <1>3
    <2>2. ((a + k - 1 - M) + M) % M = a + k - 1 - M
      BY <1>1, <2>1, OneTurnRemainder
    <2>3. (a + k - 1) % M = a + k - 1 - M
      BY <2>1, <2>2
    <2>4. Slot(a, k) = a + k - 1 - M
      BY <1>1, <1>3 DEF Slot
    <2> QED BY <2>1, <2>3, <2>4, TxRingFacts
  <1> QED BY <1>1, <1>2, <1>3

(* The frames from descriptor a to the one before j *)
Stored(a, j, b) == [k \in 1 .. D(a, j) |-> b[Slot(a, k)]]

LEMMA StoredIs ==
  ASSUME NEW a \in Ring, NEW j \in Ring, NEW b
  PROVE  /\ [k \in 1 .. (j - a) % NUM_OF_TDESC |-> b[(a + k - 1) % NUM_OF_TDESC]] = Stored(a, j, b)
         /\ D(a, j) \in 0 .. M - 1
  <1>1. M \in Nat \ {0} /\ a \in 0 .. M - 1 /\ j \in 0 .. M - 1
    BY TxRingFacts
  <1>2. (j - a) % M = D(a, j) /\ D(a, j) \in 0 .. M - 1
    BY <1>1, DistanceIs DEF D
  <1>3. \A k \in 1 .. D(a, j) : (a + k - 1) % M = Slot(a, k)
    <2>1. \A k \in 1 .. D(a, j) : k \in 1 .. M
      BY <1>1, <1>2
    <2> QED BY <2>1, SlotIs
  <1>4. [k \in 1 .. (j - a) % M |-> b[(a + k - 1) % M]] = Stored(a, j, b)
    BY <1>2, <1>3 DEF Stored
  <1> QED BY <1>2, <1>4 DEF M

LEMMA WaitingIs ==
  ASSUME TxType
  PROVE  /\ Upto \in Ring
         /\ Phys!Waiting = IF pprogrammed /\ pbased THEN Stored(phead, Upto, tbuf) ELSE <<>>
  <1>1. Upto \in Ring /\ phead \in Ring
    BY DEF TxType, Upto
  <1>2. Phys!Reached = Upto
    BY DEF Phys!Reached, Upto, me
  <1> QED BY <1>1, <1>2, StoredIs DEF Phys!Waiting

LEMMA WaitingNext ==
  ASSUME TxType'
  PROVE  /\ Upto' \in Ring
         /\ Phys!Waiting' = IF pprogrammed' /\ pbased' THEN Stored(phead', Upto', tbuf') ELSE <<>>
  <1>1. Upto' \in Ring /\ phead' \in Ring
    BY DEF TxType, Upto, Ring, M
  <1>2. Phys!Reached' = Upto'
    BY DEF Phys!Reached, Upto, me
  <1> QED BY <1>1, <1>2, StoredIs DEF Phys!Waiting

(* One more descriptor, at either end *)
LEMMA OneMore ==
  ASSUME NEW a \in Ring, NEW j \in Ring, D(a, j) < M - 1
  PROVE  /\ D(a, Phys!NextDesc(j)) = D(a, j) + 1
         /\ Slot(a, D(a, j) + 1) = j
         /\ \A k \in 1 .. D(a, j) : Slot(a, k) # j
  <1>1. M \in Nat /\ M > 1 /\ a \in 0 .. M - 1 /\ j \in 0 .. M - 1
    BY TxRingFacts
  <1>2. Phys!NextDesc(j) = IF j = M - 1 THEN 0 ELSE j + 1
    BY TxRingFacts
  <1>3. D(a, Phys!NextDesc(j)) = D(a, j) + 1
    BY <1>1, <1>2 DEF D, Distance
  <1>4. Slot(a, D(a, j) + 1) = j
    BY <1>1 DEF D, Distance, Slot
  <1>5. \A k \in 1 .. D(a, j) : Slot(a, k) # j
    BY <1>1 DEF D, Distance, Slot
  <1> QED BY <1>3, <1>4, <1>5

LEMMA OneLess ==
  ASSUME NEW a \in Ring, NEW j \in Ring, a # j
  PROVE  /\ D(a, j) \in 1 .. M - 1
         /\ D(Phys!NextDesc(a), j) = D(a, j) - 1
         /\ Slot(a, 1) = a
         /\ \A k \in 1 .. D(a, j) - 1 : Slot(Phys!NextDesc(a), k) = Slot(a, k + 1)
  <1>1. M \in Nat /\ M > 1 /\ a \in 0 .. M - 1 /\ j \in 0 .. M - 1
    BY TxRingFacts
  <1>2. Phys!NextDesc(a) = IF a = M - 1 THEN 0 ELSE a + 1
    BY TxRingFacts
  <1>3. D(a, j) \in 1 .. M - 1
    BY <1>1 DEF D, Distance
  <1>4. D(Phys!NextDesc(a), j) = D(a, j) - 1
    BY <1>1, <1>2 DEF D, Distance
  <1>5. Slot(a, 1) = a
    BY <1>1 DEF Slot
  <1>6. ASSUME NEW k \in 1 .. D(a, j) - 1
        PROVE  Slot(Phys!NextDesc(a), k) = Slot(a, k + 1)
    BY <1>1, <1>2, <1>3 DEF Slot
  <1> QED BY <1>3, <1>4, <1>5, <1>6

(* Order around the ring, seen from x *)
LEMMA InOrder ==
  ASSUME NEW x \in Ring, NEW a \in Ring, NEW b \in Ring, D(x, a) <= D(x, b)
  PROVE  /\ D(a, b) = D(x, b) - D(x, a)
         /\ a # b => D(x, a) < D(x, b)
  <1>1. M \in Nat /\ M > 1 /\ x \in 0 .. M - 1 /\ a \in 0 .. M - 1 /\ b \in 0 .. M - 1
    BY TxRingFacts
  <1> QED BY <1>1 DEF D, Distance

LEMMA NearAndFar ==
  ASSUME NEW x \in Ring, NEW y \in Ring
  PROVE  /\ D(x, x) <= D(x, y) /\ D(x, y) <= D(x, y)
         /\ x # Phys!NextDesc(y) => D(x, y) < M - 1
  <1>1. M \in Nat /\ M > 1 /\ x \in 0 .. M - 1 /\ y \in 0 .. M - 1
    BY TxRingFacts
  <1>2. Phys!NextDesc(y) = IF y = M - 1 THEN 0 ELSE y + 1
    BY TxRingFacts
  <1>3. D(x, x) <= D(x, y) /\ D(x, y) <= D(x, y)
    BY <1>1 DEF D, Distance
  <1>4. x # Phys!NextDesc(y) => D(x, y) < M - 1
    BY <1>1, <1>2 DEF D, Distance
  <1> QED BY <1>3, <1>4

LEMMA TxInit == Phys!Init => TxInv
  <1> SUFFICES ASSUME Phys!Init PROVE TxInv
    OBVIOUS
  <1>1. 0 \in Ring /\ Phys!Desc = Ring
    BY TxRingFacts
  <1> QED BY <1>1 DEF Phys!Init, TxInv, TxType, Programming, me

LEMMA TxType0 ==
  ASSUME TxInv
  PROVE  /\ phead \in Ring /\ ptail \in Ring /\ ph[me] \in Ring /\ pt[me] \in Ring
         /\ Phys!NextDesc(phead) \in Ring /\ Phys!NextDesc(pt[me]) \in Ring
  <1>1. phead \in Ring /\ ptail \in Ring /\ ph[me] \in Ring /\ pt[me] \in Ring
    BY DEF TxInv, TxType
  <1> QED BY <1>1, TxRingFacts

LEMMA TxStep == TxInv /\ [Phys!Next]_pvars => TxInv'
  <1> SUFFICES ASSUME TxInv, [Phys!Next]_pvars PROVE TxInv'
    OBVIOUS
  <1>0. TxType
    BY DEF TxInv
  <1>1. /\ phead \in Ring /\ ptail \in Ring /\ ph[me] \in Ring /\ pt[me] \in Ring
        /\ Phys!NextDesc(phead) \in Ring /\ Phys!NextDesc(pt[me]) \in Ring
    BY TxType0
  <1>2. 0 \in Ring /\ Phys!Desc = Ring
    BY TxRingFacts
  <1> DEFINE Order(x, a, b, c) == D(x, a) <= D(x, b) /\ D(x, b) <= D(x, c)
  <1>3. pprogrammed /\ ppc[me] = "loop" => Order(ph[me], phead, ptail, pt[me])
    BY DEF TxInv
  <1>a. /\ ppc[me] \in Programming => ~pprogrammed
        /\ ppc[me] \in {"TDT", "TDLEN"} => phead = 0
        /\ ppc[me] = "TDLEN" => ptail = 0
        /\ pprogrammed /\ ppc[me] = "t" => D(ph[me], phead) <= D(ph[me], ptail)
    BY DEF TxInv
  <1>4. SUFFICES
          /\ TxType'
          /\ ppc'[me] \in Programming => ~pprogrammed'
          /\ ppc'[me] \in {"TDT", "TDLEN"} => phead' = 0
          /\ ppc'[me] = "TDLEN" => ptail' = 0
          /\ pprogrammed' /\ ppc'[me] = "t" => D(ph'[me], phead') <= D(ph'[me], ptail')
          /\ pprogrammed' /\ ppc'[me] = "loop" => Order(ph'[me], phead', ptail', pt'[me])
    BY DEF TxInv, D, Distance, M, me, Programming
  <1>5. CASE Phys!HwSend
    <2>1. /\ pprogrammed /\ phead # ptail /\ phead' = Phys!NextDesc(phead)
          /\ ptail' = ptail /\ pprogrammed' = pprogrammed /\ pbased' = pbased
          /\ tbuf' = tbuf /\ ppc' = ppc /\ ph' = ph /\ pt' = pt /\ packets' = packets
      BY <1>5 DEF Phys!HwSend
    <2>2. TxType'
      BY <1>0, <1>1, <2>1 DEF TxType, Ring, M, me, Programming
    <2>3. ASSUME D(ph[me], phead) <= D(ph[me], ptail)
          PROVE  D(ph[me], Phys!NextDesc(phead)) <= D(ph[me], ptail)
      <3>1. D(ph[me], phead) < D(ph[me], ptail)
        BY <1>1, <2>1, <2>3, InOrder
      <3>2. D(ph[me], ptail) \in 0 .. M - 1 /\ D(ph[me], phead) \in 0 .. M - 1 /\ M \in Nat
        BY <1>1, StoredIs, TxRingFacts
      <3>3. D(ph[me], Phys!NextDesc(phead)) = D(ph[me], phead) + 1
        <4>1. D(ph[me], phead) < M - 1
          BY <3>1, <3>2
        <4> QED BY <1>1, <4>1, OneMore
      <3> QED BY <3>1, <3>2, <3>3
    <2>4. ppc[me] \notin Programming
      BY <1>a, <2>1
    <2>5. ppc[me] \notin {"TDT", "TDLEN"}
      BY <2>4 DEF Programming
    <2> QED BY <1>3, <1>a, <2>1, <2>2, <2>3, <2>4, <2>5
  <1>6. CASE Phys!HwReset
    <2>1. TxType'
      BY <1>0, <1>2, <1>6 DEF Phys!HwReset, TxType, Ring, M, me, Programming
    <2>2. pprogrammed' = FALSE /\ phead' = 0 /\ ptail' = 0
      BY <1>6 DEF Phys!HwReset
    <2> QED BY <2>1, <2>2
  <1>7. CASE Phys!send_physnic(me)
    <2>1. /\ phead' = phead /\ ptail' = ptail /\ pprogrammed' = pprogrammed
          /\ pbased' = pbased /\ tbuf' = tbuf /\ ph' = ph /\ pt' = pt
          /\ ppc' = [ppc EXCEPT ![me] = IF pprogrammed THEN "h" ELSE "TDLEN=0"]
      BY <1>7 DEF Phys!send_physnic, Phys!Goto
    <2>2. PICK n \in 1 .. MaxPackets : \E p \in [1 .. n -> Frame] :
              packets' = [packets EXCEPT ![me] = p]
      BY <1>7 DEF Phys!send_physnic
    <2>3. PICK p \in [1 .. n -> Frame] : packets' = [packets EXCEPT ![me] = p]
      BY <2>2
    <2>4. p \in Seq(Frame)
      BY SequenceOf
    <2>5. TxType' /\ ppc'[me] = IF pprogrammed THEN "h" ELSE "TDLEN=0"
      BY <1>0, <2>1, <2>3, <2>4 DEF TxType, Ring, M, me, Programming
    <2> QED BY <2>1, <2>5 DEF Programming
  <1>b. CASE Phys!write_mydesc(me)
    <2>1. tbuf' = tbuf /\ ph' = ph /\ pt' = pt /\ packets' = packets
      BY <1>b DEF Phys!write_mydesc
    <2>2. CASE /\ ppc[me] = "TDLEN=0" /\ ppc' = [ppc EXCEPT ![me] = "TDBA"]
               /\ pprogrammed' = FALSE /\ phead' = phead /\ ptail' = ptail /\ pbased' = pbased
      BY <1>0, <2>1, <2>2 DEF TxType, Ring, M, me, Programming
    <2>3. CASE /\ ppc[me] = "TDBA" /\ ppc' = [ppc EXCEPT ![me] = "TDH"]
               /\ pbased' = TRUE /\ phead' = phead /\ ptail' = ptail /\ pprogrammed' = pprogrammed
      BY <1>0, <1>a, <2>1, <2>3 DEF TxType, Ring, M, me, Programming
    <2>4. CASE /\ ppc[me] = "TDH" /\ ppc' = [ppc EXCEPT ![me] = "TDT"]
               /\ phead' = 0 /\ ptail' = ptail /\ pprogrammed' = pprogrammed /\ pbased' = pbased
      BY <1>0, <1>2, <1>a, <2>1, <2>4 DEF TxType, Ring, M, me, Programming
    <2>5. CASE /\ ppc[me] = "TDT" /\ ppc' = [ppc EXCEPT ![me] = "TDLEN"]
               /\ ptail' = 0 /\ phead' = phead /\ pprogrammed' = pprogrammed /\ pbased' = pbased
      BY <1>0, <1>2, <1>a, <2>1, <2>5 DEF TxType, Ring, M, me, Programming
    <2>6. CASE /\ ppc[me] = "TDLEN" /\ ppc' = [ppc EXCEPT ![me] = "h"]
               /\ pprogrammed' = TRUE /\ phead' = phead /\ ptail' = ptail /\ pbased' = pbased
      BY <1>0, <2>1, <2>6 DEF TxType, Ring, M, me, Programming
    <2> QED BY <1>b, <2>2, <2>3, <2>4, <2>5, <2>6 DEF Phys!write_mydesc, Phys!Goto
  <1>c. CASE Phys!ReadHead(me)
    <2>1. /\ ppc' = [ppc EXCEPT ![me] = "t"] /\ ph' = [ph EXCEPT ![me] = phead]
          /\ phead' = phead /\ ptail' = ptail /\ pprogrammed' = pprogrammed
          /\ pbased' = pbased /\ tbuf' = tbuf /\ pt' = pt /\ packets' = packets
      BY <1>c DEF Phys!ReadHead, Phys!Goto
    <2>2. TxType' /\ ppc'[me] = "t" /\ ph'[me] = phead
      BY <1>0, <1>1, <2>1 DEF TxType, Ring, M, me, Programming
    <2>3. D(phead, phead) <= D(phead, ptail)
      BY <1>1, NearAndFar
    <2> QED BY <2>1, <2>2, <2>3 DEF Programming
  <1>d. CASE Phys!Gone(me)
    <2>1. /\ ppc' = [ppc EXCEPT ![me] = "idle"] /\ packets' = [packets EXCEPT ![me] = <<>>]
          /\ phead' = phead /\ ptail' = ptail /\ pprogrammed' = pprogrammed
          /\ pbased' = pbased /\ tbuf' = tbuf /\ ph' = ph /\ pt' = pt
      BY <1>d DEF Phys!Gone, Phys!Goto
    <2>2. TxType' /\ ppc'[me] = "idle"
      BY <1>0, <2>1 DEF TxType, Ring, M, me, Programming
    <2> QED BY <2>1, <2>2 DEF Programming
  <1>e. CASE Phys!ReadTail(me)
    <2>1. /\ ppc[me] = "t" /\ ppc' = [ppc EXCEPT ![me] = "loop"]
          /\ pt' = [pt EXCEPT ![me] = ptail]
          /\ phead' = phead /\ ptail' = ptail /\ pprogrammed' = pprogrammed
          /\ pbased' = pbased /\ tbuf' = tbuf /\ ph' = ph /\ packets' = packets
      BY <1>e DEF Phys!ReadTail, Phys!Goto
    <2>2. TxType' /\ ppc'[me] = "loop" /\ pt'[me] = ptail
      BY <1>0, <1>1, <2>1 DEF TxType, Ring, M, me, Programming
    <2>3. D(ph[me], ptail) <= D(ph[me], ptail)
      BY <1>1, NearAndFar
    <2> QED BY <1>a, <2>1, <2>2, <2>3 DEF Programming
  <1>8. CASE Phys!Copy(me)
    <2>1. /\ ppc[me] = "loop" /\ packets[me] # <<>> /\ ~Phys!Full(me)
          /\ packets' = [packets EXCEPT ![me] = Tail(@)]
          /\ phead' = phead /\ ptail' = ptail /\ pprogrammed' = pprogrammed
          /\ pbased' = pbased /\ ppc' = ppc /\ ph' = ph
      BY <1>8 DEF Phys!Copy
    <2>2. packets[me] \in Seq(Frame) /\ Tail(packets[me]) \in Seq(Frame) /\ Head(packets[me]) \in Frame
      <3>1. packets[me] \in Seq(Frame)
        BY <1>0 DEF TxType
      <3> QED BY <2>1, <3>1
    <2>3. packets' \in [{me} -> Seq(Frame)]
      BY <1>0, <2>1, <2>2 DEF TxType
    <2>4. CASE tbuf' = tbuf /\ pt' = pt
      BY <1>0, <1>1, <1>3, <1>a, <2>1, <2>3, <2>4 DEF TxType, Ring, M, me, Programming
    <2>5. CASE /\ tbuf' = [tbuf EXCEPT ![pt[me]] = Head(packets[me])]
               /\ pt' = [pt EXCEPT ![me] = Phys!NextDesc(@)]
      <3>1. tbuf' \in [Ring -> Frame \cup {NoFrame}]
        BY <1>0, <1>1, <2>2, <2>5 DEF TxType
      <3>2. pt' \in [{me} -> Ring] /\ pt'[me] = Phys!NextDesc(pt[me])
        BY <1>0, <1>1, <2>5 DEF TxType
      <3>3. TxType'
        BY <1>0, <2>1, <2>3, <3>1, <3>2 DEF TxType, Ring, M, me, Programming
      <3>4. ASSUME pprogrammed
            PROVE  Order(ph[me], phead, ptail, Phys!NextDesc(pt[me]))
        <4>1. D(ph[me], pt[me]) < M - 1
          <5>1. ph[me] # Phys!NextDesc(pt[me])
            BY <2>1 DEF Phys!Full
          <5> QED BY <1>1, <5>1, NearAndFar
        <4>2. D(ph[me], Phys!NextDesc(pt[me])) = D(ph[me], pt[me]) + 1
          BY <1>1, <4>1, OneMore
        <4>3. D(ph[me], ptail) \in 0 .. M - 1 /\ D(ph[me], pt[me]) \in 0 .. M - 1 /\ M \in Nat
          BY <1>1, StoredIs, TxRingFacts
        <4> QED BY <1>3, <2>1, <3>4, <4>2, <4>3
      <3> QED BY <2>1, <3>2, <3>3, <3>4 DEF Programming
    <2> QED BY <1>8, <2>4, <2>5 DEF Phys!Copy
  <1>9. CASE Phys!WriteTail(me)
    <2>1. /\ ptail' = pt[me] /\ packets' = [packets EXCEPT ![me] = <<>>]
          /\ ph' = [ph EXCEPT ![me] = 0] /\ pt' = [pt EXCEPT ![me] = 0]
          /\ ppc' = [ppc EXCEPT ![me] = "idle"]
          /\ phead' = phead /\ pprogrammed' = pprogrammed /\ pbased' = pbased /\ tbuf' = tbuf
      BY <1>9 DEF Phys!WriteTail, Phys!Goto
    <2>2. TxType'
      BY <1>0, <1>1, <1>2, <2>1 DEF TxType, Ring, M, me, Programming
    <2>3. ppc'[me] = "idle"
      BY <1>0, <2>1 DEF TxType, me
    <2> QED BY <2>2, <2>3 DEF Programming
  <1>10. CASE UNCHANGED pvars
    BY <1>0, <1>3, <1>a, <1>10 DEF pvars, TxType, Ring, M, me, Programming
  <1> QED BY <1>5, <1>6, <1>7, <1>8, <1>9, <1>10, <1>b, <1>c, <1>d, <1>e DEF Phys!Next, me

(* What a step does to the frames that wait *)
LEMMA StoredOne ==
  ASSUME NEW a \in Ring, NEW j \in Ring, NEW b, a # j
  PROVE  /\ 1 <= Len(Stored(a, j, b))
         /\ SubSeq(Stored(a, j, b), 1, 1) = <<b[a]>>
         /\ SubSeq(Stored(a, j, b), 1 + 1, Len(Stored(a, j, b))) = Stored(Phys!NextDesc(a), j, b)
  <1> DEFINE n == D(a, j)
             w == Stored(a, j, b)
             nx == Phys!NextDesc(a)
  <1>1. /\ n \in 1 .. M - 1 /\ D(nx, j) = n - 1 /\ Slot(a, 1) = a
        /\ \A k \in 1 .. n - 1 : Slot(nx, k) = Slot(a, k + 1)
    BY OneLess
  <1>2. M \in Nat
    BY TxRingFacts
  <1>3. w = [k \in 1 .. n |-> b[Slot(a, k)]]
    BY DEF Stored
  <1>4. n \in Nat
    BY <1>1, <1>2
  <1> HIDE DEF n, w, nx
  <1>5. Len(w) = n
    BY <1>3, <1>4
  <1>6. SubSeq(w, 1, 1) = <<b[a]>>
    <2>1. w[1] = b[a]
      BY <1>1, <1>2, <1>3
    <2>2. SubSeq(w, 1, 1) = [k \in 1 .. 1 |-> w[k]]
      BY <1>1, <1>2, <1>3, <1>4, <1>5
    <2>3. <<b[a]>> = [k \in 1 .. 1 |-> b[a]]
      OBVIOUS
    <2>4. \A k \in 1 .. 1 : w[k] = b[a]
      BY <2>1
    <2> QED BY <2>2, <2>3, <2>4
  <1>7. SubSeq(w, 1 + 1, Len(w)) = Stored(nx, j, b)
    <2>1. Stored(nx, j, b) = [k \in 1 .. n - 1 |-> b[Slot(nx, k)]]
      BY <1>1 DEF Stored
    <2>2. Stored(nx, j, b) = [k \in 1 .. n - 1 |-> w[k + 1]]
      <3>1. \A k \in 1 .. n - 1 : b[Slot(nx, k)] = w[k + 1]
        BY <1>1, <1>2, <1>3, <1>4
      <3> QED BY <2>1, <3>1
    <2>3. SubSeq(w, 2, n) = [k \in 1 .. n - 1 |-> w[k + 1]]
      BY <1>1, <1>2, <1>3, <1>4, <1>5
    <2> QED BY <1>5, <2>2, <2>3
  <1> QED BY <1>1, <1>2, <1>5, <1>6, <1>7 DEF w, nx

Put(b, j, f) == [b EXCEPT ![j] = f]
Added(a, j, b, f) == Stored(a, Phys!NextDesc(j), Put(b, j, f)) = Append(Stored(a, j, b), f)

LEMMA StoredMore ==
  ASSUME NEW a \in Ring, NEW j \in Ring, NEW b \in [Ring -> Frame \cup {NoFrame}],
         NEW f, D(a, j) < M - 1
  PROVE  Added(a, j, b, f)
  <1> DEFINE c == Put(b, j, f)
             n == D(a, j)
             w == Stored(a, j, b)
  <1>1. /\ D(a, Phys!NextDesc(j)) = n + 1 /\ Slot(a, n + 1) = j
        /\ \A k \in 1 .. n : Slot(a, k) # j
    BY OneMore
  <1>2. n \in Nat /\ M \in Nat /\ n + 1 <= M
    <2>1. n \in 0 .. M - 1 /\ M \in Nat
      BY StoredIs, TxRingFacts
    <2> QED BY <2>1
  <1>3. w = [k \in 1 .. n |-> b[Slot(a, k)]]
    BY DEF Stored
  <1>4. Stored(a, Phys!NextDesc(j), c) = [k \in 1 .. n + 1 |-> c[Slot(a, k)]]
    BY <1>1 DEF Stored
  <1>5. \A k \in 1 .. n + 1 : Slot(a, k) \in Ring
    <2>1. \A k \in 1 .. n + 1 : k \in 1 .. M
      BY <1>2
    <2> QED BY <2>1, SlotIs
  <1>6. \A k \in 1 .. n : c[Slot(a, k)] = b[Slot(a, k)]
    <2>1. \A k \in 1 .. n : k \in 1 .. n + 1
      BY <1>2
    <2> QED BY <1>1, <1>5, <2>1 DEF Put
  <1>7. c[j] = f
    BY DEF Put
  <1> HIDE DEF n, w, c
  <1>8. \A k \in 1 .. n + 1 : c[Slot(a, k)] = IF k = n + 1 THEN f ELSE w[k]
    <2> SUFFICES ASSUME NEW k \in 1 .. n + 1 PROVE c[Slot(a, k)] = IF k = n + 1 THEN f ELSE w[k]
      OBVIOUS
    <2>1. CASE k = n + 1
      BY <1>1, <1>7, <2>1
    <2>2. CASE k # n + 1
      <3>1. k \in 1 .. n
        BY <1>2, <2>2
      <3> QED BY <1>3, <1>6, <2>2, <3>1
    <2> QED BY <2>1, <2>2
  <1>9. Append(w, f) = [k \in 1 .. n + 1 |-> IF k = n + 1 THEN f ELSE w[k]]
    BY <1>2, <1>3
  <1>10. Stored(a, Phys!NextDesc(j), c) = Append(w, f)
    BY <1>4, <1>8, <1>9
  <1> QED BY <1>10 DEF w, c, Added

LEMMA TxRefinesInit == Phys!Init => Phys!Queue!Init
  <1> SUFFICES ASSUME Phys!Init PROVE Phys!Queue!Init
    OBVIOUS
  <1>1. TxType
    BY TxInit DEF TxInv
  <1>2. phead = 0 /\ Upto = 0 /\ pprogrammed /\ pbased /\ pout = <<>>
    BY DEF Phys!Init, Upto, me
  <1>3. D(0, 0) = 0
    BY DEF D, Distance
  <1>4. Stored(0, 0, tbuf) = <<>>
    BY <1>3 DEF Stored
  <1>5. Phys!Waiting = <<>>
    BY <1>1, <1>2, <1>4, WaitingIs
  <1> QED BY <1>2, <1>5 DEF Phys!Queue!Init

(* What a step may be in the queue *)
QueueStep == Phys!Queue!Next \/ (Phys!Astray /\ Phys!Waiting' = <<>>)

LEMMA TxRefinesStep == TxInv /\ [Phys!Next]_pvars => [QueueStep]_<<Phys!Waiting, pout>>
  <1> SUFFICES ASSUME TxInv, [Phys!Next]_pvars, TxInv'
               PROVE  \/ Phys!Queue!Next
                      \/ Phys!Astray /\ Phys!Waiting' = <<>>
                      \/ UNCHANGED <<Phys!Waiting, pout>>
    BY TxStep DEF QueueStep
  <1>0. TxType /\ TxType'
    BY DEF TxInv
  <1>1. /\ phead \in Ring /\ ptail \in Ring /\ ph[me] \in Ring /\ pt[me] \in Ring
        /\ pprogrammed \in BOOLEAN /\ pbased \in BOOLEAN
        /\ tbuf \in [Ring -> Frame \cup {NoFrame}]
    BY <1>0 DEF TxType
  <1>2. /\ Upto \in Ring
        /\ Phys!Waiting = IF pprogrammed /\ pbased THEN Stored(phead, Upto, tbuf) ELSE <<>>
    BY <1>0, WaitingIs
  <1>3. Phys!Waiting' = IF pprogrammed' /\ pbased' THEN Stored(phead', Upto', tbuf') ELSE <<>>
    BY <1>0, WaitingNext
  <1>4. /\ Upto = IF ppc[me] = "loop" THEN pt[me] ELSE ptail
        /\ Upto' = IF ppc'[me] = "loop" THEN pt'[me] ELSE ptail'
    BY DEF Upto, me
  <1>5. ASSUME pprogrammed, ppc[me] = "loop"
        PROVE  /\ D(ph[me], phead) <= D(ph[me], ptail) /\ D(ph[me], ptail) <= D(ph[me], pt[me])
               /\ D(ph[me], phead) \in 0 .. M - 1 /\ D(ph[me], ptail) \in 0 .. M - 1
               /\ D(ph[me], pt[me]) \in 0 .. M - 1 /\ M \in Nat
    <2>1. D(ph[me], phead) <= D(ph[me], ptail) /\ D(ph[me], ptail) <= D(ph[me], pt[me])
      BY <1>5 DEF TxInv
    <2> QED BY <1>1, <2>1, StoredIs, TxRingFacts
  <1>6. CASE Phys!HwSend
    <2>1. /\ pprogrammed /\ phead # ptail /\ phead' = Phys!NextDesc(phead)
          /\ pout' = <<IF pbased THEN tbuf[phead] ELSE NoFrame>>
          /\ ptail' = ptail /\ pprogrammed' = pprogrammed /\ pbased' = pbased
          /\ tbuf' = tbuf /\ ppc' = ppc /\ pt' = pt
      BY <1>6 DEF Phys!HwSend
    <2>a. CASE ~pbased
      BY <1>3, <2>1, <2>a DEF Phys!Astray
    <2>b. CASE pbased
      <3>0. pout' = <<tbuf[phead]>>
        BY <2>1, <2>b
      <3>2. phead # Upto
        <4>1. CASE ppc[me] = "loop"
          <5>1. D(ph[me], phead) < D(ph[me], ptail)
            BY <1>1, <1>5, <2>1, <4>1, InOrder
          <5>2. D(ph[me], phead) < D(ph[me], pt[me])
            BY <1>5, <2>1, <4>1, <5>1
          <5>3. D(ph[me], phead) # D(ph[me], pt[me])
            BY <1>5, <2>1, <4>1, <5>2
          <5> QED BY <1>4, <4>1, <5>3
        <4> QED BY <1>4, <2>1, <4>1
      <3>3. Upto' = Upto
        BY <1>4, <2>1
      <3>4. /\ Phys!Waiting = Stored(phead, Upto, tbuf)
            /\ Phys!Waiting' = Stored(Phys!NextDesc(phead), Upto, tbuf)
        BY <1>2, <1>3, <2>1, <2>b, <3>3
      <3>5. /\ 1 <= Len(Stored(phead, Upto, tbuf))
            /\ SubSeq(Stored(phead, Upto, tbuf), 1, 1) = <<tbuf[phead]>>
            /\ SubSeq(Stored(phead, Upto, tbuf), 1 + 1, Len(Stored(phead, Upto, tbuf)))
                  = Stored(Phys!NextDesc(phead), Upto, tbuf)
        BY <1>1, <1>2, <3>2, StoredOne
      <3>6. /\ 1 <= Len(Phys!Waiting)
            /\ pout' = SubSeq(Phys!Waiting, 1, 1)
            /\ Phys!Waiting' = SubSeq(Phys!Waiting, 1 + 1, Len(Phys!Waiting))
        BY <3>0, <3>4, <3>5, Zenon
      <3>7. 1 <= 1
        OBVIOUS
      <3>8. Phys!Queue!Deliver(1)
        BY <3>6, <3>7, Zenon DEF Phys!Queue!Deliver
      <3> QED BY <3>8 DEF Phys!Queue!Next
    <2> QED BY <1>1, <2>a, <2>b
  <1>7. CASE Phys!HwReset
    BY <1>3, <1>7 DEF Phys!HwReset, Phys!Queue!Next, Phys!Queue!Reset
  <1>8. CASE Phys!send_physnic(me)
    <2>1. /\ ppc[me] = "idle"
          /\ ppc' = [ppc EXCEPT ![me] = IF pprogrammed THEN "h" ELSE "TDLEN=0"]
          /\ tbuf' = tbuf /\ pout' = pout /\ phead' = phead /\ ptail' = ptail
          /\ pprogrammed' = pprogrammed /\ pbased' = pbased
      BY <1>8 DEF Phys!send_physnic, Phys!Goto
    <2>2. ppc'[me] # "loop"
      BY <1>0, <2>1 DEF TxType
    <2> QED BY <1>2, <1>3, <1>4, <2>1, <2>2
  <1>a. CASE Phys!write_mydesc(me)
    <2>1. ppc[me] \in Programming /\ pout' = pout
      BY <1>a DEF Phys!write_mydesc, Programming
    <2>2. Phys!Waiting = <<>>
      BY <1>2, <2>1 DEF TxInv
    <2>3. CASE ppc[me] # "TDLEN"
      <3>1. pprogrammed' = FALSE \/ pprogrammed' = pprogrammed
        BY <1>a, <2>3 DEF Phys!write_mydesc
      <3>2. ~pprogrammed
        BY <2>1 DEF TxInv
      <3> QED BY <1>3, <2>1, <2>2, <3>1, <3>2
    <2>4. CASE ppc[me] = "TDLEN"
      <3>1. /\ phead' = phead /\ ptail' = ptail
            /\ ppc' = [ppc EXCEPT ![me] = "h"]
        BY <1>a, <2>4 DEF Phys!write_mydesc, Phys!Goto
      <3>2. phead = 0 /\ ptail = 0
        BY <2>4 DEF TxInv
      <3>3. ppc'[me] = "h"
        BY <1>0, <3>1 DEF TxType
      <3>4. phead' = 0 /\ Upto' = 0
        BY <1>4, <3>1, <3>2, <3>3
      <3>5. \A b : Stored(0, 0, b) = <<>>
        <4>1. D(0, 0) = 0
          BY DEF D, Distance
        <4> QED BY <4>1 DEF Stored
      <3>6. Phys!Waiting' = <<>>
        BY <1>3, <3>4, <3>5
      <3> QED BY <2>1, <2>2, <3>6
    <2> QED BY <2>3, <2>4
  <1>b. CASE Phys!ReadHead(me) \/ Phys!Gone(me)
    <2>1. /\ ppc[me] = "h" /\ ppc' \in {[ppc EXCEPT ![me] = "t"], [ppc EXCEPT ![me] = "idle"]}
          /\ tbuf' = tbuf /\ pout' = pout /\ phead' = phead /\ ptail' = ptail
          /\ pprogrammed' = pprogrammed /\ pbased' = pbased
      BY <1>b DEF Phys!ReadHead, Phys!Gone, Phys!Goto
    <2>2. ppc'[me] # "loop"
      BY <1>0, <2>1 DEF TxType
    <2> QED BY <1>2, <1>3, <1>4, <2>1, <2>2
  <1>c. CASE Phys!ReadTail(me)
    <2>1. /\ ppc[me] = "t" /\ ppc' = [ppc EXCEPT ![me] = "loop"]
          /\ pt' = [pt EXCEPT ![me] = ptail]
          /\ tbuf' = tbuf /\ pout' = pout /\ phead' = phead /\ ptail' = ptail
          /\ pprogrammed' = pprogrammed /\ pbased' = pbased
      BY <1>c DEF Phys!ReadTail, Phys!Goto
    <2>2. Upto = ptail /\ Upto' = ptail
      BY <1>0, <1>4, <2>1 DEF TxType
    <2> QED BY <1>2, <1>3, <2>1, <2>2
  <1>9. CASE Phys!Copy(me)
    <2>1. /\ ppc[me] = "loop" /\ packets[me] # <<>> /\ ~Phys!Full(me)
          /\ phead' = phead /\ ptail' = ptail /\ pprogrammed' = pprogrammed
          /\ pbased' = pbased /\ ppc' = ppc /\ pout' = pout
      BY <1>9 DEF Phys!Copy
    <2>2. Upto = pt[me] /\ Upto' = pt'[me]
      BY <1>4, <2>1
    <2>3. CASE Head(packets[me]) \in Bad
      <3>1. tbuf' = tbuf /\ pt' = pt
        BY <1>9, <2>3 DEF Phys!Copy
      <3> QED BY <1>2, <1>3, <2>1, <2>2, <3>1
    <2>4. CASE ~(pprogrammed /\ pbased)
      BY <1>2, <1>3, <2>1, <2>4
    <2>5. CASE Head(packets[me]) \notin Bad /\ pprogrammed /\ pbased
      <3> DEFINE f == Head(packets[me])
      <3>1. /\ tbuf' = [tbuf EXCEPT ![pt[me]] = f]
            /\ pt' = [pt EXCEPT ![me] = Phys!NextDesc(@)]
        BY <1>9, <2>5 DEF Phys!Copy
      <3>2. f \in Frame \ Bad
        <4>1. packets[me] \in Seq(Frame)
          BY <1>0 DEF TxType
        <4> QED BY <2>1, <2>5, <4>1
      <3>3. pt'[me] = Phys!NextDesc(pt[me])
        BY <1>0, <3>1 DEF TxType
      <3>4. D(phead, pt[me]) < M - 1
        <4>1. D(ph[me], pt[me]) < M - 1
          <5>1. ph[me] # Phys!NextDesc(pt[me])
            BY <2>1 DEF Phys!Full
          <5> QED BY <1>1, <5>1, NearAndFar
        <4>2. D(phead, pt[me]) = D(ph[me], pt[me]) - D(ph[me], phead)
          <5>1. D(ph[me], phead) <= D(ph[me], pt[me])
            BY <1>5, <2>1, <2>5
          <5> QED BY <1>1, <5>1, InOrder
        <4> QED BY <1>5, <2>1, <2>5, <4>1, <4>2
      <3>5. Stored(phead, Phys!NextDesc(pt[me]), tbuf')
               = Append(Stored(phead, pt[me], tbuf), f)
        <4> HIDE DEF f
        <4>1. PICK a \in Ring, j \in Ring, b \in [Ring -> Frame \cup {NoFrame}] :
                  a = phead /\ j = pt[me] /\ b = tbuf
          BY <1>1
        <4>2. D(a, j) < M - 1
          BY <3>4, <4>1
        <4>3. Added(a, j, b, f)
          BY <4>2, StoredMore
        <4>4. tbuf' = Put(b, j, f)
          BY <3>1, <4>1 DEF Put
        <4> QED BY <4>1, <4>3, <4>4 DEF Added
      <3>6. Phys!Waiting' = Append(Phys!Waiting, f)
        BY <1>2, <1>3, <2>1, <2>2, <2>5, <3>1, <3>3, <3>5
      <3> HIDE DEF f
      <3>7. Phys!Queue!Arrive(f)
        BY <2>1, <3>6 DEF Phys!Queue!Arrive
      <3> QED BY <3>2, <3>7 DEF Phys!Queue!Next
    <2> QED BY <1>1, <2>3, <2>4, <2>5
  <1>10. CASE Phys!WriteTail(me)
    <2>1. /\ ppc[me] = "loop" /\ ptail' = pt[me] /\ ppc' = [ppc EXCEPT ![me] = "idle"]
          /\ phead' = phead /\ pprogrammed' = pprogrammed /\ pbased' = pbased
          /\ tbuf' = tbuf /\ pout' = pout
      BY <1>10 DEF Phys!WriteTail, Phys!Goto
    <2>2. Upto' = Upto
      BY <1>0, <1>4, <2>1 DEF TxType
    <2> QED BY <1>2, <1>3, <2>1, <2>2
  <1>11. CASE UNCHANGED pvars
    <2>1. Upto' = Upto
      BY <1>4, <1>11 DEF pvars
    <2> QED BY <1>2, <1>3, <1>11, <2>1 DEF pvars
  <1> QED BY <1>6, <1>7, <1>8, <1>9, <1>10, <1>11, <1>a, <1>b, <1>c DEF Phys!Next, me

(* send_physnic() with one sender at a time implements a queue: for every  *)
(* size of the ring, each frame that is accepted goes out once, unchanged  *)
(* and in order, while the card takes frames out and the guest resets it   *)
(* between any two accesses to its registers.  Only when a reset between   *)
(* the writes to TDBA and TDLEN has left the card astray, what it sends    *)
(* until the next reset is not one of the frames.                          *)
THEOREM TransmissionIsQueue == Phys!Spec => SentInOrder
  <1>1. Phys!Spec => []TxInv
    BY TxInit, TxStep, PTL DEF Phys!Spec, Phys!vars, pvars
  <1>2. Phys!Spec => Phys!Queue!Init /\ [][QueueStep]_<<Phys!Waiting, pout>>
    BY <1>1, TxRefinesInit, TxRefinesStep, PTL DEF Phys!Spec, Phys!vars, pvars
  <1> QED BY <1>2 DEF SentInOrder, Phys!SentInOrder, QueueStep

-----------------------------------------------------------------------------
(***************************************************************************)
(* Reception by the guest.  Run(r, a, j) are the descriptors from a to the *)
(* one before j.  What they give to a guest (Gr!Got) says where it stands: *)
(* up to the head register it gets the accepted frames that it has not     *)
(* got, and behind it what sendvirt() has written of the current frame.  A *)
(* guest that polls may take that frame, if it is one descriptor long,     *)
(* before sendvirt() has moved the head register.                          *)
(***************************************************************************)
GRing == 0 .. GuestRing - 1

GD(a, j) == Distance(a, j, GuestRing)

GSlot(a, k) == IF a + k - 1 < GuestRing THEN a + k - 1 ELSE a + k - 1 - GuestRing

Run(r, a, j) == [k \in 1 .. GD(a, j) |-> r[GSlot(a, k)]]

Cell == [frame : Nat, n : Nat] \cup {[stale |-> TRUE]}

GuestDesc == [dd : BOOLEAN, eop : BOOLEAN, len : Nat, buf : Seq(Cell)]

(* What a guest has: whole frames, and a part of the next *)
Gotten == [frames : Seq(Seq(Cell)), partial : Seq(Cell)]

GrType ==
    /\ config \in Config
    /\ grring \in [GRing -> GuestDesc]
    /\ grhead \in GRing /\ grtail \in GRing /\ nr \in GRing /\ gri \in GRing
    /\ partial \in Seq(Cell) /\ grpkt \in Seq(Cell)
    /\ grpc \in {"idle", "next", "loop", "length"}
    /\ todo \in Seq(Length) /\ sent \in Seq(Length)
    /\ accepted \in Seq(Seq(Cell)) /\ received \in Seq(Seq(Cell))

Busy == grpc \in {"loop", "length"}

(* The frame that sendvirt() is at *)
Cur == Gr!Cells(Len(sent), sent[Len(sent)])

(* Descriptors a to hd - 1 bring a guest with frames rc and part p of the   *)
(* next to frames ac.                                                       *)
Follows(r, a, hd, tl, p, rc, ac) ==
    /\ GD(a, hd) <= GD(a, tl)
    /\ Gr!Got(Run(r, a, hd), p).partial = <<>>
    /\ rc \o Gr!Got(Run(r, a, hd), p).frames = ac

(* Descriptors hd to j - 1 bring frame f but for its end k. *)
Written(r, hd, j, k, f) ==
    /\ k = <<>> => /\ Gr!Got(Run(r, hd, j), <<>>).frames = <<f>>
                   /\ Gr!Got(Run(r, hd, j), <<>>).partial = <<>>
    /\ k # <<>> => /\ Gr!Got(Run(r, hd, j), <<>>).frames = <<>>
                   /\ Gr!Got(Run(r, hd, j), <<>>).partial \o k = f

(* The guest is not past the head register. *)
Behind == Follows(grring, nr, grhead, grtail, partial, received, accepted)

(* It has taken the current frame before the head register moved. *)
Past ==
    /\ grpc = "loop" /\ grpkt = <<>> /\ ~config.ext
    /\ nr = gri /\ partial = <<>> /\ received = Append(accepted, Cur)

(* What sendvirt() has written of the current frame *)
WrittenInv ==
    Busy =>
      /\ sent # <<>>
      /\ GD(grhead, gri) <= GD(grhead, grtail)
      /\ Written(grring, grhead, gri, grpkt, Cur)

(* Extended descriptors take whole frames. *)
ExtInv ==
    /\ Busy /\ config.ext => Len(grpkt) <= config.bufsize
    /\ grpc = "length" => /\ config.ext /\ grpkt # <<>> /\ gri # grtail
                          /\ grring[gri].eop /\ grring[gri].buf = grpkt

(* Only the last descriptor of a frame that is complete is marked done. *)
CleanInv ==
    ~config.ext =>
      \A s \in GRing :
         GD(grhead, s) < GD(grhead, grtail) /\ grring[s].dd
            => grpc = "loop" /\ grpkt = <<>> /\ Gr!NextIndex(s) = gri

GrInv ==
    /\ GrType
    /\ Behind \/ Past
    /\ WrittenInv
    /\ ExtInv
    /\ CleanInv
-----------------------------------------------------------------------------
(* What descriptors give to a guest, descriptor by descriptor *)
IsGot(f, ds, p, m) ==
    f[0] = [frames |-> <<>>, partial |-> p] /\ \A k \in 1 .. m : f[k] = Gr!Take(f[k - 1], ds[k])

Joined(a, b) == [frames |-> a.frames \o b.frames, partial |-> b.partial]

LEMMA ContentsAreCells ==
  ASSUME NEW d \in GuestDesc PROVE Gr!Contents(d) \in Seq(Cell)
  <1>1. d.len \in Nat /\ d.buf \in Seq(Cell) /\ [stale |-> TRUE] \in Cell
    BY DEF GuestDesc, Cell
  <1>2. \A k \in 1 .. d.len : (IF k <= Len(d.buf) THEN d.buf[k] ELSE [stale |-> TRUE]) \in Cell
    <2> SUFFICES ASSUME NEW k \in 1 .. d.len, k <= Len(d.buf) PROVE d.buf[k] \in Cell
      BY <1>1
    <2>1. k \in 1 .. Len(d.buf)
      BY <1>1
    <2> QED BY <1>1, <2>1, ElementOf
  <1> QED BY <1>1, <1>2, SequenceOf DEF Gr!Contents

LEMMA TakeIs ==
  ASSUME NEW a \in Gotten, NEW d \in GuestDesc
  PROVE  /\ Gr!Take(a, d) \in Gotten
         /\ d.eop => /\ Gr!Take(a, d).partial = <<>>
                     /\ Gr!Take(a, d).frames = Append(a.frames, a.partial \o Gr!Contents(d))
         /\ ~d.eop => /\ Gr!Take(a, d).partial = a.partial \o Gr!Contents(d)
                      /\ Gr!Take(a, d).frames = a.frames
  <1>1. PICK c \in Seq(Cell) : c = Gr!Contents(d)
    BY ContentsAreCells
  <1>2. a.frames \in Seq(Seq(Cell)) /\ a.partial \in Seq(Cell)
    BY DEF Gotten
  <1>3. a.partial \o c \in Seq(Cell)
    BY <1>2, ConcatProperties
  <1>4. Append(a.frames, a.partial \o c) \in Seq(Seq(Cell)) /\ <<>> \in Seq(Cell)
    BY <1>2, <1>3
  <1>5. Gr!Take(a, d) = IF d.eop THEN [frames |-> Append(a.frames, a.partial \o c), partial |-> <<>>]
                                 ELSE [frames |-> a.frames, partial |-> a.partial \o c]
    BY <1>1 DEF Gr!Take
  <1> QED BY <1>1, <1>2, <1>3, <1>4, <1>5 DEF Gotten

LEMMA TakeJoined ==
  ASSUME NEW a \in Gotten, NEW b \in Gotten, NEW d \in GuestDesc
  PROVE  Gr!Take(Joined(a, b), d) = Joined(a, Gr!Take(b, d))
  <1>1. PICK c \in Seq(Cell) : c = Gr!Contents(d)
    BY ContentsAreCells
  <1>2. /\ a.frames \in Seq(Seq(Cell)) /\ a.partial \in Seq(Cell)
        /\ b.frames \in Seq(Seq(Cell)) /\ b.partial \in Seq(Cell)
    BY DEF Gotten
  <1>3. PICK e \in Seq(Cell) : e = b.partial \o c
    BY <1>2, ConcatProperties
  <1>4. Append(a.frames \o b.frames, e) = a.frames \o Append(b.frames, e)
    <2>1. a.frames \o b.frames \in Seq(Seq(Cell)) /\ <<e>> \in Seq(Seq(Cell))
      BY <1>2, ConcatProperties
    <2>2. /\ Append(a.frames \o b.frames, e) = (a.frames \o b.frames) \o <<e>>
          /\ Append(b.frames, e) = b.frames \o <<e>>
      BY <1>2, <2>1, AppendIsConcat
    <2>3. (a.frames \o b.frames) \o <<e>> = a.frames \o (b.frames \o <<e>>)
      <3>1. PICK x \in Seq(Seq(Cell)), y \in Seq(Seq(Cell)), z \in Seq(Seq(Cell)) :
               x = a.frames /\ y = b.frames /\ z = <<e>>
        BY <1>2, <2>1
      <3>2. (x \o y) \o z = x \o (y \o z)
        BY ConcatAssociative
      <3> QED BY <3>1, <3>2
    <2> QED BY <2>2, <2>3
  <1>5. Joined(a, b).partial = b.partial /\ Joined(a, b).frames = a.frames \o b.frames
    BY DEF Joined
  <1>6. Gr!Take(Joined(a, b), d) = IF d.eop THEN [frames |-> Append(a.frames \o b.frames, e), partial |-> <<>>]
                                            ELSE [frames |-> a.frames \o b.frames, partial |-> e]
    BY <1>1, <1>3, <1>5 DEF Gr!Take
  <1>7. Gr!Take(b, d) = IF d.eop THEN [frames |-> Append(b.frames, e), partial |-> <<>>]
                                 ELSE [frames |-> b.frames, partial |-> e]
    BY <1>1, <1>3 DEF Gr!Take
  <1>8. CASE d.eop
    <2>1. /\ Gr!Take(Joined(a, b), d) = [frames |-> Append(a.frames \o b.frames, e), partial |-> <<>>]
          /\ Gr!Take(b, d) = [frames |-> Append(b.frames, e), partial |-> <<>>]
      BY <1>6, <1>7, <1>8
    <2> QED BY <1>4, <2>1 DEF Joined
  <1>9. CASE ~d.eop
    <2>1. /\ Gr!Take(Joined(a, b), d) = [frames |-> a.frames \o b.frames, partial |-> e]
          /\ Gr!Take(b, d) = [frames |-> b.frames, partial |-> e]
      BY <1>6, <1>7, <1>9
    <2> QED BY <2>1 DEF Joined
  <1> QED BY <1>8, <1>9

(* The descriptors that have been read determine what has been got. *)
LEMMA IsGotUnique ==
  ASSUME NEW s, NEW q, NEW p, NEW m \in Nat, NEW f, NEW g,
         IsGot(f, s, p, m), IsGot(g, q, p, m), \A k \in 1 .. m : s[k] = q[k]
  PROVE  \A k \in 0 .. m : f[k] = g[k]
  <1> DEFINE B == {k \in 0 .. m : f[k] # g[k]}
  <1> SUFFICES ASSUME B # {} PROVE FALSE
    OBVIOUS
  <1>1. B \in SUBSET Nat
    OBVIOUS
  <1>2. PICK x \in B : \A y \in B : x <= y
    BY <1>1, HasLeast
  <1>3. /\ f[0] = [frames |-> <<>>, partial |-> p] /\ g[0] = [frames |-> <<>>, partial |-> p]
        /\ \A k \in 1 .. m : f[k] = Gr!Take(f[k - 1], s[k])
        /\ \A k \in 1 .. m : g[k] = Gr!Take(g[k - 1], q[k])
    BY DEF IsGot
  <1>4. x # 0
    BY <1>3
  <1>5. x \in 1 .. m /\ x - 1 \in 0 .. m /\ x - 1 < x
    BY <1>4
  <1>6. x - 1 \notin B
    BY <1>1, <1>2, <1>5
  <1>7. f[x - 1] = g[x - 1]
    BY <1>5, <1>6
  <1>8. f[x] = g[x]
    BY <1>3, <1>5, <1>7
  <1> QED BY <1>8

LEMMA GotIs ==
  ASSUME NEW ds \in Seq(GuestDesc), NEW p \in Seq(Cell)
  PROVE  /\ IsGot(Gr!GotUpto(ds, p), ds, p, Len(ds))
         /\ \A k \in 0 .. Len(ds) : Gr!GotUpto(ds, p)[k] \in Gotten
         /\ Gr!Got(ds, p) \in Gotten
  <1>1. PICK n \in Nat : n = Len(ds)
    OBVIOUS
  <1>0. [frames |-> <<>>, partial |-> p] \in Gotten
    <2>1. <<>> \in Seq(Seq(Cell))
      OBVIOUS
    <2> QED BY <2>1 DEF Gotten
  <1>2. PICK c \in Gotten : c = [frames |-> <<>>, partial |-> p]
    BY <1>0
  <1> DEFINE g == [k \in 1 .. n |-> [a \in Gotten |-> Gr!Take(a, ds[k])]]
  <1>3. \A k \in 1 .. n : g[k] \in [Gotten -> Gotten]
    <2> SUFFICES ASSUME NEW k \in 1 .. n PROVE g[k] \in [Gotten -> Gotten]
      OBVIOUS
    <2>1. ds[k] \in GuestDesc
      BY <1>1, ElementOf
    <2>2. \A a \in Gotten : Gr!Take(a, ds[k]) \in Gotten
      BY <2>1, TakeIs
    <2> QED BY <2>2
  <1>4. PICK f \in [0 .. n -> Gotten] : Iterates(f, c, g, n)
    <2> HIDE DEF g
    <2> QED BY <1>3, IterationExists
  <1>5. \A k \in 1 .. n : f[k] = Gr!Take(f[k - 1], ds[k])
    <2> SUFFICES ASSUME NEW k \in 1 .. n PROVE f[k] = Gr!Take(f[k - 1], ds[k])
      OBVIOUS
    <2>1. f[k - 1] \in Gotten
      BY <1>4
    <2>2. f[k] = g[k][f[k - 1]]
      BY <1>4 DEF Iterates
    <2> QED BY <2>1, <2>2
  <1>6. f[0] = c
    BY <1>4 DEF Iterates
  <1> DEFINE Rest(u, k) == IF k = 0 THEN [frames |-> <<>>, partial |-> p] ELSE Gr!Take(u[k - 1], ds[k])
  <1>7. \A k \in 0 .. n : f[k] = Rest(f, k)
    <2>1. \A k \in 0 .. n : k # 0 => k \in 1 .. n
      OBVIOUS
    <2> QED BY <1>2, <1>5, <1>6, <2>1
  <1>8. f = [k \in 0 .. n |-> Rest(f, k)]
    <2> HIDE DEF Rest
    <2> QED BY <1>4, <1>7
  <1>9. Gr!GotUpto(ds, p) = [k \in 0 .. n |-> Rest(Gr!GotUpto(ds, p), k)]
    BY <1>1, <1>8, Zenon DEF Gr!GotUpto
  <1>10. PICK u : u = Gr!GotUpto(ds, p)
    OBVIOUS
  <1>11. \A k \in 0 .. n : u[k] = Rest(u, k)
    <2> HIDE DEF Rest
    <2> QED BY <1>9, <1>10
  <1>12. IsGot(u, ds, p, n)
    <2>0. 0 \in 0 .. n
      OBVIOUS
    <2>1. u[0] = [frames |-> <<>>, partial |-> p]
      <3>1. u[0] = Rest(u, 0)
        <4> HIDE DEF Rest
        <4> QED BY <1>11, <2>0
      <3> QED BY <3>1
    <2>2. \A k \in 1 .. n : k \in 0 .. n /\ k # 0
      OBVIOUS
    <2>3. \A k \in 1 .. n : u[k] = Gr!Take(u[k - 1], ds[k])
      BY <1>11, <2>2
    <2> QED BY <2>1, <2>3 DEF IsGot
  <1>13. IsGot(f, ds, p, n)
    BY <1>2, <1>5, <1>6 DEF IsGot
  <1>14. \A k \in 0 .. n : u[k] = f[k]
    BY <1>12, <1>13, IsGotUnique
  <1>15. \A k \in 0 .. n : u[k] \in Gotten
    BY <1>4, <1>14
  <1>16. u[n] \in Gotten
    BY <1>15
  <1> QED BY <1>1, <1>10, <1>12, <1>15, <1>16 DEF Gr!Got

LEMMA GotNothing ==
  ASSUME NEW p \in Seq(Cell)
  PROVE  Gr!Got(<<>>, p) = [frames |-> <<>>, partial |-> p]
  <1>0. <<>> \in Seq(GuestDesc) /\ Len(<<>>) = 0
    OBVIOUS
  <1>1. PICK s \in Seq(GuestDesc) : s = <<>>
    BY <1>0
  <1>2. IsGot(Gr!GotUpto(s, p), s, p, Len(s)) /\ Len(s) = 0
    BY <1>0, <1>1, GotIs
  <1>3. Gr!GotUpto(s, p)[Len(s)] = [frames |-> <<>>, partial |-> p]
    BY <1>2 DEF IsGot
  <1> QED BY <1>1, <1>3 DEF Gr!Got

LEMMA GotPrefix ==
  ASSUME NEW s \in Seq(GuestDesc), NEW q \in Seq(GuestDesc), NEW p \in Seq(Cell),
         Len(q) <= Len(s), \A k \in 1 .. Len(q) : s[k] = q[k]
  PROVE  Gr!Got(q, p) = Gr!GotUpto(s, p)[Len(q)]
  <1>1. IsGot(Gr!GotUpto(s, p), s, p, Len(s)) /\ IsGot(Gr!GotUpto(q, p), q, p, Len(q))
    BY GotIs
  <1>2. IsGot(Gr!GotUpto(s, p), s, p, Len(q))
    BY <1>1 DEF IsGot
  <1>3. PICK m \in Nat : m = Len(q)
    OBVIOUS
  <1>4. \A k \in 0 .. m : Gr!GotUpto(s, p)[k] = Gr!GotUpto(q, p)[k]
    <2>1. PICK f, g : f = Gr!GotUpto(s, p) /\ g = Gr!GotUpto(q, p)
      OBVIOUS
    <2>2. IsGot(f, s, p, m) /\ IsGot(g, q, p, m) /\ \A k \in 1 .. m : s[k] = q[k]
      BY <1>1, <1>2, <1>3, <2>1
    <2>3. \A k \in 0 .. m : f[k] = g[k]
      BY <2>2, IsGotUnique
    <2> QED BY <2>1, <2>3
  <1> QED BY <1>3, <1>4 DEF Gr!Got

LEMMA GotOneMore ==
  ASSUME NEW s \in Seq(GuestDesc), NEW d \in GuestDesc, NEW p \in Seq(Cell)
  PROVE  Gr!Got(Append(s, d), p) = Gr!Take(Gr!Got(s, p), d)
  <1>0. Append(s, d) \in Seq(GuestDesc)
    OBVIOUS
  <1>1. PICK w \in Seq(GuestDesc) : w = Append(s, d)
    BY <1>0
  <1>2. Len(w) = Len(s) + 1 /\ w[Len(s) + 1] = d /\ Len(s) \in Nat /\ \A k \in 1 .. Len(s) : w[k] = s[k]
    BY <1>1
  <1>3. IsGot(Gr!GotUpto(w, p), w, p, Len(w))
    BY GotIs
  <1>4. Gr!GotUpto(w, p)[Len(s) + 1] = Gr!Take(Gr!GotUpto(w, p)[Len(s)], d)
    <2>1. PICK n \in Nat : n = Len(s)
      BY <1>2
    <2>2. n + 1 \in 1 .. Len(w) /\ (n + 1) - 1 = n
      BY <1>2, <2>1
    <2>3. Gr!GotUpto(w, p)[n + 1] = Gr!Take(Gr!GotUpto(w, p)[(n + 1) - 1], w[n + 1])
      BY <1>3, <2>2 DEF IsGot
    <2> QED BY <1>2, <2>1, <2>2, <2>3
  <1>5. Gr!Got(s, p) = Gr!GotUpto(w, p)[Len(s)]
    BY <1>2, GotPrefix
  <1> QED BY <1>1, <1>2, <1>4, <1>5 DEF Gr!Got

(* One run of descriptors after the other *)
LEMMA GotBoth ==
  ASSUME NEW s \in Seq(GuestDesc), NEW q \in Seq(GuestDesc), NEW p \in Seq(Cell)
  PROVE  Gr!Got(s \o q, p) = Joined(Gr!Got(s, p), Gr!Got(q, Gr!Got(s, p).partial))
  <1>1. PICK w \in Seq(GuestDesc) : w = s \o q
    BY ConcatProperties
  <1>2. PICK m \in Nat, n \in Nat : m = Len(s) /\ n = Len(q)
    OBVIOUS
  <1>3. /\ Len(w) = m + n
        /\ \A k \in 1 .. m : w[k] = s[k]
        /\ \A k \in 1 .. n : w[m + k] = q[k]
    BY <1>1, <1>2, ConcatProperties
  <1>4. PICK a \in Gotten : a = Gr!Got(s, p)
    BY GotIs
  <1>5. a.partial \in Seq(Cell) /\ a.frames \in Seq(Seq(Cell))
    BY DEF Gotten
  <1>6. PICK f, g : f = Gr!GotUpto(w, p) /\ g = Gr!GotUpto(q, a.partial)
    OBVIOUS
  <1>7. IsGot(f, w, p, m + n) /\ IsGot(g, q, a.partial, n) /\ \A k \in 0 .. n : g[k] \in Gotten
    <2>1. IsGot(Gr!GotUpto(w, p), w, p, Len(w))
      BY GotIs
    <2>2. IsGot(Gr!GotUpto(q, a.partial), q, a.partial, Len(q)) /\ \A k \in 0 .. Len(q) : Gr!GotUpto(q, a.partial)[k] \in Gotten
      BY <1>5, GotIs
    <2> QED BY <1>2, <1>3, <1>6, <2>1, <2>2
  <1>8. f[m] = a
    <2>0. Len(s) <= Len(w) /\ \A k \in 1 .. Len(s) : w[k] = s[k]
      BY <1>2, <1>3
    <2>1. Gr!Got(s, p) = Gr!GotUpto(w, p)[Len(s)]
      BY <2>0, GotPrefix
    <2> QED BY <1>2, <1>4, <1>6, <2>1
  <1> DEFINE B == {k \in 0 .. n : f[m + k] # Joined(a, g[k])}
  <1>9. B = {}
    <2> SUFFICES ASSUME B # {} PROVE FALSE
      OBVIOUS
    <2>1. B \in SUBSET Nat
      OBVIOUS
    <2>2. PICK x \in B : \A y \in B : x <= y
      BY <2>1, HasLeast
    <2>3. CASE x = 0
      <3>1. g[0] = [frames |-> <<>>, partial |-> a.partial]
        BY <1>7 DEF IsGot
      <3>2. a.frames \o <<>> = a.frames
        BY <1>5, ConcatEmptySeq
      <3>3. Joined(a, g[0]) = [frames |-> a.frames, partial |-> a.partial]
        BY <3>1, <3>2 DEF Joined
      <3>4. a = [frames |-> a.frames, partial |-> a.partial]
        BY DEF Gotten
      <3> QED BY <1>8, <2>2, <2>3, <3>3, <3>4
    <2>4. CASE x # 0
      <3>1. x \in 1 .. n /\ x - 1 \in 0 .. n /\ x - 1 < x /\ m + x \in 1 .. m + n /\ (m + x) - 1 = m + (x - 1)
        BY <2>2, <2>4
      <3>2. x - 1 \notin B
        BY <2>1, <2>2, <3>1
      <3>3. f[m + (x - 1)] = Joined(a, g[x - 1])
        BY <3>1, <3>2
      <3>4. f[m + x] = Gr!Take(f[(m + x) - 1], w[m + x]) /\ g[x] = Gr!Take(g[x - 1], q[x])
        BY <1>7, <3>1 DEF IsGot
      <3>5. w[m + x] = q[x] /\ q[x] \in GuestDesc /\ g[x - 1] \in Gotten
        BY <1>2, <1>3, <1>7, <3>1, ElementOf
      <3>6. Gr!Take(Joined(a, g[x - 1]), q[x]) = Joined(a, Gr!Take(g[x - 1], q[x]))
        BY <3>5, TakeJoined
      <3>7. f[m + x] = Joined(a, g[x])
        BY <3>1, <3>3, <3>4, <3>5, <3>6
      <3> QED BY <2>2, <3>7
    <2> QED BY <2>3, <2>4
  <1>10. f[m + n] = Joined(a, g[n])
    <2>1. n \in 0 .. n
      OBVIOUS
    <2>2. n \notin B
      <3> HIDE DEF B
      <3> QED BY <1>9
    <2> QED BY <2>1, <2>2
  <1>11. Gr!Got(w, p) = f[m + n] /\ Gr!Got(q, a.partial) = g[n]
    BY <1>2, <1>3, <1>6 DEF Gr!Got
  <1> QED BY <1>1, <1>4, <1>10, <1>11
-----------------------------------------------------------------------------
LEMMA GRingFacts ==
  /\ GuestRing \in Nat /\ GuestRing > 1 /\ GRing = 0 .. GuestRing - 1 /\ 0 \in GRing
  /\ \A x \in GRing : Gr!NextIndex(x) \in GRing
  /\ \A x \in GRing : Gr!NextIndex(x) = IF x = GuestRing - 1 THEN 0 ELSE x + 1
  BY GuestRxAssumption DEF GRing, Gr!NextIndex

LEMMA GDIs ==
  ASSUME NEW a \in GRing, NEW j \in GRing
  PROVE  /\ GD(a, j) = IF j >= a THEN j - a ELSE j - a + GuestRing
         /\ GD(a, j) \in 0 .. GuestRing - 1
         /\ (j - a) % GuestRing = GD(a, j)
  <1>1. GuestRing \in Nat \ {0} /\ a \in 0 .. GuestRing - 1 /\ j \in 0 .. GuestRing - 1
    BY GRingFacts
  <1> QED BY <1>1, DistanceIs DEF GD, Distance

LEMMA GSlotIs ==
  ASSUME NEW a \in GRing, NEW k \in 1 .. GuestRing
  PROVE  (a + k - 1) % GuestRing = GSlot(a, k) /\ GSlot(a, k) \in GRing
  <1>1. GuestRing \in Nat \ {0} /\ a \in 0 .. GuestRing - 1
    BY GRingFacts
  <1>2. CASE a + k - 1 < GuestRing
    <2>1. a + k - 1 \in 0 .. GuestRing - 1
      BY <1>1, <1>2
    <2>2. (a + k - 1) % GuestRing = a + k - 1
      BY <1>1, <2>1, SmallRemainder
    <2> QED BY <1>2, <2>1, <2>2, GRingFacts DEF GSlot
  <1>3. CASE a + k - 1 >= GuestRing
    <2>1. a + k - 1 - GuestRing \in 0 .. GuestRing - 1 /\ (a + k - 1 - GuestRing) + GuestRing = a + k - 1
      BY <1>1, <1>3
    <2>2. ((a + k - 1 - GuestRing) + GuestRing) % GuestRing = a + k - 1 - GuestRing
      BY <1>1, <2>1, OneTurnRemainder
    <2>3. (a + k - 1) % GuestRing = a + k - 1 - GuestRing
      BY <2>1, <2>2
    <2>4. GSlot(a, k) = a + k - 1 - GuestRing
      BY <1>1, <1>3 DEF GSlot
    <2> QED BY <2>1, <2>3, <2>4, GRingFacts
  <1> QED BY <1>1, <1>2, <1>3

LEMMA RunType ==
  ASSUME NEW r \in [GRing -> GuestDesc], NEW a \in GRing, NEW j \in GRing
  PROVE  /\ Run(r, a, j) \in Seq(GuestDesc) /\ Len(Run(r, a, j)) = GD(a, j)
         /\ \A k \in 1 .. GD(a, j) : Run(r, a, j)[k] = r[GSlot(a, k)] /\ GSlot(a, k) \in GRing
  <1>1. GD(a, j) \in 0 .. GuestRing - 1 /\ GuestRing \in Nat
    BY GDIs, GRingFacts
  <1>2. \A k \in 1 .. GD(a, j) : k \in 1 .. GuestRing
    BY <1>1
  <1>3. \A k \in 1 .. GD(a, j) : GSlot(a, k) \in GRing
    BY <1>2, GSlotIs
  <1>4. PICK n \in Nat : n = GD(a, j)
    BY <1>1
  <1>5. \A k \in 1 .. n : r[GSlot(a, k)] \in GuestDesc
    BY <1>3, <1>4
  <1>6. [k \in 1 .. n |-> r[GSlot(a, k)]] \in Seq(GuestDesc) /\ Len([k \in 1 .. n |-> r[GSlot(a, k)]]) = n
    BY <1>5, SequenceOf
  <1> QED BY <1>3, <1>4, <1>6 DEF Run

LEMMA RunIs ==
  ASSUME NEW r \in [GRing -> GuestDesc], NEW a \in GRing, NEW j \in GRing
  PROVE  [k \in 1 .. (j - a) % GuestRing |-> r[(a + k - 1) % GuestRing]] = Run(r, a, j)
  <1>1. GD(a, j) \in 0 .. GuestRing - 1 /\ GuestRing \in Nat /\ (j - a) % GuestRing = GD(a, j)
    BY GDIs, GRingFacts
  <1>2. \A k \in 1 .. GD(a, j) : k \in 1 .. GuestRing
    BY <1>1
  <1>3. \A k \in 1 .. GD(a, j) : (a + k - 1) % GuestRing = GSlot(a, k)
    BY <1>2, GSlotIs
  <1> QED BY <1>1, <1>3 DEF Run

LEMMA RunEmpty ==
  ASSUME NEW r, NEW a \in GRing
  PROVE  Run(r, a, a) = <<>> /\ GD(a, a) = 0
  <1>1. GD(a, a) = 0
    BY GDIs, GRingFacts
  <1> QED BY <1>1 DEF Run

(* The k-th descriptor is k - 1 behind the first. *)
LEMMA GSlotGap ==
  ASSUME NEW a \in GRing, NEW k \in 1 .. GuestRing
  PROVE  GSlot(a, k) \in GRing /\ GD(a, GSlot(a, k)) = k - 1
  <1>1. GSlot(a, k) \in GRing
    BY GSlotIs
  <1>2. GSlot(a, k) = IF a + k - 1 < GuestRing THEN a + k - 1 ELSE a + k - 1 - GuestRing
    BY DEF GSlot
  <1>3. GD(a, GSlot(a, k)) = IF GSlot(a, k) >= a THEN GSlot(a, k) - a ELSE GSlot(a, k) - a + GuestRing
    BY <1>1, GDIs
  <1> QED BY <1>1, <1>2, <1>3, GRingFacts

LEMMA RunSame ==
  ASSUME NEW r, NEW q, NEW a \in GRing, NEW j \in GRing,
         \A s \in GRing : GD(a, s) < GD(a, j) => r[s] = q[s]
  PROVE  Run(r, a, j) = Run(q, a, j)
  <1>1. GD(a, j) \in 0 .. GuestRing - 1 /\ GuestRing \in Nat
    BY GDIs, GRingFacts
  <1>2. \A k \in 1 .. GD(a, j) : k \in 1 .. GuestRing /\ k - 1 < GD(a, j)
    BY <1>1
  <1>3. \A k \in 1 .. GD(a, j) : r[GSlot(a, k)] = q[GSlot(a, k)]
    BY <1>2, GSlotGap
  <1> QED BY <1>3 DEF Run

(* Two runs *)
LEMMA RunBoth ==
  ASSUME NEW r \in [GRing -> GuestDesc], NEW a \in GRing, NEW m \in GRing, NEW j \in GRing,
         GD(a, m) <= GD(a, j)
  PROVE  Run(r, a, j) = Run(r, a, m) \o Run(r, m, j) /\ GD(a, j) = GD(a, m) + GD(m, j)
  <1>1. /\ Run(r, a, m) \in Seq(GuestDesc) /\ Len(Run(r, a, m)) = GD(a, m)
        /\ \A k \in 1 .. GD(a, m) : Run(r, a, m)[k] = r[GSlot(a, k)]
    BY RunType
  <1>2. /\ Run(r, m, j) \in Seq(GuestDesc) /\ Len(Run(r, m, j)) = GD(m, j)
        /\ \A k \in 1 .. GD(m, j) : Run(r, m, j)[k] = r[GSlot(m, k)]
    BY RunType
  <1>3. /\ GD(a, m) = IF m >= a THEN m - a ELSE m - a + GuestRing
        /\ GD(a, j) = IF j >= a THEN j - a ELSE j - a + GuestRing
        /\ GD(m, j) = IF j >= m THEN j - m ELSE j - m + GuestRing
        /\ GD(a, m) \in 0 .. GuestRing - 1 /\ GD(a, j) \in 0 .. GuestRing - 1 /\ GD(m, j) \in 0 .. GuestRing - 1
        /\ GuestRing \in Nat /\ a \in 0 .. GuestRing - 1 /\ m \in 0 .. GuestRing - 1 /\ j \in 0 .. GuestRing - 1
    BY GDIs, GRingFacts
  <1>a. GD(a, m) \in Nat /\ GD(a, j) \in Nat /\ GD(m, j) \in Nat
    BY <1>3
  <1>4. PICK x \in Nat, y \in Nat, z \in Nat : x = GD(a, m) /\ y = GD(m, j) /\ z = GD(a, j)
    BY <1>a
  <1>5. z = x + y
    BY <1>3, <1>4
  <1>6. \A k \in 1 .. y : GSlot(m, k) = GSlot(a, x + k)
    BY <1>3, <1>4 DEF GSlot
  <1>7. PICK u \in Seq(GuestDesc), v \in Seq(GuestDesc) : u = Run(r, a, m) /\ v = Run(r, m, j)
    BY <1>1, <1>2
  <1>8. Len(u) = x /\ Len(v) = y
    BY <1>1, <1>2, <1>4, <1>7
  <1>9. /\ u \o v \in Seq(GuestDesc) /\ Len(u \o v) = x + y
        /\ \A k \in 1 .. x + y : (u \o v)[k] = IF k <= x THEN u[k] ELSE v[k - x]
    BY <1>8, ConcatProperties
  <1>10. \A k \in 1 .. x + y : (IF k <= x THEN u[k] ELSE v[k - x]) = r[GSlot(a, k)]
    <2> SUFFICES ASSUME NEW k \in 1 .. x + y
                 PROVE  (IF k <= x THEN u[k] ELSE v[k - x]) = r[GSlot(a, k)]
      OBVIOUS
    <2>1. CASE k <= x
      <3>1. k \in 1 .. x
        BY <2>1
      <3> QED BY <1>1, <1>4, <1>7, <2>1, <3>1
    <2>2. CASE ~(k <= x)
      <3>1. k - x \in 1 .. y /\ x + (k - x) = k
        BY <2>2
      <3>2. v[k - x] = r[GSlot(m, k - x)] /\ GSlot(m, k - x) = GSlot(a, x + (k - x))
        BY <1>2, <1>4, <1>6, <1>7, <3>1
      <3> QED BY <2>2, <3>1, <3>2
    <2> QED BY <2>1, <2>2
  <1>11. /\ Run(r, a, j) \in Seq(GuestDesc) /\ Len(Run(r, a, j)) = x + y
         /\ \A k \in 1 .. x + y : Run(r, a, j)[k] = r[GSlot(a, k)]
    <2>1. /\ Run(r, a, j) \in Seq(GuestDesc) /\ Len(Run(r, a, j)) = GD(a, j)
          /\ \A k \in 1 .. GD(a, j) : Run(r, a, j)[k] = r[GSlot(a, k)]
      BY RunType
    <2>2. GD(a, j) = x + y
      BY <1>4, <1>5
    <2> QED BY <2>1, <2>2
  <1>12. Run(r, a, j) = u \o v
    <2>1. PICK w \in Seq(GuestDesc), w2 \in Seq(GuestDesc) : w = Run(r, a, j) /\ w2 = u \o v
      BY <1>9, <1>11
    <2>2. Len(w) = Len(w2) /\ Len(w) = x + y
      BY <1>9, <1>11, <2>1
    <2>3. \A k \in 1 .. x + y : w[k] = w2[k]
      BY <1>9, <1>10, <1>11, <2>1
    <2> QED BY <2>1, <2>2, <2>3, SeqEqual
  <1> QED BY <1>4, <1>5, <1>7, <1>12

(* One descriptor more *)
LEMMA RunMore ==
  ASSUME NEW r \in [GRing -> GuestDesc], NEW a \in GRing, NEW j \in GRing, Gr!NextIndex(j) # a
  PROVE  Run(r, a, Gr!NextIndex(j)) = Append(Run(r, a, j), r[j]) /\ GD(a, Gr!NextIndex(j)) = GD(a, j) + 1
  <1>1. PICK e \in GRing : e = Gr!NextIndex(j)
    BY GRingFacts
  <1>2. /\ GD(a, e) = IF e >= a THEN e - a ELSE e - a + GuestRing
        /\ GD(a, j) = IF j >= a THEN j - a ELSE j - a + GuestRing
        /\ GD(a, e) \in 0 .. GuestRing - 1 /\ GD(a, j) \in 0 .. GuestRing - 1
        /\ GuestRing \in Nat /\ a \in 0 .. GuestRing - 1 /\ e \in 0 .. GuestRing - 1 /\ j \in 0 .. GuestRing - 1
        /\ e = IF j = GuestRing - 1 THEN 0 ELSE j + 1
    BY <1>1, GDIs, GRingFacts
  <1>3. PICK x \in Nat : x = GD(a, j)
    BY <1>2
  <1>4. GD(a, e) = x + 1
    BY <1>1, <1>2, <1>3
  <1>5. GSlot(a, x + 1) = j
    BY <1>2, <1>3 DEF GSlot
  <1>6. /\ Run(r, a, j) \in Seq(GuestDesc) /\ Len(Run(r, a, j)) = GD(a, j)
        /\ \A k \in 1 .. GD(a, j) : Run(r, a, j)[k] = r[GSlot(a, k)]
    BY RunType
  <1>7. PICK u \in Seq(GuestDesc) : u = Run(r, a, j)
    BY <1>6
  <1>8. Len(u) = x /\ \A k \in 1 .. x : u[k] = r[GSlot(a, k)]
    BY <1>3, <1>6, <1>7
  <1>9. Append(u, r[j]) = [k \in 1 .. x + 1 |-> IF k = x + 1 THEN r[j] ELSE u[k]]
    <2>1. u = [k \in 1 .. x |-> r[GSlot(a, k)]]
      BY <1>3, <1>7 DEF Run
    <2> QED BY <1>8, <2>1
  <1>10. \A k \in 1 .. x + 1 : (IF k = x + 1 THEN r[j] ELSE u[k]) = r[GSlot(a, k)]
    <2>1. \A k \in 1 .. x + 1 : k = x + 1 \/ k \in 1 .. x
      OBVIOUS
    <2> QED BY <1>5, <1>8, <2>1
  <1>11. Run(r, a, e) = [k \in 1 .. x + 1 |-> r[GSlot(a, k)]]
    BY <1>4 DEF Run
  <1>12. Run(r, a, e) = Append(u, r[j])
    BY <1>9, <1>10, <1>11
  <1> QED BY <1>1, <1>3, <1>4, <1>7, <1>12
-----------------------------------------------------------------------------
LEMMA CellsGrouped ==
  \A x, y, z \in Seq(Cell) : (x \o y) \o z = x \o (y \o z)
  BY ConcatAssociative

LEMMA FramesGrouped ==
  \A x, y, z \in Seq(Seq(Cell)) : (x \o y) \o z = x \o (y \o z)
  BY ConcatAssociative

LEMMA NoneGotten ==
  /\ <<>> \in Seq(Cell) /\ <<>> \in Seq(Seq(Cell)) /\ <<>> \in Seq(GuestDesc)
  /\ \A p \in Seq(Cell) : [frames |-> <<>>, partial |-> p] \in Gotten
  BY DEF Gotten

LEMMA SingleRun ==
  ASSUME NEW r \in [GRing -> GuestDesc], NEW a \in GRing
  PROVE  Run(r, a, Gr!NextIndex(a)) = <<r[a]>> /\ GD(a, Gr!NextIndex(a)) = 1
  <1>1. Gr!NextIndex(a) # a
    BY GRingFacts
  <1>2. Run(r, a, a) = <<>> /\ GD(a, a) = 0
    BY RunEmpty
  <1>3. Run(r, a, Gr!NextIndex(a)) = Append(Run(r, a, a), r[a]) /\ GD(a, Gr!NextIndex(a)) = GD(a, a) + 1
    BY <1>1, RunMore
  <1> QED BY <1>2, <1>3

LEMMA GotSingle ==
  ASSUME NEW d \in GuestDesc, NEW p \in Seq(Cell)
  PROVE  Gr!Got(<<d>>, p) = Gr!Take([frames |-> <<>>, partial |-> p], d)
  <1>1. PICK s \in Seq(GuestDesc) : s = <<>>
    BY NoneGotten
  <1>2. Append(s, d) = <<d>>
    BY <1>1
  <1>3. Gr!Got(Append(s, d), p) = Gr!Take(Gr!Got(s, p), d)
    BY GotOneMore
  <1> QED BY <1>1, <1>2, <1>3, GotNothing

(* Taking a descriptor adds to the frames that the guest has. *)
LEMMA TakeAdds ==
  ASSUME NEW rc \in Seq(Seq(Cell)), NEW p \in Seq(Cell), NEW d \in GuestDesc
  PROVE  /\ Gr!Take([frames |-> rc, partial |-> p], d).frames
               = rc \o Gr!Take([frames |-> <<>>, partial |-> p], d).frames
         /\ Gr!Take([frames |-> rc, partial |-> p], d).partial
               = Gr!Take([frames |-> <<>>, partial |-> p], d).partial
         /\ Gr!Take([frames |-> <<>>, partial |-> p], d) \in Gotten
         /\ Gr!Take([frames |-> rc, partial |-> p], d) \in Gotten
  <1>1. /\ [frames |-> rc, partial |-> p] \in Gotten /\ [frames |-> rc, partial |-> <<>>] \in Gotten
        /\ [frames |-> <<>>, partial |-> p] \in Gotten
    <2>1. <<>> \in Seq(Seq(Cell)) /\ <<>> \in Seq(Cell)
      OBVIOUS
    <2> QED BY <2>1 DEF Gotten
  <1>2. PICK x \in Gotten, y \in Gotten, z \in Gotten :
           /\ x = [frames |-> rc, partial |-> p] /\ y = [frames |-> rc, partial |-> <<>>]
           /\ z = [frames |-> <<>>, partial |-> p]
    BY <1>1
  <1>3. rc \o <<>> = rc
    BY ConcatEmptySeq
  <1>4. Joined(y, z) = x
    BY <1>2, <1>3 DEF Joined
  <1>5. Gr!Take(Joined(y, z), d) = Joined(y, Gr!Take(z, d))
    BY TakeJoined
  <1>6. Gr!Take(x, d).frames = y.frames \o Gr!Take(z, d).frames /\ Gr!Take(x, d).partial = Gr!Take(z, d).partial
    <2>1. PICK e : e = Gr!Take(z, d)
      OBVIOUS
    <2>2. Gr!Take(x, d) = Joined(y, e)
      BY <1>4, <1>5, <2>1
    <2>3. Joined(y, e).frames = y.frames \o e.frames /\ Joined(y, e).partial = e.partial
      BY DEF Joined
    <2> QED BY <2>1, <2>2, <2>3
  <1>7. Gr!Take(x, d) \in Gotten /\ Gr!Take(z, d) \in Gotten
    BY TakeIs
  <1>8. y.frames = rc
    BY <1>2
  <1> QED BY <1>2, <1>6, <1>7, <1>8

(* The guest has read everything. *)
LEMMA FollowsEmpty ==
  ASSUME NEW r, NEW a \in GRing, NEW tl \in GRing, NEW p \in Seq(Cell), NEW rc \in Seq(Seq(Cell)), NEW ac
  PROVE  Follows(r, a, a, tl, p, rc, ac) <=> p = <<>> /\ rc = ac
  <1>1. Run(r, a, a) = <<>> /\ GD(a, a) = 0
    BY RunEmpty
  <1>2. Gr!Got(Run(r, a, a), p) = [frames |-> <<>>, partial |-> p]
    BY <1>1, GotNothing
  <1>3. Gr!Got(Run(r, a, a), p).frames = <<>> /\ Gr!Got(Run(r, a, a), p).partial = p
    BY <1>2
  <1>4. rc \o <<>> = rc
    BY ConcatEmptySeq
  <1>5. GD(a, a) <= GD(a, tl)
    BY <1>1, GDIs, GRingFacts
  <1> QED BY <1>3, <1>4, <1>5 DEF Follows

LEMMA FollowsSame ==
  ASSUME NEW r, NEW q, NEW a \in GRing, NEW hd \in GRing, NEW tl, NEW p, NEW rc, NEW ac,
         Follows(r, a, hd, tl, p, rc, ac), \A s \in GRing : GD(a, s) < GD(a, hd) => r[s] = q[s]
  PROVE  Follows(q, a, hd, tl, p, rc, ac)
  <1>1. Run(r, a, hd) = Run(q, a, hd)
    BY RunSame
  <1> QED BY <1>1 DEF Follows

LEMMA WrittenSame ==
  ASSUME NEW r, NEW q, NEW hd \in GRing, NEW j \in GRing, NEW k, NEW f,
         Written(r, hd, j, k, f), \A s \in GRing : GD(hd, s) < GD(hd, j) => r[s] = q[s]
  PROVE  Written(q, hd, j, k, f)
  <1>1. Run(r, hd, j) = Run(q, hd, j)
    BY RunSame
  <1> QED BY <1>1 DEF Written

(* The guest reads a descriptor in front of the head register. *)
LEMMA FollowsRead ==
  ASSUME NEW r \in [GRing -> GuestDesc], NEW a \in GRing, NEW hd \in GRing, NEW tl \in GRing,
         NEW p \in Seq(Cell), NEW rc \in Seq(Seq(Cell)), NEW ac,
         Follows(r, a, hd, tl, p, rc, ac), a # hd, a # tl, NEW got,
         got = Gr!Take([frames |-> rc, partial |-> p], r[a])
  PROVE  Follows(r, Gr!NextIndex(a), hd, tl, got.partial, got.frames, ac)
  <1>1. PICK e \in GRing : e = Gr!NextIndex(a)
    BY GRingFacts
  <1>2. /\ GD(a, hd) <= GD(a, tl)
        /\ Gr!Got(Run(r, a, hd), p).partial = <<>>
        /\ rc \o Gr!Got(Run(r, a, hd), p).frames = ac
    BY DEF Follows
  <1>3. Run(r, a, e) = <<r[a]>> /\ GD(a, e) = 1
    BY <1>1, SingleRun
  <1>4. GD(a, e) <= GD(a, hd) /\ GD(e, hd) <= GD(e, tl)
    <2>1. /\ GD(a, hd) = IF hd >= a THEN hd - a ELSE hd - a + GuestRing
          /\ GD(a, tl) = IF tl >= a THEN tl - a ELSE tl - a + GuestRing
          /\ GD(e, hd) = IF hd >= e THEN hd - e ELSE hd - e + GuestRing
          /\ GD(e, tl) = IF tl >= e THEN tl - e ELSE tl - e + GuestRing
      BY GDIs
    <2>2. /\ GuestRing \in Nat /\ a \in 0 .. GuestRing - 1 /\ e \in 0 .. GuestRing - 1
          /\ hd \in 0 .. GuestRing - 1 /\ tl \in 0 .. GuestRing - 1
          /\ e = IF a = GuestRing - 1 THEN 0 ELSE a + 1
      BY <1>1, GRingFacts
    <2> QED BY <1>2, <1>3, <2>1, <2>2
  <1>5. Run(r, a, hd) = <<r[a]>> \o Run(r, e, hd)
    <2>1. Run(r, a, hd) = Run(r, a, e) \o Run(r, e, hd)
      BY <1>4, RunBoth
    <2> QED BY <1>3, <2>1
  <1>6. PICK d \in GuestDesc, w \in Seq(GuestDesc) : d = r[a] /\ w = Run(r, e, hd)
    BY RunType
  <1>7. PICK x \in Gotten : x = Gr!Take([frames |-> <<>>, partial |-> p], d)
    BY TakeAdds
  <1>8. x.partial \in Seq(Cell) /\ x.frames \in Seq(Seq(Cell))
    BY DEF Gotten
  <1>9. <<d>> \in Seq(GuestDesc)
    OBVIOUS
  <1>10. Gr!Got(<<d>>, p) = x
    BY <1>7, GotSingle
  <1>11. Gr!Got(<<d>> \o w, p) = Joined(x, Gr!Got(w, x.partial))
    BY <1>9, <1>10, GotBoth
  <1>12. PICK y \in Gotten : y = Gr!Got(w, x.partial)
    BY <1>8, GotIs
  <1>13. y.frames \in Seq(Seq(Cell))
    BY DEF Gotten
  <1>14. /\ Gr!Got(Run(r, a, hd), p).frames = x.frames \o y.frames
         /\ Gr!Got(Run(r, a, hd), p).partial = y.partial
    <2>1. Gr!Got(Run(r, a, hd), p) = Joined(x, y)
      BY <1>5, <1>6, <1>11, <1>12
    <2>2. Joined(x, y).frames = x.frames \o y.frames /\ Joined(x, y).partial = y.partial
      BY DEF Joined
    <2> QED BY <2>1, <2>2
  <1>15. got.frames = rc \o x.frames /\ got.partial = x.partial
    BY <1>6, <1>7, TakeAdds
  <1>16. got.frames \o y.frames = ac
    <2>1. PICK u \in Seq(Seq(Cell)), v \in Seq(Seq(Cell)) : u = x.frames /\ v = y.frames
      BY <1>8, <1>13
    <2>2. (rc \o u) \o v = rc \o (u \o v)
      BY FramesGrouped
    <2> QED BY <1>2, <1>14, <1>15, <2>1, <2>2
  <1> QED BY <1>1, <1>2, <1>4, <1>6, <1>12, <1>14, <1>15, <1>16 DEF Follows

(* It takes the frame that has just been written. *)
LEMMA PastRead ==
  ASSUME NEW r \in [GRing -> GuestDesc], NEW a \in GRing, NEW rc \in Seq(Seq(Cell)), NEW f,
         Written(r, a, Gr!NextIndex(a), <<>>, f), NEW got,
         got = Gr!Take([frames |-> rc, partial |-> <<>>], r[a])
  PROVE  got.frames = Append(rc, f) /\ got.partial = <<>>
  <1>1. PICK d \in GuestDesc, p \in Seq(Cell) : d = r[a] /\ p = <<>>
    BY NoneGotten
  <1>2. Gr!Got(<<d>>, p).frames = <<f>> /\ Gr!Got(<<d>>, p).partial = <<>>
    BY <1>1, SingleRun DEF Written
  <1>3. PICK x \in Gotten : x = Gr!Take([frames |-> <<>>, partial |-> p], d)
    BY TakeAdds
  <1>4. x.frames = <<f>> /\ x.partial = <<>>
    BY <1>2, <1>3, GotSingle
  <1>5. got.frames = rc \o x.frames /\ got.partial = x.partial
    BY <1>1, <1>3, TakeAdds
  <1>6. <<f>> \in Seq(Seq(Cell))
    BY <1>4 DEF Gotten
  <1>7. f \in Seq(Cell)
    BY <1>6
  <1>8. Append(rc, f) = rc \o <<f>>
    BY <1>7, AppendIsConcat
  <1> QED BY <1>4, <1>5, <1>8

(* A frame has been written; s->head moves behind it. *)
LEMMA FollowsAccept ==
  ASSUME NEW r \in [GRing -> GuestDesc], NEW a \in GRing, NEW hd \in GRing, NEW tl \in GRing, NEW j \in GRing,
         NEW p \in Seq(Cell), NEW rc \in Seq(Seq(Cell)), NEW ac \in Seq(Seq(Cell)), NEW f \in Seq(Cell),
         Follows(r, a, hd, tl, p, rc, ac), Written(r, hd, j, <<>>, f), GD(hd, j) <= GD(hd, tl)
  PROVE  Follows(r, a, j, tl, p, rc, Append(ac, f))
  <1>1. /\ GD(a, hd) <= GD(a, tl)
        /\ Gr!Got(Run(r, a, hd), p).partial = <<>>
        /\ rc \o Gr!Got(Run(r, a, hd), p).frames = ac
    BY DEF Follows
  <1>2. GD(a, hd) <= GD(a, j) /\ GD(a, j) <= GD(a, tl)
    <2>1. /\ GD(a, hd) = IF hd >= a THEN hd - a ELSE hd - a + GuestRing
          /\ GD(a, tl) = IF tl >= a THEN tl - a ELSE tl - a + GuestRing
          /\ GD(a, j) = IF j >= a THEN j - a ELSE j - a + GuestRing
          /\ GD(hd, tl) = IF tl >= hd THEN tl - hd ELSE tl - hd + GuestRing
          /\ GD(hd, j) = IF j >= hd THEN j - hd ELSE j - hd + GuestRing
      BY GDIs
    <2>2. /\ GuestRing \in Nat /\ a \in 0 .. GuestRing - 1 /\ j \in 0 .. GuestRing - 1
          /\ hd \in 0 .. GuestRing - 1 /\ tl \in 0 .. GuestRing - 1
      BY GRingFacts
    <2> QED BY <1>1, <2>1, <2>2
  <1>3. PICK u \in Seq(GuestDesc), v \in Seq(GuestDesc) : u = Run(r, a, hd) /\ v = Run(r, hd, j)
    BY RunType
  <1>4. Run(r, a, j) = u \o v
    BY <1>2, <1>3, RunBoth
  <1>5. PICK x \in Gotten : x = Gr!Got(u, p)
    BY GotIs
  <1>6. x.partial = <<>> /\ rc \o x.frames = ac /\ x.frames \in Seq(Seq(Cell))
    BY <1>1, <1>3, <1>5 DEF Gotten
  <1>7. Gr!Got(u \o v, p) = Joined(x, Gr!Got(v, <<>>))
    BY <1>5, <1>6, GotBoth
  <1>8. Gr!Got(v, <<>>).frames = <<f>> /\ Gr!Got(v, <<>>).partial = <<>>
    BY <1>3 DEF Written
  <1>9. Gr!Got(Run(r, a, j), p).frames = x.frames \o <<f>> /\ Gr!Got(Run(r, a, j), p).partial = <<>>
    <2>1. PICK y : y = Gr!Got(v, <<>>)
      OBVIOUS
    <2>2. Gr!Got(Run(r, a, j), p) = Joined(x, y)
      BY <1>4, <1>7, <2>1
    <2>3. Joined(x, y).frames = x.frames \o y.frames /\ Joined(x, y).partial = y.partial
      BY DEF Joined
    <2> QED BY <1>8, <2>1, <2>2, <2>3
  <1>10. rc \o (x.frames \o <<f>>) = Append(ac, f)
    <2>0. <<f>> \in Seq(Seq(Cell))
      OBVIOUS
    <2>1. PICK y \in Seq(Seq(Cell)), z \in Seq(Seq(Cell)) : y = x.frames /\ z = <<f>>
      BY <1>6, <2>0
    <2>2. (rc \o y) \o z = rc \o (y \o z)
      BY FramesGrouped
    <2>3. Append(ac, f) = ac \o <<f>>
      BY AppendIsConcat
    <2> QED BY <1>6, <2>1, <2>2, <2>3
  <1> QED BY <1>2, <1>9, <1>10 DEF Follows

(* sendvirt() begins with a frame. *)
LEMMA WrittenStart ==
  ASSUME NEW r, NEW hd \in GRing, NEW f \in Seq(Cell), f # <<>>
  PROVE  Written(r, hd, hd, f, f)
  <1>1. PICK p \in Seq(Cell) : p = <<>>
    BY NoneGotten
  <1>2. Gr!Got(<<>>, p) = [frames |-> <<>>, partial |-> p]
    BY GotNothing
  <1>3. Run(r, hd, hd) = <<>>
    BY RunEmpty
  <1>4. <<>> \o f = f
    BY ConcatEmptySeq
  <1> QED BY <1>1, <1>2, <1>3, <1>4 DEF Written

(* It fills a descriptor in, with the beginning of k; k2 is the rest. *)
LEMMA WrittenMore ==
  ASSUME NEW r \in [GRing -> GuestDesc], NEW hd \in GRing, NEW j \in GRing, Gr!NextIndex(j) # hd,
         NEW f, NEW k \in Seq(Cell), k # <<>>, NEW c \in Seq(Cell), NEW k2 \in Seq(Cell),
         Written(r, hd, j, k, f), Gr!Contents(r[j]) = c, c \o k2 = k, r[j].eop <=> k2 = <<>>
  PROVE  Written(r, hd, Gr!NextIndex(j), k2, f)
  <1>1. PICK d \in GuestDesc, w \in Seq(GuestDesc), p \in Seq(Cell) : d = r[j] /\ w = Run(r, hd, j) /\ p = <<>>
    <2>1. <<>> \in Seq(Cell) /\ r[j] \in GuestDesc /\ Run(r, hd, j) \in Seq(GuestDesc)
      BY RunType
    <2> QED BY <2>1
  <1>2. PICK x \in Gotten : x = Gr!Got(w, p)
    BY GotIs
  <1>3. x.frames = <<>> /\ x.partial \o k = f
    BY <1>1, <1>2 DEF Written
  <1>4. x.partial \in Seq(Cell)
    BY DEF Gotten
  <1>5. Gr!Got(Run(r, hd, Gr!NextIndex(j)), <<>>) = Gr!Take(x, d)
    <2>1. Run(r, hd, Gr!NextIndex(j)) = Append(w, d)
      BY <1>1, RunMore
    <2>2. Gr!Got(Append(w, d), p) = Gr!Take(Gr!Got(w, p), d)
      BY GotOneMore
    <2> QED BY <1>1, <1>2, <2>1, <2>2
  <1>6. CASE d.eop
    <2>1. k2 = <<>> /\ c = k
      BY <1>1, <1>6, ConcatEmptySeq
    <2>2. Gr!Take(x, d).partial = <<>> /\ Gr!Take(x, d).frames = Append(x.frames, x.partial \o c)
      BY <1>1, <1>6, TakeIs
    <2>3. Append(x.frames, x.partial \o c) = <<f>>
      BY <1>3, <2>1
    <2> QED BY <1>5, <2>1, <2>2, <2>3 DEF Written
  <1>7. CASE ~d.eop
    <2>1. k2 # <<>>
      BY <1>1, <1>7
    <2>2. Gr!Take(x, d).partial = x.partial \o c /\ Gr!Take(x, d).frames = <<>>
      BY <1>1, <1>3, <1>7, TakeIs
    <2>3. (x.partial \o c) \o k2 = f
      <3>1. PICK y \in Seq(Cell) : y = x.partial
        BY <1>4
      <3>2. (y \o c) \o k2 = y \o (c \o k2)
        BY CellsGrouped, Zenon
      <3> QED BY <1>3, <3>1, <3>2
    <2> QED BY <1>5, <2>1, <2>2, <2>3 DEF Written
  <1> QED BY <1>6, <1>7
-----------------------------------------------------------------------------
LEMMA ConfigFacts ==
  /\ SENDVIRT_MAXSIZE \in Nat
  /\ \A x \in Length : x \in Nat /\ x > 0
  /\ \A c \in Config : c.bufsize \in Nat /\ c.bufsize > 0 /\ c.asize \in Nat
  /\ \A c \in Config : c.ext => SENDVIRT_MAXSIZE + c.asize <= c.bufsize /\ ~c.polls
  <1>1. \A c \in Config : c \in [ext : BOOLEAN, bufsize : Nat \ {0}, asize : {0, 1}, polls : BOOLEAN]
    BY GuestRxAssumption
  <1>2. \A c \in Config : c.bufsize \in Nat \ {0} /\ c.asize \in {0, 1}
    BY <1>1
  <1> QED BY <1>2, GuestRxAssumption

LEMMA CellsAre ==
  ASSUME config \in Config, NEW f \in Nat, NEW x \in Length
  PROVE  /\ Gr!Cells(f, x) \in Seq(Cell) /\ Gr!Cells(f, x) # <<>>
         /\ Len(Gr!Cells(f, x)) = x + config.asize
  <1>1. PICK m \in Nat : m = x + config.asize
    BY ConfigFacts
  <1>2. m > 0
    BY <1>1, ConfigFacts
  <1>3. \A k \in 1 .. m : [frame |-> f, n |-> k] \in Cell
    BY DEF Cell
  <1>4. PICK s : s = [k \in 1 .. m |-> [frame |-> f, n |-> k]]
    OBVIOUS
  <1>5. s \in [1 .. m -> Cell]
    BY <1>3, <1>4
  <1>6. s \in Seq(Cell) /\ Len(s) = m
    BY <1>5, SequenceOf
  <1>7. Gr!Cells(f, x) = s
    BY <1>1, <1>4 DEF Gr!Cells
  <1> QED BY <1>1, <1>2, <1>6, <1>7

LEMMA CurIs ==
  ASSUME GrType, sent # <<>>
  PROVE  Cur \in Seq(Cell) /\ Cur # <<>>
  <1>1. Len(sent) \in Nat /\ sent[Len(sent)] \in Length /\ config \in Config
    BY DEF GrType
  <1> QED BY <1>1, CellsAre DEF Cur

LEMMA GDZero ==
  ASSUME NEW a \in GRing, NEW j \in GRing
  PROVE  GD(a, j) \in Nat /\ GD(a, j) < GuestRing /\ (GD(a, j) = 0 <=> a = j)
  <1>1. /\ GD(a, j) = IF j >= a THEN j - a ELSE j - a + GuestRing
        /\ GD(a, j) \in 0 .. GuestRing - 1
        /\ GuestRing \in Nat /\ a \in 0 .. GuestRing - 1 /\ j \in 0 .. GuestRing - 1
    BY GDIs, GRingFacts
  <1> QED BY <1>1

LEMMA GDLess ==
  ASSUME NEW a \in GRing, NEW j \in GRing, NEW m \in GRing, GD(a, j) <= GD(a, m), j # m
  PROVE  GD(a, j) < GD(a, m)
  <1>1. /\ GD(a, j) = IF j >= a THEN j - a ELSE j - a + GuestRing
        /\ GD(a, m) = IF m >= a THEN m - a ELSE m - a + GuestRing
        /\ GuestRing \in Nat /\ a \in 0 .. GuestRing - 1 /\ j \in 0 .. GuestRing - 1 /\ m \in 0 .. GuestRing - 1
    BY GDIs, GRingFacts
  <1> QED BY <1>1

(* The guest hands a descriptor over. *)
LEMMA GDPost ==
  ASSUME NEW a \in GRing, NEW hd \in GRing, NEW tl \in GRing,
         GD(a, hd) <= GD(a, tl), Gr!NextIndex(tl) # a, NEW e, e = Gr!NextIndex(tl)
  PROVE  /\ GD(a, hd) <= GD(a, e)
         /\ \A s \in GRing : GD(a, s) < GD(a, hd) => s # tl
         /\ \A s \in GRing : GD(hd, s) < GD(hd, e) => s = tl \/ GD(hd, s) < GD(hd, tl)
  <1>1. /\ GuestRing \in Nat /\ GRing = 0 .. GuestRing - 1 /\ e \in GRing
        /\ e = IF tl = GuestRing - 1 THEN 0 ELSE tl + 1
    BY GRingFacts
  <1>2. /\ GD(a, hd) = IF hd >= a THEN hd - a ELSE hd - a + GuestRing
        /\ GD(a, tl) = IF tl >= a THEN tl - a ELSE tl - a + GuestRing
        /\ GD(a, e) = IF e >= a THEN e - a ELSE e - a + GuestRing
        /\ GD(hd, tl) = IF tl >= hd THEN tl - hd ELSE tl - hd + GuestRing
        /\ GD(hd, e) = IF e >= hd THEN e - hd ELSE e - hd + GuestRing
    BY <1>1, GDIs
  <1>3. GD(a, hd) <= GD(a, e)
    BY <1>1, <1>2
  <1>4. ASSUME NEW s \in GRing, GD(a, s) < GD(a, hd) PROVE s # tl
    <2>1. GD(a, tl) \in Int /\ GD(a, hd) \in Int
      BY <1>1, <1>2
    <2> QED BY <1>4, <2>1
  <1>5. ASSUME NEW s \in GRing, GD(hd, s) < GD(hd, e), s # tl PROVE GD(hd, s) < GD(hd, tl)
    <2>1. GD(hd, s) = IF s >= hd THEN s - hd ELSE s - hd + GuestRing
      BY GDIs
    <2> QED BY <1>1, <1>2, <1>5, <2>1
  <1> QED BY <1>3, <1>4, <1>5

(* s->head moves to j. *)
LEMMA GDMoved ==
  ASSUME NEW hd \in GRing, NEW j \in GRing, NEW tl \in GRing, NEW s \in GRing,
         GD(hd, j) <= GD(hd, tl), GD(j, s) < GD(j, tl)
  PROVE  GD(hd, s) < GD(hd, tl) /\ Gr!NextIndex(s) # j
  <1>1. /\ GuestRing \in Nat /\ GRing = 0 .. GuestRing - 1
        /\ Gr!NextIndex(s) = IF s = GuestRing - 1 THEN 0 ELSE s + 1
    BY GRingFacts
  <1>2. /\ GD(hd, j) = IF j >= hd THEN j - hd ELSE j - hd + GuestRing
        /\ GD(hd, tl) = IF tl >= hd THEN tl - hd ELSE tl - hd + GuestRing
        /\ GD(hd, s) = IF s >= hd THEN s - hd ELSE s - hd + GuestRing
        /\ GD(j, s) = IF s >= j THEN s - j ELSE s - j + GuestRing
        /\ GD(j, tl) = IF tl >= j THEN tl - j ELSE tl - j + GuestRing
    BY GDIs
  <1> QED BY <1>1, <1>2

LEMMA GrInit == Gr!Init => GrInv
  <1> SUFFICES ASSUME Gr!Init PROVE GrInv
    OBVIOUS
  <1>1. GrType
    <2>1. Gr!Fresh \in GuestDesc
      BY DEF Gr!Fresh, GuestDesc
    <2>2. 0 \in GRing /\ GuestRing - 1 \in GRing
      BY GRingFacts
    <2> QED BY <2>1, <2>2 DEF Gr!Init, GrType, GRing
  <1>2. Behind
    BY <1>1, FollowsEmpty DEF Behind, Gr!Init, GrType
  <1>3. WrittenInv /\ ExtInv
    BY DEF Gr!Init, WrittenInv, ExtInv, Busy
  <1>4. CleanInv
    BY DEF Gr!Init, CleanInv, Gr!Fresh, GRing
  <1> QED BY <1>1, <1>2, <1>3, <1>4 DEF GrInv

LEMMA GrReads ==
  ASSUME GrInv, Gr!GuestReads PROVE GrInv'
  <1>1. GrType /\ (Behind \/ Past) /\ WrittenInv /\ ExtInv /\ CleanInv
    BY DEF GrInv
  <1>2. /\ UNCHANGED <<config, grtail, grring, grhead, grpc, todo, gri, grpkt, sent, accepted>>
        /\ nr' = Gr!NextIndex(nr) /\ nr # grtail /\ Gr!Ready
    BY DEF Gr!GuestReads
  <1>3. PICK got : /\ got = Gr!Take([frames |-> received, partial |-> partial], grring[nr])
                   /\ received' = got.frames /\ partial' = got.partial
    BY DEF Gr!GuestReads
  <1>4. /\ config \in Config /\ grring \in [GRing -> GuestDesc] /\ nr \in GRing /\ grhead \in GRing
        /\ grtail \in GRing /\ gri \in GRing /\ partial \in Seq(Cell) /\ received \in Seq(Seq(Cell))
        /\ grring[nr] \in GuestDesc /\ accepted \in Seq(Seq(Cell))
    BY <1>1 DEF GrType
  <1>5. GrType'
    <2>1. got \in Gotten
      BY <1>3, <1>4, TakeAdds
    <2>2. received' \in Seq(Seq(Cell)) /\ partial' \in Seq(Cell)
      BY <1>3, <2>1 DEF Gotten
    <2>3. nr' \in GRing
      BY <1>2, <1>4, GRingFacts
    <2> QED BY <1>1, <1>2, <2>2, <2>3 DEF GrType, GRing
  <1>6. WrittenInv' /\ ExtInv' /\ CleanInv'
    <2>1. Busy' = Busy /\ Cur' = Cur
      BY <1>2 DEF Busy, Cur, Gr!Cells
    <2>2. WrittenInv'
      BY <1>1, <1>2, <2>1 DEF WrittenInv
    <2>3. ExtInv'
      BY <1>1, <1>2, <2>1 DEF ExtInv
    <2>4. CleanInv'
      BY <1>1, <1>2 DEF CleanInv, GRing, Gr!NextIndex
    <2> QED BY <2>2, <2>3, <2>4
  <1>7. CASE Behind /\ nr # grhead
    <2>1. Follows(grring, Gr!NextIndex(nr), grhead, grtail, got.partial, got.frames, accepted)
      <3>1. Follows(grring, nr, grhead, grtail, partial, received, accepted)
        BY <1>7 DEF Behind
      <3> QED BY <1>2, <1>3, <1>4, <1>7, <3>1, FollowsRead
    <2>2. Behind'
      BY <1>2, <1>3, <2>1 DEF Behind
    <2> QED BY <1>5, <1>6, <2>2 DEF GrInv
  <1>8. CASE Behind /\ nr = grhead
    <2>1. grring[nr].dd /\ ~config.ext
      BY <1>2, <1>4, <1>8, ConfigFacts DEF Gr!Ready
    <2>2. GD(grhead, grhead) < GD(grhead, grtail)
      BY <1>2, <1>4, <1>8, GDZero
    <2>3. grpc = "loop" /\ grpkt = <<>> /\ Gr!NextIndex(nr) = gri
      BY <1>1, <1>4, <1>8, <2>1, <2>2 DEF CleanInv
    <2>4. partial = <<>> /\ received = accepted
      BY <1>4, <1>8, FollowsEmpty DEF Behind
    <2>5. Written(grring, nr, Gr!NextIndex(nr), <<>>, Cur)
      BY <1>1, <1>8, <2>3 DEF WrittenInv, Busy
    <2>6. got.frames = Append(received, Cur) /\ got.partial = <<>>
      BY <1>3, <1>4, <2>4, <2>5, PastRead
    <2>7. Cur' = Cur
      BY <1>2 DEF Cur, Gr!Cells
    <2>8. Past'
      BY <1>2, <1>3, <2>1, <2>3, <2>4, <2>6, <2>7 DEF Past
    <2> QED BY <1>5, <1>6, <2>8 DEF GrInv
  <1>9. CASE Past
    <2>1. grpc = "loop" /\ nr = gri /\ ~config.ext
      BY <1>9 DEF Past
    <2>2. grring[gri].dd
      BY <1>2, <2>1 DEF Gr!Ready
    <2>3. GD(grhead, gri) < GD(grhead, grtail)
      <3>1. GD(grhead, gri) <= GD(grhead, grtail)
        BY <1>1, <2>1 DEF WrittenInv, Busy
      <3> QED BY <1>2, <1>4, <2>1, <3>1, GDLess
    <2>4. Gr!NextIndex(gri) = gri
      BY <1>1, <1>4, <2>1, <2>2, <2>3 DEF CleanInv
    <2>5. FALSE
      <3>1. PICK x \in GRing : x = gri
        BY <1>4
      <3>2. Gr!NextIndex(x) # x
        BY GRingFacts
      <3> QED BY <2>4, <3>1, <3>2
    <2> QED BY <2>5
  <1> QED BY <1>1, <1>7, <1>8, <1>9

LEMMA GrPosts ==
  ASSUME GrInv, Gr!GuestPosts PROVE GrInv'
  <1>1. GrType /\ (Behind \/ Past) /\ WrittenInv /\ ExtInv /\ CleanInv
    BY DEF GrInv
  <1>2. /\ grpc = "idle" /\ Gr!NextIndex(grtail) # nr
        /\ grring' = [grring EXCEPT ![grtail] = Gr!Fresh] /\ grtail' = Gr!NextIndex(grtail)
        /\ UNCHANGED <<config, nr, partial, received, grhead, grpc, todo, gri, grpkt, sent, accepted>>
    BY DEF Gr!GuestPosts
  <1>3. /\ grring \in [GRing -> GuestDesc] /\ nr \in GRing /\ grhead \in GRing /\ grtail \in GRing
    BY <1>1 DEF GrType
  <1>4. Gr!Fresh \in GuestDesc /\ ~Gr!Fresh.dd
    BY DEF Gr!Fresh, GuestDesc
  <1>5. Behind
    BY <1>1, <1>2 DEF Past
  <1>6. GD(nr, grhead) <= GD(nr, grtail)
    BY <1>5 DEF Behind, Follows
  <1>7. grtail' \in GRing
    BY <1>2, <1>3, GRingFacts
  <1>8. GrType'
    BY <1>1, <1>2, <1>4, <1>7 DEF GrType, GRing
  <1>9. /\ GD(nr, grhead) <= GD(nr, grtail')
        /\ \A s \in GRing : GD(nr, s) < GD(nr, grhead) => s # grtail
        /\ \A s \in GRing : GD(grhead, s) < GD(grhead, grtail') => s = grtail \/ GD(grhead, s) < GD(grhead, grtail)
    BY <1>2, <1>3, <1>6, GDPost
  <1>10. Behind'
    <2>1. Follows(grring, nr, grhead, grtail, partial, received, accepted)
      BY <1>5 DEF Behind
    <2>2. \A s \in GRing : GD(nr, s) < GD(nr, grhead) => grring[s] = grring'[s]
      BY <1>2, <1>3, <1>9
    <2>3. Follows(grring', nr, grhead, grtail, partial, received, accepted)
      <3>1. PICK r, q : r = grring /\ q = grring'
        OBVIOUS
      <3> QED BY <1>3, <2>1, <2>2, <3>1, FollowsSame
    <2>4. GD(nr, grhead) <= GD(nr, grtail')
      BY <1>9
    <2>5. Follows(grring', nr, grhead, grtail', partial, received, accepted)
      BY <2>3, <2>4 DEF Follows
    <2> QED BY <1>2, <2>5 DEF Behind
  <1>11. WrittenInv' /\ ExtInv'
    BY <1>2 DEF WrittenInv, ExtInv, Busy
  <1>12. CleanInv'
    <2> SUFFICES ASSUME ~config.ext, NEW s \in GRing, GD(grhead, s) < GD(grhead, grtail'), grring'[s].dd
                 PROVE  FALSE
      BY <1>2 DEF CleanInv, GRing
    <2>1. s # grtail
      BY <1>2, <1>3, <1>4
    <2>2. GD(grhead, s) < GD(grhead, grtail) /\ grring[s].dd
      BY <1>2, <1>3, <1>9, <2>1
    <2> QED BY <1>1, <1>2, <2>2 DEF CleanInv
  <1> QED BY <1>8, <1>10, <1>11, <1>12 DEF GrInv

LEMMA GrCalls ==
  ASSUME GrInv, Gr!send_virtnic \/ Gr!Return PROVE GrInv'
  <1>1. GrType /\ (Behind \/ Past) /\ CleanInv
    BY DEF GrInv
  <1>2. /\ grpc \in {"idle", "next"} /\ grpc' \in {"idle", "next"}
        /\ UNCHANGED <<config, grtail, nr, partial, received, grring, grhead, gri, grpkt, sent, accepted>>
    BY DEF Gr!send_virtnic, Gr!Return, Gr!guest
  <1>3. todo' \in Seq(Length)
    <2>1. CASE Gr!send_virtnic
      <3>1. PICK n \in 1 .. MaxBatch : todo' \in [1 .. n -> Length]
        BY <2>1 DEF Gr!send_virtnic
      <3>2. n \in Nat
        BY <3>1, GuestRxAssumption
      <3> QED BY <3>1, <3>2, SequenceOf
    <2>2. CASE Gr!Return
      BY <1>1, <2>2 DEF Gr!Return, GrType
    <2> QED BY <2>1, <2>2
  <1>4. GrType'
    BY <1>1, <1>2, <1>3 DEF GrType, GRing
  <1>5. Behind'
    BY <1>1, <1>2 DEF Behind, Past
  <1>6. WrittenInv' /\ ExtInv'
    BY <1>2 DEF WrittenInv, ExtInv, Busy
  <1>7. CleanInv'
    BY <1>1, <1>2 DEF CleanInv, GRing
  <1> QED BY <1>4, <1>5, <1>6, <1>7 DEF GrInv

LEMMA GrSendvirt ==
  ASSUME GrInv, Gr!sendvirt PROVE GrInv'
  <1>1. GrType /\ (Behind \/ Past) /\ CleanInv
    BY DEF GrInv
  <1>2. /\ grpc = "next" /\ todo # <<>> /\ todo' = Tail(todo) /\ sent' = Append(sent, Head(todo))
        /\ UNCHANGED <<config, grtail, nr, partial, received, grring, grhead, accepted>>
    BY DEF Gr!sendvirt, Gr!guest
  <1>3. /\ todo \in Seq(Length) /\ sent \in Seq(Length) /\ config \in Config /\ grhead \in GRing
        /\ grring \in [GRing -> GuestDesc] /\ grtail \in GRing
    BY <1>1 DEF GrType
  <1>4. PICK x \in Length : x = Head(todo)
    BY <1>2, <1>3
  <1>5. todo' \in Seq(Length) /\ sent' \in Seq(Length)
    BY <1>2, <1>3, <1>4
  <1>6. Behind'
    BY <1>1, <1>2 DEF Behind, Past
  <1>7. \A s \in GRing : ~config.ext /\ GD(grhead, s) < GD(grhead, grtail) => ~grring[s].dd
    BY <1>1, <1>2 DEF CleanInv
  <1>8. CleanInv'
    BY <1>2, <1>7 DEF CleanInv, GRing
  <1>9. CASE x > SENDVIRT_MAXSIZE
    <2>1. UNCHANGED <<grpc, gri, grpkt>>
      BY <1>4, <1>9 DEF Gr!sendvirt
    <2>2. GrType'
      BY <1>1, <1>2, <1>5, <2>1 DEF GrType, GRing
    <2>3. WrittenInv' /\ ExtInv'
      BY <1>2, <2>1 DEF WrittenInv, ExtInv, Busy
    <2> QED BY <1>6, <1>8, <2>2, <2>3 DEF GrInv
  <1>10. CASE ~(x > SENDVIRT_MAXSIZE)
    <2>1. grpc' = "loop" /\ gri' = grhead /\ grpkt' = Gr!Cells(Len(sent) + 1, x)
      BY <1>4, <1>10 DEF Gr!sendvirt
    <2>2. PICK f \in Nat : f = Len(sent) + 1
      BY <1>3
    <2>3. /\ grpkt' \in Seq(Cell) /\ grpkt' # <<>> /\ Len(grpkt') = x + config.asize
      BY <1>3, <2>1, <2>2, CellsAre
    <2>4. GrType'
      BY <1>1, <1>2, <1>3, <1>5, <2>1, <2>3 DEF GrType, GRing
    <2>5. Len(sent') = f /\ sent'[Len(sent')] = x /\ sent' # <<>>
      BY <1>2, <1>3, <1>4, <2>2
    <2>6. Cur' = grpkt'
      BY <1>2, <2>1, <2>2, <2>5 DEF Cur, Gr!Cells
    <2>7. Written(grring', grhead', gri', grpkt', Cur')
      <3>0. PICK r : r = grring'
        OBVIOUS
      <3>1. PICK k \in Seq(Cell) : k = grpkt'
        BY <2>3
      <3>2. Written(r, grhead, grhead, k, k)
        BY <1>3, <2>3, <3>0, <3>1, WrittenStart
      <3> QED BY <1>2, <2>1, <2>6, <3>0, <3>1, <3>2
    <2>8. GD(grhead', gri') <= GD(grhead', grtail')
      BY <1>2, <1>3, <2>1, GDZero
    <2>9. WrittenInv'
      BY <2>5, <2>7, <2>8 DEF WrittenInv
    <2>10. ExtInv'
      <3>1. config.ext => Len(grpkt') <= config.bufsize
        BY <1>3, <1>10, <2>3, ConfigFacts
      <3> QED BY <1>2, <2>1, <3>1 DEF ExtInv
    <2> QED BY <1>6, <1>8, <2>4, <2>9, <2>10 DEF GrInv
  <1> QED BY <1>9, <1>10

LEMMA GrDrop ==
  ASSUME GrInv, Gr!Drop PROVE GrInv'
  <1>1. GrType /\ (Behind \/ Past) /\ CleanInv
    BY DEF GrInv
  <1>2. /\ grpc = "loop" /\ grpkt # <<>> /\ grpc' = "next"
        /\ UNCHANGED <<config, grtail, nr, partial, received, grring, grhead, todo, gri, grpkt, sent, accepted>>
    BY DEF Gr!Drop, Gr!DropFrame, Gr!guest
  <1>3. GrType'
    BY <1>1, <1>2 DEF GrType, GRing
  <1>4. Behind'
    BY <1>1, <1>2 DEF Behind, Past
  <1>5. WrittenInv' /\ ExtInv'
    BY <1>2 DEF WrittenInv, ExtInv, Busy
  <1>6. CleanInv'
    BY <1>1, <1>2 DEF CleanInv, GRing
  <1> QED BY <1>3, <1>4, <1>5, <1>6 DEF GrInv

LEMMA GrAccept ==
  ASSUME GrInv, Gr!Accept PROVE GrInv'
  <1>1. GrType /\ (Behind \/ Past) /\ WrittenInv /\ CleanInv
    BY DEF GrInv
  <1>2. /\ grpc = "loop" /\ grpkt = <<>> /\ grpc' = "next" /\ grhead' = gri
        /\ accepted' = Append(accepted, Cur)
        /\ UNCHANGED <<config, grtail, nr, partial, received, grring, todo, gri, grpkt, sent>>
    BY DEF Gr!Accept, Gr!guest, Cur
  <1>3. /\ grring \in [GRing -> GuestDesc] /\ nr \in GRing /\ grhead \in GRing
        /\ grtail \in GRing /\ gri \in GRing /\ partial \in Seq(Cell) /\ received \in Seq(Seq(Cell))
        /\ accepted \in Seq(Seq(Cell))
    BY <1>1 DEF GrType
  <1>4. sent # <<>> /\ GD(grhead, gri) <= GD(grhead, grtail) /\ Written(grring, grhead, gri, <<>>, Cur)
    BY <1>1, <1>2 DEF WrittenInv, Busy
  <1>5. Cur \in Seq(Cell)
    BY <1>1, <1>4, CurIs
  <1>6. accepted' \in Seq(Seq(Cell))
    BY <1>2, <1>3, <1>5
  <1>7. GrType'
    BY <1>1, <1>2, <1>3, <1>6 DEF GrType, GRing
  <1>8. Behind'
    <2>1. PICK f \in Seq(Cell) : f = Cur
      BY <1>5
    <2>2. CASE Behind
      <3>1. Follows(grring, nr, grhead, grtail, partial, received, accepted)
        BY <2>2 DEF Behind
      <3>2. Follows(grring, nr, gri, grtail, partial, received, Append(accepted, f))
        BY <1>3, <1>4, <2>1, <3>1, FollowsAccept
      <3> QED BY <1>2, <2>1, <3>2 DEF Behind
    <2>3. CASE Past
      <3>1. nr = gri /\ partial = <<>> /\ received = accepted'
        BY <1>2, <2>3 DEF Past
      <3>2. Follows(grring', gri, gri, grtail, partial, received, accepted')
        <4>1. PICK r, ac : r = grring' /\ ac = accepted'
          OBVIOUS
        <4>2. Follows(r, gri, gri, grtail, partial, received, ac)
          BY <1>3, <3>1, <4>1, FollowsEmpty
        <4> QED BY <4>1, <4>2
      <3> QED BY <1>2, <3>1, <3>2 DEF Behind
    <2> QED BY <1>1, <2>2, <2>3
  <1>9. WrittenInv' /\ ExtInv'
    BY <1>2 DEF WrittenInv, ExtInv, Busy
  <1>10. CleanInv'
    <2> SUFFICES ASSUME ~config.ext, NEW s \in GRing, GD(gri, s) < GD(gri, grtail), grring[s].dd
                 PROVE  FALSE
      BY <1>2 DEF CleanInv, GRing
    <2>1. GD(grhead, s) < GD(grhead, grtail) /\ Gr!NextIndex(s) # gri
      BY <1>3, <1>4, GDMoved
    <2> QED BY <1>1, <2>1 DEF CleanInv
  <1> QED BY <1>7, <1>8, <1>9, <1>10 DEF GrInv

LEMMA CutCells ==
  ASSUME NEW k \in Seq(Cell), NEW m \in 0 .. Len(k)
  PROVE  /\ SubSeq(k, 1, m) \in Seq(Cell) /\ Len(SubSeq(k, 1, m)) = m
         /\ SubSeq(k, m + 1, Len(k)) \in Seq(Cell) /\ Len(SubSeq(k, m + 1, Len(k))) = Len(k) - m
         /\ SubSeq(k, 1, m) \o SubSeq(k, m + 1, Len(k)) = k
  <1>1. PICK n \in Nat : n = Len(k)
    OBVIOUS
  <1>2. m \in Int /\ m >= 0 /\ m <= n /\ m + 1 \in Int /\ 1 \in Int /\ n \in Int
    BY <1>1
  <1>3. \A x \in 1 .. n : k[x] \in Cell
    BY <1>1, ElementOf
  <1>4. (\A x \in 1 .. m : x \in 1 .. n) /\ (\A x \in m + 1 .. n : x \in 1 .. n)
    BY <1>2
  <1>5. SubSeq(k, 1, m) \in Seq(Cell) /\ Len(SubSeq(k, 1, m)) = IF 1 <= m THEN m - 1 + 1 ELSE 0
    <2>1. \A x \in 1 .. m : k[x] \in Cell
      BY <1>3, <1>4
    <2> QED BY <1>2, <2>1, SubSeqProperties
  <1>6. SubSeq(k, m + 1, n) \in Seq(Cell) /\ Len(SubSeq(k, m + 1, n)) = IF m + 1 <= n THEN n - (m + 1) + 1 ELSE 0
    <2>1. \A x \in m + 1 .. n : k[x] \in Cell
      BY <1>3, <1>4
    <2> QED BY <1>2, <2>1, SubSeqProperties
  <1>7. SubSeq(k, 1, m) \o SubSeq(k, m + 1, n) = SubSeq(k, 1, n)
    <2>1. PICK o \in Nat : o = 1
      OBVIOUS
    <2>2. o \in 1 .. Len(k) + 1 /\ m \in o - 1 .. Len(k) /\ n \in m .. Len(k)
      BY <1>1, <1>2, <2>1
    <2>3. SubSeq(k, o, m) \o SubSeq(k, m + 1, n) = SubSeq(k, o, n)
      BY <2>2, ConcatAdjacentSubSeq
    <2> QED BY <2>1, <2>3
  <1>8. SubSeq(k, 1, n) = k
    BY <1>1, SubSeqFull
  <1>9. Len(SubSeq(k, 1, m)) = m
    BY <1>2, <1>5
  <1>10. Len(SubSeq(k, m + 1, n)) = n - m
    BY <1>2, <1>6
  <1> QED BY <1>1, <1>5, <1>6, <1>7, <1>8, <1>9, <1>10

(* A descriptor of b cells takes c, the beginning of k, and leaves k2. *)
Split(k, b, c, k2) ==
    /\ c = SubSeq(k, 1, IF Len(k) <= b THEN Len(k) ELSE b)
    /\ k2 = SubSeq(k, Len(c) + 1, Len(k))

LEMMA SplitCells ==
  ASSUME NEW k \in Seq(Cell), k # <<>>, NEW b \in Nat, b > 0, NEW c, NEW k2, Split(k, b, c, k2)
  PROVE  /\ c \in Seq(Cell) /\ k2 \in Seq(Cell) /\ c \o k2 = k
         /\ (k2 = <<>>) <=> (Len(k) <= b)
         /\ Len(k) <= b => c = k
  <1>1. PICK m \in 0 .. Len(k) : m = IF Len(k) <= b THEN Len(k) ELSE b
    OBVIOUS
  <1>2. c = SubSeq(k, 1, m) /\ k2 = SubSeq(k, Len(c) + 1, Len(k))
    BY <1>1 DEF Split
  <1>3. Len(c) = m
    BY <1>2
  <1>4. k2 = SubSeq(k, m + 1, Len(k))
    BY <1>2, <1>3
  <1>5. /\ c \in Seq(Cell) /\ Len(c) = m
        /\ k2 \in Seq(Cell) /\ Len(k2) = Len(k) - m /\ c \o k2 = k
    BY <1>2, <1>4, CutCells
  <1>6. (k2 = <<>>) <=> (Len(k) <= b)
    <2>1. (k2 = <<>>) <=> (Len(k2) = 0)
      <3>1. k2 \in Seq(Cell)
        BY <1>5
      <3>2. k2 # <<>> => Len(k2) \in Nat \ {0}
        BY <3>1, EmptySeq
      <3> QED BY <3>2
    <2>2. (Len(k2) = 0) <=> (Len(k) <= b)
      BY <1>1, <1>5
    <2> QED BY <2>1, <2>2
  <1>7. ASSUME Len(k) <= b PROVE c = k
    <2>1. k2 = <<>>
      BY <1>6, <1>7
    <2>2. c \o <<>> = c
      BY <1>5, ConcatEmptySeq
    <2> QED BY <1>5, <2>1, <2>2
  <1> QED BY <1>5, <1>6, <1>7

LEMMA WholeContents ==
  ASSUME NEW d, NEW c \in Seq(Cell), d.len = Len(c), d.buf = c
  PROVE  Gr!Contents(d) = c
  <1>1. PICK n \in Nat : n = Len(c)
    OBVIOUS
  <1>2. c = [x \in 1 .. n |-> c[x]]
    BY <1>1
  <1>3. Gr!Contents(d) = [x \in 1 .. n |-> IF x <= n THEN c[x] ELSE [stale |-> TRUE]]
    BY <1>1 DEF Gr!Contents
  <1>4. \A x \in 1 .. n : (IF x <= n THEN c[x] ELSE [stale |-> TRUE]) = c[x]
    OBVIOUS
  <1> QED BY <1>2, <1>3, <1>4

(* sendvirt() comes to the next descriptor. *)
LEMMA GDNext ==
  ASSUME NEW a \in GRing, NEW hd \in GRing, NEW j \in GRing, NEW tl \in GRing,
         GD(a, hd) <= GD(a, tl), GD(hd, j) <= GD(hd, tl), j # tl
  PROVE  /\ Gr!NextIndex(j) # hd /\ GD(hd, Gr!NextIndex(j)) <= GD(hd, tl)
         /\ \A s \in GRing : GD(hd, s) < GD(hd, j) => s # j
         /\ \A s \in GRing : GD(a, s) < GD(a, hd) => s # j
  <1>1. PICK e \in GRing : e = Gr!NextIndex(j)
    BY GRingFacts
  <1>2. /\ GuestRing \in Nat /\ GRing = 0 .. GuestRing - 1
        /\ e = IF j = GuestRing - 1 THEN 0 ELSE j + 1
    BY <1>1, GRingFacts
  <1>3. /\ GD(a, hd) = IF hd >= a THEN hd - a ELSE hd - a + GuestRing
        /\ GD(a, tl) = IF tl >= a THEN tl - a ELSE tl - a + GuestRing
        /\ GD(a, j) = IF j >= a THEN j - a ELSE j - a + GuestRing
        /\ GD(hd, tl) = IF tl >= hd THEN tl - hd ELSE tl - hd + GuestRing
        /\ GD(hd, j) = IF j >= hd THEN j - hd ELSE j - hd + GuestRing
        /\ GD(hd, e) = IF e >= hd THEN e - hd ELSE e - hd + GuestRing
    BY GDIs
  <1>4. e # hd /\ GD(hd, e) <= GD(hd, tl) /\ ~(GD(a, j) < GD(a, hd)) /\ ~(GD(hd, j) < GD(hd, j))
    BY <1>2, <1>3
  <1> QED BY <1>1, <1>4

LEMMA GrFill ==
  ASSUME GrInv, Gr!Fill PROVE GrInv'
  <1>1. GrType /\ (Behind \/ Past) /\ WrittenInv /\ ExtInv /\ CleanInv
    BY DEF GrInv
  <1>2. /\ grpc = "loop" /\ grpkt # <<>> /\ ~Gr!NoDesc
        /\ UNCHANGED <<config, grtail, nr, partial, received, grhead, todo, sent, accepted>>
    BY DEF Gr!Fill, Gr!guest
  <1>3. /\ grring \in [GRing -> GuestDesc] /\ nr \in GRing /\ grhead \in GRing
        /\ grtail \in GRing /\ gri \in GRing /\ grpkt \in Seq(Cell) /\ config \in Config
        /\ grring[gri] \in GuestDesc
    BY <1>1 DEF GrType
  <1>4. gri # grtail
    BY <1>2 DEF Gr!NoDesc
  <1>5. /\ sent # <<>> /\ GD(grhead, gri) <= GD(grhead, grtail)
        /\ Written(grring, grhead, gri, grpkt, Cur)
    BY <1>1, <1>2 DEF WrittenInv, Busy
  <1>6. Follows(grring, nr, grhead, grtail, partial, received, accepted)
    BY <1>1, <1>2 DEF Past, Behind
  <1>7. GD(nr, grhead) <= GD(nr, grtail)
    BY <1>6 DEF Follows
  <1>8. /\ Gr!NextIndex(gri) # grhead /\ GD(grhead, Gr!NextIndex(gri)) <= GD(grhead, grtail)
        /\ \A s \in GRing : GD(grhead, s) < GD(grhead, gri) => s # gri
        /\ \A s \in GRing : GD(nr, s) < GD(nr, grhead) => s # gri
    BY <1>3, <1>4, <1>5, <1>7, GDNext
  <1>9. config.bufsize \in Nat /\ config.bufsize > 0
    BY <1>3, ConfigFacts
  <1>10. PICK c : c = Gr!Copied
    OBVIOUS
  <1>11. PICK k2 : k2 = SubSeq(grpkt, Len(c) + 1, Len(grpkt))
    OBVIOUS
  <1>12. /\ c \in Seq(Cell) /\ k2 \in Seq(Cell) /\ c \o k2 = grpkt
         /\ (k2 = <<>>) <=> (Len(grpkt) <= config.bufsize)
         /\ Len(grpkt) <= config.bufsize => c = grpkt
    <2>1. c = SubSeq(grpkt, 1, IF Len(grpkt) <= config.bufsize THEN Len(grpkt) ELSE config.bufsize)
      BY <1>10 DEF Gr!Copied, Gr!IsLast
    <2>2. PICK k \in Seq(Cell), b \in Nat : k = grpkt /\ b = config.bufsize
      BY <1>3, <1>9
    <2>3. k # <<>> /\ b > 0 /\ Split(k, b, c, k2)
      BY <1>2, <1>9, <1>11, <2>1, <2>2 DEF Split
    <2>4. /\ c \in Seq(Cell) /\ k2 \in Seq(Cell) /\ c \o k2 = k
          /\ (k2 = <<>>) <=> (Len(k) <= b)
          /\ Len(k) <= b => c = k
      BY <2>3, SplitCells
    <2> QED BY <2>2, <2>4
  <1>13. PICK last \in BOOLEAN : last = (k2 = <<>>)
    OBVIOUS
  <1>14. PICK d \in GuestDesc :
           /\ grring' = [grring EXCEPT ![gri] = d] /\ d.eop = last /\ d.buf = c
           /\ IF config.ext THEN d.dd /\ grpc' = "length" /\ gri' = gri /\ grpkt' = grpkt
              ELSE /\ d.dd = last /\ d.len = Len(c) /\ grpc' = grpc
                   /\ gri' = Gr!NextIndex(gri) /\ grpkt' = k2
    <2>1. Gr!IsLast = last
      BY <1>12, <1>13 DEF Gr!IsLast
    <2>2. CASE config.ext
      <3>1. /\ grring' = [grring EXCEPT ![gri] = [grring[gri] EXCEPT !.dd = TRUE, !.eop = last, !.buf = c]]
            /\ grpc' = "length" /\ gri' = gri /\ grpkt' = grpkt
        BY <1>10, <2>1, <2>2 DEF Gr!Fill
      <3>2. PICK d : d = [grring[gri] EXCEPT !.dd = TRUE, !.eop = last, !.buf = c]
        OBVIOUS
      <3>3. d \in GuestDesc /\ d.eop = last /\ d.buf = c /\ d.dd
        BY <1>3, <1>12, <3>2 DEF GuestDesc
      <3> QED BY <2>2, <3>1, <3>2, <3>3
    <2>3. CASE ~config.ext
      <3>1. /\ grring' = [grring EXCEPT ![gri] = [dd |-> last, eop |-> last, len |-> Len(c), buf |-> c]]
            /\ grpc' = grpc /\ gri' = Gr!NextIndex(gri) /\ grpkt' = k2
        BY <1>10, <1>11, <2>1, <2>3 DEF Gr!Fill
      <3>2. PICK d : d = [dd |-> last, eop |-> last, len |-> Len(c), buf |-> c]
        OBVIOUS
      <3>3. d \in GuestDesc /\ d.eop = last /\ d.buf = c /\ d.dd = last /\ d.len = Len(c)
        BY <1>12, <3>2 DEF GuestDesc
      <3> QED BY <2>3, <3>1, <3>2, <3>3
    <2> QED BY <2>2, <2>3
  <1>15. grring' \in [GRing -> GuestDesc] /\ grring'[gri] = d
    BY <1>3, <1>14
  <1>16. GrType'
    <2>1. gri' \in GRing /\ grpkt' \in Seq(Cell) /\ grpc' \in {"loop", "length"}
      BY <1>2, <1>3, <1>12, <1>14, GRingFacts
    <2> QED BY <1>1, <1>2, <1>15, <2>1 DEF GrType, GRing
  <1>17. Behind'
    <2>1. PICK r, q : r = grring /\ q = grring'
      OBVIOUS
    <2>2. \A s \in GRing : GD(nr, s) < GD(nr, grhead) => r[s] = q[s]
      BY <1>3, <1>8, <1>14, <2>1
    <2>3. Follows(q, nr, grhead, grtail, partial, received, accepted)
      BY <1>3, <1>6, <2>1, <2>2, FollowsSame
    <2> QED BY <1>2, <2>1, <2>3 DEF Behind
  <1>18. Cur' = Cur
    BY <1>2 DEF Cur, Gr!Cells
  <1>19. Written(grring', grhead, gri, grpkt, Cur)
    <2>1. PICK r, q : r = grring /\ q = grring'
      OBVIOUS
    <2>2. \A s \in GRing : GD(grhead, s) < GD(grhead, gri) => r[s] = q[s]
      BY <1>3, <1>8, <1>14, <2>1
    <2>3. Written(q, grhead, gri, grpkt, Cur)
      BY <1>3, <1>5, <2>1, <2>2, WrittenSame
    <2> QED BY <2>1, <2>3
  <1>20. CASE config.ext
    <2>1. Len(grpkt) <= config.bufsize
      BY <1>1, <1>2, <1>20 DEF ExtInv, Busy
    <2>2. grpc' = "length" /\ gri' = gri /\ grpkt' = grpkt /\ d.eop /\ d.buf = grpkt
      BY <1>12, <1>13, <1>14, <1>20, <2>1
    <2>3. WrittenInv'
      BY <1>2, <1>5, <1>18, <1>19, <2>2 DEF WrittenInv
    <2>4. ExtInv'
      BY <1>2, <1>4, <1>15, <1>20, <2>1, <2>2 DEF ExtInv
    <2>5. CleanInv'
      BY <1>2, <1>20 DEF CleanInv
    <2> QED BY <1>16, <1>17, <2>3, <2>4, <2>5 DEF GrInv
  <1>21. CASE ~config.ext
    <2>1. grpc' = "loop" /\ gri' = Gr!NextIndex(gri) /\ grpkt' = k2 /\ d.dd = last /\ d.len = Len(c)
      BY <1>2, <1>14, <1>21
    <2>2. Written(grring', grhead, Gr!NextIndex(gri), k2, Cur)
      <3>1. PICK r \in [GRing -> GuestDesc] : r = grring'
        BY <1>15
      <3>2. Gr!Contents(d) = c
        BY <1>12, <1>14, <2>1, WholeContents
      <3>3. Gr!Contents(r[gri]) = c /\ (r[gri].eop <=> k2 = <<>>)
        BY <1>13, <1>14, <1>15, <3>1, <3>2
      <3>4. PICK hd \in GRing, j \in GRing, k \in Seq(Cell) : hd = grhead /\ j = gri /\ k = grpkt
        BY <1>3
      <3>5. PICK f : f = Cur
        OBVIOUS
      <3>6. /\ Gr!NextIndex(j) # hd /\ k # <<>> /\ Written(r, hd, j, k, f) /\ Gr!Contents(r[j]) = c
            /\ c \o k2 = k /\ (r[j].eop <=> k2 = <<>>)
        BY <1>2, <1>8, <1>12, <1>19, <3>1, <3>3, <3>4, <3>5
      <3>7. Written(r, hd, Gr!NextIndex(j), k2, f)
        BY <1>12, <3>6, WrittenMore
      <3> QED BY <3>1, <3>4, <3>5, <3>7
    <2>3. WrittenInv'
      BY <1>2, <1>5, <1>8, <1>18, <2>1, <2>2 DEF WrittenInv
    <2>4. ExtInv'
      BY <1>2, <1>21, <2>1 DEF ExtInv
    <2>5. CleanInv'
      <3> SUFFICES ASSUME NEW s \in GRing, GD(grhead, s) < GD(grhead, grtail), grring'[s].dd
                   PROVE  grpkt' = <<>> /\ Gr!NextIndex(s) = gri'
        BY <1>2, <2>1 DEF CleanInv, GRing, Gr!NextIndex
      <3>1. CASE s = gri
        BY <1>13, <1>15, <2>1, <3>1
      <3>2. CASE s # gri
        <4>1. grring[s].dd
          BY <1>3, <1>14, <3>2
        <4> QED BY <1>1, <1>2, <1>21, <4>1 DEF CleanInv
      <3> QED BY <3>1, <3>2
    <2> QED BY <1>16, <1>17, <2>3, <2>4, <2>5 DEF GrInv
  <1> QED BY <1>20, <1>21

LEMMA GrSetLength ==
  ASSUME GrInv, Gr!SetLength PROVE GrInv'
  <1>1. GrType /\ (Behind \/ Past) /\ WrittenInv /\ ExtInv /\ CleanInv
    BY DEF GrInv
  <1>2. /\ grpc = "length" /\ grpc' = "loop" /\ gri' = Gr!NextIndex(gri)
        /\ grring' = [grring EXCEPT ![gri].len = Len(grpkt)]
        /\ grpkt' = SubSeq(grpkt, Len(Gr!Copied) + 1, Len(grpkt))
        /\ UNCHANGED <<config, grtail, nr, partial, received, grhead, todo, sent, accepted>>
    BY DEF Gr!SetLength, Gr!guest
  <1>3. /\ grring \in [GRing -> GuestDesc] /\ nr \in GRing /\ grhead \in GRing
        /\ grtail \in GRing /\ gri \in GRing /\ grpkt \in Seq(Cell) /\ config \in Config
        /\ grring[gri] \in GuestDesc
    BY <1>1 DEF GrType
  <1>4. /\ config.ext /\ grpkt # <<>> /\ gri # grtail /\ grring[gri].eop /\ grring[gri].buf = grpkt
        /\ Len(grpkt) <= config.bufsize
    BY <1>1, <1>2 DEF ExtInv, Busy
  <1>5. /\ sent # <<>> /\ GD(grhead, gri) <= GD(grhead, grtail)
        /\ Written(grring, grhead, gri, grpkt, Cur)
    BY <1>1, <1>2 DEF WrittenInv, Busy
  <1>6. Follows(grring, nr, grhead, grtail, partial, received, accepted)
    BY <1>1, <1>2 DEF Past, Behind
  <1>7. GD(nr, grhead) <= GD(nr, grtail)
    BY <1>6 DEF Follows
  <1>8. /\ Gr!NextIndex(gri) # grhead /\ GD(grhead, Gr!NextIndex(gri)) <= GD(grhead, grtail)
        /\ \A s \in GRing : GD(grhead, s) < GD(grhead, gri) => s # gri
        /\ \A s \in GRing : GD(nr, s) < GD(nr, grhead) => s # gri
    BY <1>3, <1>4, <1>5, <1>7, GDNext
  <1>9. grpkt' = <<>>
    <2>1. Gr!Copied = SubSeq(grpkt, 1, Len(grpkt))
      BY <1>4 DEF Gr!Copied, Gr!IsLast
    <2>2. Gr!Copied = grpkt
      BY <1>3, <2>1, SubSeqFull
    <2>3. PICK n \in Nat : n = Len(grpkt)
      BY <1>3
    <2>4. grpkt' = SubSeq(grpkt, n + 1, n)
      BY <1>2, <2>2, <2>3
    <2>5. n + 1 \in Int /\ n \in Int /\ n < n + 1
      OBVIOUS
    <2> QED BY <2>4, <2>5, SubSeqEmpty
  <1>10. PICK d \in GuestDesc : grring' = [grring EXCEPT ![gri] = d] /\ d.eop /\ d.buf = grpkt /\ d.len = Len(grpkt)
    <2>1. PICK d : d = [grring[gri] EXCEPT !.len = Len(grpkt)]
      OBVIOUS
    <2>2. d \in GuestDesc /\ d.eop = grring[gri].eop /\ d.buf = grring[gri].buf /\ d.len = Len(grpkt)
      <3>1. PICK g \in GuestDesc, n \in Nat : g = grring[gri] /\ n = Len(grpkt)
        BY <1>3
      <3>2. d = [g EXCEPT !.len = n]
        BY <2>1, <3>1
      <3>3. d \in GuestDesc /\ d.eop = g.eop /\ d.buf = g.buf /\ d.len = n
        BY <3>2 DEF GuestDesc
      <3> QED BY <3>1, <3>3
    <2>3. grring' = [grring EXCEPT ![gri] = d]
      BY <1>2, <2>1
    <2> QED BY <1>4, <2>2, <2>3
  <1>11. grring' \in [GRing -> GuestDesc] /\ grring'[gri] = d
    BY <1>3, <1>10
  <1>12. GrType'
    <2>1. gri' \in GRing /\ grpkt' \in Seq(Cell)
      BY <1>2, <1>3, <1>9, GRingFacts
    <2> QED BY <1>1, <1>2, <1>11, <2>1 DEF GrType, GRing
  <1>13. Behind'
    <2>1. PICK r, q : r = grring /\ q = grring'
      OBVIOUS
    <2>2. \A s \in GRing : GD(nr, s) < GD(nr, grhead) => r[s] = q[s]
      BY <1>3, <1>8, <1>10, <2>1
    <2>3. Follows(q, nr, grhead, grtail, partial, received, accepted)
      BY <1>3, <1>6, <2>1, <2>2, FollowsSame
    <2> QED BY <1>2, <2>1, <2>3 DEF Behind
  <1>14. Cur' = Cur
    BY <1>2 DEF Cur, Gr!Cells
  <1>15. Written(grring', grhead, gri, grpkt, Cur)
    <2>1. PICK r, q : r = grring /\ q = grring'
      OBVIOUS
    <2>2. \A s \in GRing : GD(grhead, s) < GD(grhead, gri) => r[s] = q[s]
      BY <1>3, <1>8, <1>10, <2>1
    <2>3. Written(q, grhead, gri, grpkt, Cur)
      BY <1>3, <1>5, <2>1, <2>2, WrittenSame
    <2> QED BY <2>1, <2>3
  <1>16. Written(grring', grhead, Gr!NextIndex(gri), <<>>, Cur)
    <2>1. PICK r \in [GRing -> GuestDesc] : r = grring'
      BY <1>11
    <2>2. PICK hd \in GRing, j \in GRing, k \in Seq(Cell), k2 \in Seq(Cell) :
             hd = grhead /\ j = gri /\ k = grpkt /\ k2 = <<>>
      BY <1>3, NoneGotten
    <2>3. PICK f : f = Cur
      OBVIOUS
    <2>4. Gr!Contents(d) = k
      BY <1>10, <2>2, WholeContents
    <2>5. k \o <<>> = k
      BY ConcatEmptySeq
    <2>6. /\ Gr!NextIndex(j) # hd /\ k # <<>> /\ Written(r, hd, j, k, f) /\ Gr!Contents(r[j]) = k
          /\ k \o k2 = k /\ (r[j].eop <=> k2 = <<>>)
      BY <1>4, <1>8, <1>10, <1>11, <1>15, <2>1, <2>2, <2>3, <2>4, <2>5
    <2>7. Written(r, hd, Gr!NextIndex(j), k2, f)
      BY <2>6, WrittenMore
    <2> QED BY <2>1, <2>2, <2>3, <2>7
  <1>17. WrittenInv'
    BY <1>2, <1>5, <1>8, <1>9, <1>14, <1>16 DEF WrittenInv
  <1>18. ExtInv'
    <2>1. Len(grpkt') = 0 /\ 0 <= config.bufsize
      BY <1>3, <1>9, ConfigFacts
    <2> QED BY <1>2, <2>1 DEF ExtInv
  <1>19. CleanInv'
    BY <1>2, <1>4 DEF CleanInv
  <1> QED BY <1>12, <1>13, <1>17, <1>18, <1>19 DEF GrInv

LEMMA GrStep == GrInv /\ [Gr!Next]_(Gr!vars) => GrInv'
  <1> SUFFICES ASSUME GrInv, [Gr!Next]_(Gr!vars) PROVE GrInv'
    OBVIOUS
  <1>1. CASE UNCHANGED Gr!vars
    <2>1. UNCHANGED <<config, grtail, nr, partial, received, grring, grhead, grpc, todo, gri, grpkt, sent, accepted>>
      BY <1>1 DEF Gr!vars, Gr!guest
    <2>2. Busy' = Busy /\ Cur' = Cur
      BY <2>1 DEF Busy, Cur, Gr!Cells
    <2>3. GrType' /\ WrittenInv' /\ ExtInv'
      BY <2>1, <2>2 DEF GrInv, GrType, WrittenInv, ExtInv, GRing
    <2>4. CleanInv'
      BY <2>1 DEF GrInv, CleanInv, GRing, Gr!NextIndex
    <2>5. Behind' \/ Past'
      BY <2>1, <2>2 DEF GrInv, Behind, Past
    <2> QED BY <2>3, <2>4, <2>5 DEF GrInv
  <1>2. CASE Gr!Next
    BY <1>2, GrReads, GrPosts, GrCalls, GrSendvirt, GrDrop, GrFill, GrSetLength, GrAccept DEF Gr!Next
  <1> QED BY <1>1, <1>2

LEMMA BothParts ==
  ASSUME NEW S, NEW x \in Seq(S), NEW y \in Seq(S)
  PROVE  /\ SubSeq(x \o y, 1, Len(x)) = x
         /\ SubSeq(x \o y, Len(x) + 1, Len(x \o y)) = y
  <1>1. PICK m \in Nat, n \in Nat : m = Len(x) /\ n = Len(y)
    OBVIOUS
  <1>2. Len(x \o y) = m + n
    BY <1>1, ConcatProperties
  <1>3. SubSeq(x \o y, 1, m) = x
    <2>1. CASE m = 0
      <3>1. x = <<>>
        BY <1>1, <2>1, EmptySeq
      <3>2. m < 1 /\ 1 \in Int /\ m \in Int
        BY <2>1
      <3> QED BY <3>1, <3>2, SubSeqEmpty
    <2>2. CASE m # 0
      <3>1. PICK o \in 1 .. Len(x) : o = 1
        BY <1>1, <2>2
      <3>2. m \in 1 .. Len(x)
        BY <1>1, <2>2
      <3>3. SubSeq(x \o y, o, m) = SubSeq(x, o, m)
        BY <3>2, SubSeqOfConcat1
      <3>4. SubSeq(x, 1, Len(x)) = x
        BY SubSeqFull
      <3> QED BY <1>1, <3>1, <3>3, <3>4
    <2> QED BY <2>1, <2>2
  <1>4. SubSeq(x \o y, m + 1, m + n) = y
    <2>1. CASE n = 0
      <3>1. y = <<>>
        BY <1>1, <2>1, EmptySeq
      <3>2. m + n < m + 1 /\ m + 1 \in Int /\ m + n \in Int
        BY <2>1
      <3> QED BY <3>1, <3>2, SubSeqEmpty
    <2>2. CASE n # 0
      <3>1. PICK o \in Len(x) + 1 .. Len(x) + Len(y), p \in Len(x) + 1 .. Len(x) + Len(y) : o = m + 1 /\ p = m + n
        BY <1>1, <2>2
      <3>2. SubSeq(x \o y, o, p) = SubSeq(y, o - Len(x), p - Len(x))
        BY SubSeqOfConcat2
      <3>3. o - Len(x) = 1 /\ p - Len(x) = n
        BY <1>1, <3>1
      <3>4. SubSeq(y, 1, Len(y)) = y
        BY SubSeqFull
      <3> QED BY <1>1, <3>1, <3>2, <3>3, <3>4
    <2> QED BY <2>1, <2>2
  <1> QED BY <1>1, <1>2, <1>3, <1>4

(* A sequence that another one begins with *)
Begins(x, y) == \E n \in 0 .. Len(y) : x = SubSeq(y, 1, n)

LEMMA BeginsWith ==
  ASSUME NEW S, NEW x \in Seq(S), NEW y \in Seq(S)
  PROVE  Begins(x, x \o y)
  <1>1. Len(x \o y) = Len(x) + Len(y) /\ Len(x) \in Nat /\ Len(y) \in Nat
    BY ConcatProperties
  <1>2. SubSeq(x \o y, 1, Len(x)) = x
    BY BothParts
  <1>3. Len(x) \in 0 .. Len(x \o y)
    BY <1>1
  <1> QED BY <1>2, <1>3 DEF Begins

LEMMA BeginsItself ==
  ASSUME NEW S, NEW x \in Seq(S)
  PROVE  Begins(x, x)
  <1>1. SubSeq(x, 1, Len(x)) = x /\ Len(x) \in 0 .. Len(x)
    BY SubSeqFull
  <1> QED BY <1>1 DEF Begins

LEMMA PrefixOfBoth ==
  ASSUME NEW S, NEW x \in Seq(S), NEW y \in Seq(S), NEW z \in Seq(S)
  PROVE  Begins(x, (x \o y) \o z)
  <1>1. PICK w \in Seq(S) : w = y \o z
    BY ConcatProperties
  <1>2. (x \o y) \o z = x \o w
    BY <1>1, ConcatAssociative
  <1> QED BY <1>2, BeginsWith

LEMMA GrSafe == GrInv => WholeFrames
  <1> SUFFICES ASSUME GrInv PROVE Gr!WholeFrames
    BY DEF WholeFrames
  <1>1. GrType /\ (Behind \/ Past) /\ WrittenInv
    BY DEF GrInv
  <1>2. /\ grring \in [GRing -> GuestDesc] /\ nr \in GRing /\ grhead \in GRing
        /\ partial \in Seq(Cell) /\ received \in Seq(Seq(Cell)) /\ accepted \in Seq(Seq(Cell))
    BY <1>1 DEF GrType
  <1>3. Gr!Current = IF Busy THEN <<Cur>> ELSE <<>>
    BY DEF Gr!Current, Busy, Cur
  <1>4. Gr!Current \in Seq(Seq(Cell))
    <2>1. CASE Busy
      <3>1. Cur \in Seq(Cell)
        BY <1>1, <2>1, CurIs DEF WrittenInv
      <3> QED BY <1>3, <2>1, <3>1
    <2>2. CASE ~Busy
      BY <1>3, <2>2
    <2> QED BY <2>1, <2>2
  <1>5. CASE Behind
    <2>1. PICK x \in Gotten : x = Gr!Got(Run(grring, nr, grhead), partial)
      BY <1>2, RunType, GotIs
    <2>2. x.partial = <<>> /\ received \o x.frames = accepted
      BY <1>5, <2>1 DEF Behind, Follows
    <2>3. PICK y \in Seq(Seq(Cell)) : y = x.frames
      BY DEF Gotten
    <2>4. received \o y = accepted
      BY <2>2, <2>3
    <2>5. Begins(received, accepted \o Gr!Current)
      BY <1>2, <1>4, <2>4, PrefixOfBoth
    <2>6. SubSeq(accepted, Len(received) + 1, Len(accepted)) = y
      BY <1>2, <2>4, BothParts
    <2>7. Gr!Unread = x
      BY <1>2, <2>1, RunIs DEF Gr!Unread
    <2>8. x = [frames |-> y, partial |-> <<>>]
      BY <2>2, <2>3 DEF Gotten
    <2> QED BY <2>5, <2>6, <2>7, <2>8 DEF Gr!WholeFrames, Begins
  <1>6. CASE Past
    <2>1. Busy /\ grpc # "idle" /\ received = Append(accepted, Cur)
      BY <1>6 DEF Past, Busy
    <2>2. Cur \in Seq(Cell)
      BY <1>1, <2>1, CurIs DEF WrittenInv
    <2>3. accepted \o <<Cur>> = received
      BY <1>2, <2>1, <2>2, AppendIsConcat
    <2>4. Begins(received, accepted \o Gr!Current)
      <3>1. accepted \o Gr!Current = received /\ Len(received) <= Len(received)
        BY <1>2, <1>3, <2>1, <2>3
      <3> QED BY <1>2, <3>1, BeginsItself
    <2> QED BY <2>1, <2>4 DEF Gr!WholeFrames, Begins
  <1> QED BY <1>1, <1>5, <1>6

(***************************************************************************)
(* The guest gets every frame that sendvirt() has accepted, whole, once    *)
(* and in order, for rings, buffers and frames of every size: a guest that *)
(* polls the done bit of legacy descriptors included, and although         *)
(* sendvirt() gives up in the middle of a frame when the ring runs out of  *)
(* descriptors.                                                            *)
(***************************************************************************)
THEOREM GuestGetsWholeFrames == Gr!Spec => []WholeFrames
  <1>1. Gr!Init => GrInv
    BY GrInit
  <1>2. GrInv /\ [Gr!Next]_(Gr!vars) => GrInv'
    BY GrStep
  <1>3. GrInv => WholeFrames
    BY GrSafe
  <1> QED BY <1>1, <1>2, <1>3, PTL DEF Gr!Spec

(***************************************************************************)
(* Transmission by the guest.  Descriptors are counted from the first one  *)
(* that the guest has queued, and number a is in the ring at a % RingLen.  *)
(***************************************************************************)
LEMMA DifferenceAround ==
  ASSUME NEW n \in Nat \ {0}, NEW a \in Nat, NEW b \in Nat
  PROVE  ((a % n) - (b % n)) % n = (a - b) % n
  <1>1. PICK qa \in Int, ra \in 0 .. n - 1 : a = n * qa + ra /\ ra = a % n
    <2>1. a = n * (a \div n) + (a % n) /\ a % n \in 0 .. n - 1 /\ a \div n \in Int
      OBVIOUS
    <2> QED BY <2>1
  <1>2. PICK qb \in Int, rb \in 0 .. n - 1 : b = n * qb + rb /\ rb = b % n
    <2>1. b = n * (b \div n) + (b % n) /\ b % n \in 0 .. n - 1 /\ b \div n \in Int
      OBVIOUS
    <2> QED BY <2>1
  <1>3. PICK x \in Int : x = ra - rb
    OBVIOUS
  <1>4. PICK qx \in Int, rx \in 0 .. n - 1 : x = n * qx + rx /\ rx = x % n
    <2>1. x = n * (x \div n) + (x % n) /\ x % n \in 0 .. n - 1 /\ x \div n \in Int
      OBVIOUS
    <2> QED BY <2>1
  <1>5. a - b = n * (qa - qb + qx) + rx
    <2>1. n * (qa - qb + qx) = n * qa - n * qb + n * qx
      OBVIOUS
    <2>2. n * qa \in Int /\ n * qb \in Int /\ n * qx \in Int
      OBVIOUS
    <2> QED BY <1>1, <1>2, <1>3, <1>4, <2>1, <2>2
  <1>6. (n * (qa - qb + qx) + rx) % n = rx
    <2>1. qa - qb + qx \in Int
      OBVIOUS
    <2> QED BY <2>1, Remainder
  <1> QED BY <1>1, <1>2, <1>3, <1>4, <1>5, <1>6

LEMMA AroundRing ==
  ASSUME NEW n \in Nat \ {0}, NEW a \in Nat
  PROVE  /\ a % n \in 0 .. n - 1
         /\ (a + 1) % n = IF (a % n) + 1 >= n THEN 0 ELSE (a % n) + 1
         /\ \A b \in Nat : a <= b /\ b - a < n => ((b % n) - (a % n)) % n = b - a
         /\ \A b \in Nat : b < a /\ a - b < n => ((b % n) - (a % n)) % n = b - a + n
         /\ \A b \in Nat : a <= b /\ b - a < n => (a % n = b % n <=> a = b)
  <1>1. PICK q \in Int, r \in 0 .. n - 1 : a = n * q + r /\ r = a % n
    <2>1. a = n * (a \div n) + (a % n) /\ a % n \in 0 .. n - 1 /\ a \div n \in Int
      OBVIOUS
    <2> QED BY <2>1
  <1>2. (a + 1) % n = IF (a % n) + 1 >= n THEN 0 ELSE (a % n) + 1
    <2>1. r + 1 >= n => (a + 1) % n = 0
      <3>1. ASSUME r + 1 >= n PROVE (a + 1) % n = 0
        <4>1. r = n - 1 /\ 0 \in 0 .. n - 1 /\ q + 1 \in Int
          BY <3>1
        <4>2. n * (q + 1) = n * q + n
          OBVIOUS
        <4>3. a + 1 = n * (q + 1) + 0
          BY <1>1, <4>1, <4>2
        <4>4. (n * (q + 1) + 0) % n = 0
          BY <4>1, Remainder
        <4> QED BY <4>3, <4>4
      <3> QED BY <3>1
    <2>2. ~(r + 1 >= n) => (a + 1) % n = r + 1
      <3>1. ASSUME ~(r + 1 >= n) PROVE (a + 1) % n = r + 1
        <4>1. r + 1 \in 0 .. n - 1
          BY <3>1
        <4>2. a + 1 = n * q + (r + 1)
          BY <1>1
        <4>3. (n * q + (r + 1)) % n = r + 1
          BY <4>1, Remainder
        <4> QED BY <4>2, <4>3
      <3> QED BY <3>1
    <2> QED BY <1>1, <2>1, <2>2
  <1>3. ASSUME NEW b \in Nat, a <= b, b - a < n PROVE ((b % n) - (a % n)) % n = b - a
    <2>1. b - a \in 0 .. n - 1
      BY <1>3
    <2>2. (b - a) % n = b - a
      BY <2>1, SmallRemainder
    <2> QED BY <2>2, DifferenceAround
  <1>4. ASSUME NEW b \in Nat, b < a, a - b < n PROVE ((b % n) - (a % n)) % n = b - a + n
    <2>1. PICK z \in 0 .. n - 1 : z = b - a + n
      BY <1>4
    <2>2. PICK k \in Int : k = -1
      OBVIOUS
    <2>3. b - a = n * k + z
      <3>1. n * k = -n
        BY <2>2
      <3> QED BY <2>1, <3>1
    <2>4. (n * k + z) % n = z
      BY Remainder
    <2>5. (b - a) % n = z
      BY <2>3, <2>4
    <2> QED BY <2>1, <2>5, DifferenceAround
  <1>5. ASSUME NEW b \in Nat, a <= b, b - a < n, a % n = b % n PROVE a = b
    <2>1. PICK x \in 0 .. n - 1 : x = a % n
      BY <1>1
    <2>2. x - x = b - a \/ (x - x) % n = b - a
      BY <1>3, <1>5, <2>1
    <2>3. x - x = 0 /\ 0 % n = 0
      <3>1. 0 \in 0 .. n - 1
        OBVIOUS
      <3> QED BY <3>1, SmallRemainder
    <2> QED BY <2>2, <2>3
  <1> QED BY <1>1, <1>2, <1>3, <1>4, <1>5

LEMMA Rising ==
  ASSUME NEW n \in Nat, NEW f, \A k \in 0 .. n : f[k] \in Nat, \A k \in 1 .. n : f[k - 1] <= f[k]
  PROVE  \A a \in 0 .. n : \A b \in a .. n : f[a] <= f[b]
  <1> SUFFICES ASSUME NEW a \in 0 .. n PROVE \A b \in a .. n : f[a] <= f[b]
    OBVIOUS
  <1> DEFINE B == {b \in a .. n : ~(f[a] <= f[b])}
  <1>1. B = {}
    <2> SUFFICES ASSUME B # {} PROVE FALSE
      OBVIOUS
    <2>1. B \in SUBSET Nat
      OBVIOUS
    <2>2. PICK x \in B : \A y \in B : x <= y
      <3> HIDE DEF B
      <3> QED BY <2>1, HasLeast
    <2>3. x \in a .. n /\ ~(f[a] <= f[x])
      OBVIOUS
    <2>4. x # a
      BY <2>3
    <2>5. x - 1 \in a .. n /\ ~(x <= x - 1) /\ x \in 1 .. n /\ x - 1 \in 0 .. n /\ x \in 0 .. n
      BY <2>3, <2>4
    <2>6. f[a] <= f[x - 1]
      BY <2>2, <2>5
    <2>7. f[x - 1] <= f[x] /\ f[a] \in Nat /\ f[x - 1] \in Nat /\ f[x] \in Nat
      BY <2>5
    <2> HIDE DEF B
    <2> QED BY <2>3, <2>6, <2>7
  <1> QED BY <1>1

-----------------------------------------------------------------------------
(* What GuestTxAssumption and Tidy say of a packet *)
GuestPacket(p) ==
    /\ p.kind \in {"legacy", "data", "tse"} /\ p.pay \in Nat /\ p.mss \in Nat
    /\ p.sum \in BOOLEAN /\ p.cuts \in Seq(Nat) /\ Len(p.cuts) > 0
    /\ \A k \in 1 .. Len(p.cuts) : p.cuts[k] > 0
    /\ Tx!Upto(p.cuts)[Len(p.cuts)] = p.pay + 1
    /\ p.kind = "legacy" => ~p.sum
    /\ p.kind # "tse" => p.pay < BUFSIZE
    /\ p.kind = "tse" => /\ p.sum /\ p.pay > 0 /\ p.mss > 0 /\ p.mss < BUFSIZE
                         /\ 2 * p.mss >= BUFSIZE
                         /\ p.cuts[Len(p.cuts)] <= p.pay - (Tx!Segments(p) - 1) * p.mss

LEMMA GuestPackets ==
  ASSUME NEW p \in Packet, Tidy(p)
  PROVE  GuestPacket(p)
  <1>1. /\ p \in Tx!PacketType
        /\ p.cuts # <<>> /\ \A k \in 1 .. Len(p.cuts) : p.cuts[k] > 0
        /\ Tx!Upto(p.cuts)[Len(p.cuts)] = p.pay + 1
        /\ p.kind = "legacy" => ~p.sum
        /\ IF p.kind = "tse" THEN p.sum /\ p.pay > 0 /\ p.mss > 0 /\ p.mss < BUFSIZE
                             ELSE p.pay < BUFSIZE
    BY GuestTxAssumption
  <1>2. /\ p.kind \in {"legacy", "data", "tse"} /\ p.pay \in Nat /\ p.mss \in Nat
        /\ p.sum \in BOOLEAN /\ p.cuts \in Seq(Nat)
    BY <1>1 DEF Tx!PacketType
  <1>3. Len(p.cuts) > 0
    BY <1>1, <1>2
  <1>4. p.kind = "tse" => /\ 2 * p.mss >= BUFSIZE
                          /\ p.cuts[Len(p.cuts)] <= p.pay - (Tx!Segments(p) - 1) * p.mss
    BY DEF Tidy, Tx!Segments
  <1> QED BY <1>1, <1>2, <1>3, <1>4 DEF GuestPacket

(* The cells of the first descriptors of a packet *)
LEMMA UptoIs ==
  ASSUME NEW p, GuestPacket(p)
  PROVE  LET e == Tx!Upto(p.cuts)
             n == Len(p.cuts)
         IN  /\ e[0] = 0 /\ e[n] = p.pay + 1 /\ n \in Nat /\ n > 0
             /\ \A k \in 0 .. n : e[k] \in Nat /\ e[k] <= p.pay + 1
             /\ \A k \in 1 .. n : e[k] = e[k - 1] + p.cuts[k] /\ e[k - 1] < e[k] /\ e[k - 1] <= p.pay
  <1>1. PICK cs \in Seq(Nat), n \in Nat : cs = p.cuts /\ n = Len(cs) /\ n > 0
    <2>1. p.cuts \in Seq(Nat) /\ Len(p.cuts) \in Nat /\ Len(p.cuts) > 0
      BY DEF GuestPacket
    <2> QED BY <2>1
  <1>2. p.pay \in Nat /\ Tx!Upto(cs)[n] = p.pay + 1 /\ \A k \in 1 .. n : cs[k] > 0 /\ cs[k] \in Nat
    <2>1. \A k \in 1 .. n : cs[k] \in Nat
      BY <1>1
    <2> QED BY <1>1, <2>1 DEF GuestPacket
  <1> DEFINE F(su) == [k \in 0 .. n |-> IF k = 0 THEN 0 ELSE su[k - 1] + cs[k]]
             g == [k \in 1 .. n |-> [v \in Nat |-> v + cs[k]]]
             su0 == CHOOSE su : su = F(su)
  <1>3. \A k \in 1 .. n : g[k] \in [Nat -> Nat]
    <2>1. \A k \in 1 .. n : \A v \in Nat : v + cs[k] \in Nat
      BY <1>2
    <2> QED BY <2>1
  <1>4. \A k \in 1 .. n : \A v \in Nat : g[k][v] = v + cs[k]
    OBVIOUS
  <1> HIDE DEF g
  <1>5. 0 \in Nat
    OBVIOUS
  <1>6. PICK f \in [0 .. n -> Nat] : Iterates(f, 0, g, n)
    BY <1>3, <1>5, IterationExists
  <1>7. f[0] = 0 /\ \A k \in 1 .. n : f[k] = f[k - 1] + cs[k]
    <2>1. f[0] = 0 /\ \A k \in 1 .. n : f[k] = g[k][f[k - 1]]
      BY <1>6 DEF Iterates
    <2>2. \A k \in 1 .. n : k - 1 \in 0 .. n /\ f[k - 1] \in Nat
      BY <1>6
    <2> QED BY <1>4, <2>1, <2>2
  <1>8. f = F(f)
    <2>1. \A k \in 0 .. n : k # 0 => k \in 1 .. n
      OBVIOUS
    <2>2. \A k \in 0 .. n : f[k] = IF k = 0 THEN 0 ELSE f[k - 1] + cs[k]
      BY <1>7, <2>1
    <2> QED BY <1>6, <2>2
  <1>9. su0 = F(su0)
    <2> HIDE DEF F
    <2> QED BY <1>8
  <1>10. Tx!Upto(cs) = su0
    BY <1>1 DEF Tx!Upto
  <1> HIDE DEF su0
  <1>11. PICK e : e = Tx!Upto(cs) /\ e = F(e)
    <2> HIDE DEF F
    <2> QED BY <1>9, <1>10
  <1>12. e[0] = 0 /\ \A k \in 1 .. n : e[k] = e[k - 1] + cs[k]
    <2>1. \A k \in 1 .. n : k \in 0 .. n /\ k # 0
      OBVIOUS
    <2>2. 0 \in 0 .. n
      OBVIOUS
    <2>3. \A k \in 0 .. n : e[k] = IF k = 0 THEN 0 ELSE e[k - 1] + cs[k]
      BY <1>11
    <2> HIDE DEF F
    <2> QED BY <2>1, <2>2, <2>3
  <1> HIDE DEF F
  <1> DEFINE B == {k \in 0 .. n : e[k] # f[k]}
  <1>13. B = {}
    <2> SUFFICES ASSUME B # {} PROVE FALSE
      OBVIOUS
    <2>1. B \in SUBSET Nat
      OBVIOUS
    <2>2. PICK x \in B : \A y \in B : x <= y
      <3> HIDE DEF B
      <3> QED BY <2>1, HasLeast
    <2>3. x \in 0 .. n /\ e[x] # f[x]
      OBVIOUS
    <2>4. x # 0
      BY <1>7, <1>12, <2>3
    <2>5. x \in 1 .. n /\ x - 1 \in 0 .. n /\ ~(x <= x - 1)
      BY <2>3, <2>4
    <2>6. e[x - 1] = f[x - 1]
      BY <2>2, <2>5
    <2> QED BY <1>7, <1>12, <2>3, <2>5, <2>6
  <1>14. \A k \in 0 .. n : e[k] \in Nat
    BY <1>6, <1>13
  <1>15. \A k \in 1 .. n : e[k - 1] < e[k] /\ k - 1 \in 0 .. n /\ e[k] <= p.pay + 1
    <2> SUFFICES ASSUME NEW k \in 1 .. n PROVE e[k - 1] < e[k] /\ k - 1 \in 0 .. n /\ e[k] <= p.pay + 1
      OBVIOUS
    <2>1. k - 1 \in 0 .. n /\ e[k - 1] \in Nat /\ e[k] = e[k - 1] + cs[k]
      BY <1>12, <1>14
    <2>2. \A j \in 1 .. n : e[j - 1] <= e[j]
      <3> SUFFICES ASSUME NEW j \in 1 .. n PROVE e[j - 1] <= e[j]
        OBVIOUS
      <3>1. j - 1 \in 0 .. n /\ e[j - 1] \in Nat /\ e[j] = e[j - 1] + cs[j]
        BY <1>12, <1>14
      <3> QED BY <1>2, <3>1
    <2>3. e[k] <= e[n]
      <3>1. k \in 0 .. n /\ n \in k .. n
        OBVIOUS
      <3> QED BY <1>14, <2>2, <3>1, Rising
    <2> QED BY <1>2, <1>11, <2>1, <2>3
  <1>16. \A k \in 0 .. n : e[k] <= p.pay + 1
    <2>1. \A k \in 0 .. n : k # 0 => k \in 1 .. n
      OBVIOUS
    <2> QED BY <1>2, <1>12, <1>15, <2>1
  <1>17. \A k \in 1 .. n : e[k - 1] <= p.pay
    <2> SUFFICES ASSUME NEW k \in 1 .. n PROVE e[k - 1] <= p.pay
      OBVIOUS
    <2>1. e[k - 1] < e[k] /\ e[k] <= p.pay + 1 /\ e[k] \in Nat /\ e[k - 1] \in Nat
      BY <1>14, <1>15
    <2> QED BY <1>2, <2>1
  <1> QED BY <1>1, <1>2, <1>11, <1>12, <1>14, <1>15, <1>16, <1>17

Piece(S, s, a, b) ==
    /\ SubSeq(s, a + 1, b) \in Seq(S) /\ Len(SubSeq(s, a + 1, b)) = b - a
    /\ \A k \in 1 .. b - a : SubSeq(s, a + 1, b)[k] = s[a + k]

LEMMA PieceIs ==
  ASSUME NEW S, NEW s \in Seq(S), NEW a \in Nat, NEW b \in Nat, a <= b, b <= Len(s)
  PROVE  Piece(S, s, a, b)
  <1>1. CASE a = b
    <2>1. SubSeq(s, a + 1, b) = <<>>
      <3>1. b < a + 1 /\ a + 1 \in Int /\ b \in Int
        BY <1>1
      <3> QED BY <3>1, SubSeqEmpty
    <2>2. <<>> \in Seq(S) /\ Len(<<>>) = 0
      OBVIOUS
    <2>3. b - a = 0 /\ 1 .. b - a = {}
      BY <1>1
    <2> QED BY <2>1, <2>2, <2>3 DEF Piece
  <1>2. CASE a < b
    <2>1. \A k \in a + 1 .. b : s[k] \in S
      <3>1. \A k \in a + 1 .. b : k \in 1 .. Len(s)
        OBVIOUS
      <3> QED BY <3>1, ElementOf
    <2>2. a + 1 \in Int /\ b \in Int
      OBVIOUS
    <2>3. /\ SubSeq(s, a + 1, b) \in Seq(S)
          /\ Len(SubSeq(s, a + 1, b)) = IF a + 1 <= b THEN b - (a + 1) + 1 ELSE 0
          /\ \A k \in 1 .. b - (a + 1) + 1 : SubSeq(s, a + 1, b)[k] = s[a + 1 + k - 1]
      BY <2>1, <2>2, SubSeqProperties
    <2>4. a + 1 <= b /\ b - (a + 1) + 1 = b - a
      BY <1>2
    <2>5. \A k \in 1 .. b - a : a + 1 + k - 1 = a + k
      OBVIOUS
    <2> QED BY <2>3, <2>4, <2>5 DEF Piece
  <1> QED BY <1>1, <1>2

LEMMA PieceOf ==
  ASSUME NEW S, NEW s \in Seq(S), NEW a \in Nat, NEW b \in Nat, a <= b, b <= Len(s)
  PROVE  /\ SubSeq(s, a + 1, b) \in Seq(S) /\ Len(SubSeq(s, a + 1, b)) = b - a
         /\ \A k \in 1 .. b - a : SubSeq(s, a + 1, b)[k] = s[a + k]
  BY PieceIs DEF Piece

LEMMA OnePlus ==
  ASSUME NEW S, NEW c \in S, NEW u \in Seq(S)
  PROVE  /\ <<c>> \o u \in Seq(S) /\ Len(<<c>> \o u) = 1 + Len(u)
         /\ (<<c>> \o u)[1] = c
         /\ \A k \in 1 .. Len(u) : (<<c>> \o u)[1 + k] = u[k]
  OBVIOUS

(* The cells in memory and the descriptors *)
TxHeader == [frame : Nat, id : Nat, seq : Nat, fin : BOOLEAN, len : Int,
             sum : {"seed", "good", "bad"}]
TxPayload == [frame : Nat, n : Nat]
TxCell == TxHeader \cup TxPayload

Fields(g, n0, q, r, x, y) == [frame |-> g, id |-> n0, seq |-> q, fin |-> r, len |-> x, sum |-> y]

Changed(c, s, z, fin, len, sum) ==
    [c EXCEPT !.id = s, !.seq = z, !.fin = fin, !.len = len, !.sum = sum]

LEMMA FiveChanges ==
  ASSUME NEW c, NEW g, NEW n0, NEW q, NEW r, NEW x, NEW y, NEW s, NEW z, NEW fin, NEW len, NEW sum,
         c = Fields(g, n0, q, r, x, y)
  PROVE  Changed(c, s, z, fin, len, sum) = Fields(g, s, z, fin, len, sum)
  <1>3. [c EXCEPT !.id = s, !.seq = z, !.fin = fin, !.len = len, !.sum = sum]
          = [[[[[c EXCEPT !.id = s] EXCEPT !.seq = z] EXCEPT !.fin = fin] EXCEPT !.len = len] EXCEPT !.sum = sum]
    BY Zenon
  <1>4. PICK c1 : c1 = [c EXCEPT !.id = s]
    OBVIOUS
  <1>5. PICK c2 : c2 = [c1 EXCEPT !.seq = z]
    OBVIOUS
  <1>6. PICK c3 : c3 = [c2 EXCEPT !.fin = fin]
    OBVIOUS
  <1>7. PICK c4 : c4 = [c3 EXCEPT !.len = len]
    OBVIOUS
  <1>8. PICK c5 : c5 = [c4 EXCEPT !.sum = sum]
    OBVIOUS
  <1>9. c1 = [frame |-> g, id |-> s, seq |-> q, fin |-> r, len |-> x, sum |-> y]
    BY <1>4 DEF Fields
  <1>10. c2 = [frame |-> g, id |-> s, seq |-> z, fin |-> r, len |-> x, sum |-> y]
    BY <1>5, <1>9
  <1>11. c3 = [frame |-> g, id |-> s, seq |-> z, fin |-> fin, len |-> x, sum |-> y]
    BY <1>6, <1>10
  <1>12. c4 = [frame |-> g, id |-> s, seq |-> z, fin |-> fin, len |-> len, sum |-> y]
    BY <1>7, <1>11
  <1>13. c5 = [frame |-> g, id |-> s, seq |-> z, fin |-> fin, len |-> len, sum |-> sum]
    BY <1>8, <1>12
  <1> QED BY <1>3, <1>4, <1>5, <1>6, <1>7, <1>8, <1>13, Zenon DEF Fields, Changed

FirstCell(g, p, s) ==
    [frame |-> g, id |-> s, seq |-> s * p.mss, fin |-> TRUE, len |-> p.pay,
     sum |-> IF p.sum THEN "seed" ELSE "good"]

LEMMA FirstCellIs ==
  ASSUME NEW g \in Nat, NEW p, GuestPacket(p), NEW s \in Nat
  PROVE  FirstCell(g, p, s) \in TxCell
  <1>1. s * p.mss \in Nat /\ p.pay \in Int /\ p.sum \in BOOLEAN
    BY DEF GuestPacket
  <1>2. FirstCell(g, p, s) \in TxHeader
    BY <1>1 DEF FirstCell, TxHeader
  <1> QED BY <1>2 DEF TxCell

LEMMA TxCellsAre ==
  ASSUME NEW g \in Nat, NEW p, GuestPacket(p)
  PROVE  /\ Tx!Cells(g, p) \in Seq(TxCell) /\ Len(Tx!Cells(g, p)) = p.pay + 1
         /\ Tx!Cells(g, p)[1] = FirstCell(g, p, 0)
         /\ \A j \in 1 .. p.pay : Tx!Cells(g, p)[j + 1] = [frame |-> g, n |-> j]
  <1>1. p.pay \in Nat /\ p.mss \in Nat
    BY DEF GuestPacket
  <1>2. PICK x \in TxCell : x = FirstCell(g, p, 0)
    BY FirstCellIs
  <1>3. x = [frame |-> g, id |-> 0, seq |-> 0, fin |-> TRUE, len |-> p.pay,
             sum |-> IF p.sum THEN "seed" ELSE "good"]
    <2>1. 0 * p.mss = 0
      BY <1>1
    <2> QED BY <1>2, <2>1 DEF FirstCell
  <1>4. PICK u : u = [j \in 1 .. p.pay |-> [frame |-> g, n |-> j]]
    OBVIOUS
  <1>5. u \in Seq(TxCell) /\ Len(u) = p.pay
    <2>1. \A j \in 1 .. p.pay : [frame |-> g, n |-> j] \in TxCell
      BY DEF TxCell, TxPayload
    <2>2. u \in [1 .. p.pay -> TxCell]
      BY <1>4, <2>1
    <2> QED BY <1>1, <2>2, SequenceOf
  <1>6. <<x>> \in Seq(TxCell) /\ Len(<<x>>) = 1 /\ <<x>>[1] = x
    OBVIOUS
  <1>7. Tx!Cells(g, p) = <<x>> \o u
    BY <1>3, <1>4 DEF Tx!Cells
  <1>8. /\ <<x>> \o u \in Seq(TxCell) /\ Len(<<x>> \o u) = 1 + p.pay
        /\ (<<x>> \o u)[1] = x
        /\ \A j \in 1 .. p.pay : (<<x>> \o u)[1 + j] = u[j]
    BY <1>5, OnePlus
  <1> QED BY <1>1, <1>2, <1>4, <1>7, <1>8

Contexts(p) == IF p.kind = "tse" THEN 1 ELSE 0

LEMMA DescriptorsAre ==
  ASSUME NEW g \in Nat, NEW p, GuestPacket(p)
  PROVE  /\ Len(Tx!Descriptors(g, p)) = Contexts(p) + Len(p.cuts)
         /\ p.kind = "tse" => Tx!Descriptors(g, p)[1] = [type |-> "context", mss |-> p.mss, paylen |-> p.pay]
         /\ \A k \in 1 .. Len(p.cuts) :
              Tx!Descriptors(g, p)[Contexts(p) + k] =
                 [type |-> IF p.kind = "legacy" THEN "legacy" ELSE "data",
                  cells |-> SubSeq(Tx!Cells(g, p), Tx!Upto(p.cuts)[k - 1] + 1, Tx!Upto(p.cuts)[k]),
                  tse |-> p.kind = "tse", sum |-> p.sum, eop |-> k = Len(p.cuts)]
  <1>1. PICK n \in Nat : n = Len(p.cuts)
    BY DEF GuestPacket
  <1> DEFINE d(k) == [type |-> IF p.kind = "legacy" THEN "legacy" ELSE "data",
                      cells |-> SubSeq(Tx!Cells(g, p), Tx!Upto(p.cuts)[k - 1] + 1, Tx!Upto(p.cuts)[k]),
                      tse |-> p.kind = "tse", sum |-> p.sum, eop |-> k = Len(p.cuts)]
             Data == [k \in 1 .. Len(p.cuts) |-> d(k)]
             c == [type |-> "context", mss |-> p.mss, paylen |-> p.pay]
  <1>2. Tx!Descriptors(g, p) = IF p.kind = "tse" THEN <<c>> \o Data ELSE Data
    BY DEF Tx!Descriptors
  <1>3. \A k \in 1 .. n : Data[k] = d(k)
    BY <1>1
  <1>4. PICK U : U = {d(k) : k \in 1 .. n} \cup {c}
    OBVIOUS
  <1>5. Data \in Seq(U) /\ Len(Data) = n
    <2>1. \A k \in 1 .. n : d(k) \in U
      BY <1>4
    <2> HIDE DEF d
    <2>2. Data \in [1 .. n -> U]
      BY <1>1, <2>1
    <2> HIDE DEF Data
    <2> QED BY <2>2, SequenceOf
  <1>6. c \in U
    BY <1>4
  <1> HIDE DEF d, Data, c
  <1>7. CASE p.kind = "tse"
    <2>1. PICK x \in U : x = c
      BY <1>6
    <2>2. /\ Len(<<x>> \o Data) = 1 + n /\ (<<x>> \o Data)[1] = x
          /\ \A k \in 1 .. n : (<<x>> \o Data)[1 + k] = Data[k]
      BY <1>5, OnePlus
    <2>3. Tx!Descriptors(g, p) = <<x>> \o Data /\ Contexts(p) = 1
      BY <1>2, <1>7, <2>1 DEF Contexts
    <2>4. /\ Len(Tx!Descriptors(g, p)) = Contexts(p) + n
          /\ Tx!Descriptors(g, p)[1] = c
          /\ \A k \in 1 .. n : Tx!Descriptors(g, p)[Contexts(p) + k] = d(k)
      BY <1>3, <2>1, <2>2, <2>3
    <2> QED BY <1>1, <2>4 DEF d, c
  <1>8. CASE p.kind # "tse"
    <2>1. Tx!Descriptors(g, p) = Data /\ Contexts(p) = 0
      BY <1>2, <1>8 DEF Contexts
    <2>2. /\ Len(Tx!Descriptors(g, p)) = Contexts(p) + n
          /\ \A k \in 1 .. n : Tx!Descriptors(g, p)[Contexts(p) + k] = d(k)
      BY <1>3, <1>5, <2>1
    <2> QED BY <1>1, <1>8, <2>2 DEF d
  <1> QED BY <1>7, <1>8

-----------------------------------------------------------------------------
(* Segments: how many, and which is the last *)
LEMMA TxMonotone ==
  ASSUME NEW x \in Nat, NEW a \in Nat, NEW b \in Nat, a <= b
  PROVE  a * x <= b * x /\ a * x \in Nat /\ b * x \in Nat /\ (a + 1) * x = a * x + x
  <1>1. PICK c \in Nat : c = b - a
    OBVIOUS
  <1>2. b * x = a * x + c * x
    <2>1. (a + c) * x = a * x + c * x
      OBVIOUS
    <2> QED BY <1>1, <2>1
  <1>3. a * x \in Nat /\ c * x \in Nat /\ b * x \in Nat
    OBVIOUS
  <1>4. (a + 1) * x = a * x + x
    OBVIOUS
  <1> QED BY <1>2, <1>3, <1>4

LEMMA SegmentsAre ==
  ASSUME NEW p, GuestPacket(p), p.kind = "tse"
  PROVE  /\ Tx!Segments(p) \in Nat /\ Tx!Segments(p) > 0
         /\ \A s \in Nat : s * p.mss < p.pay =>
               /\ s < Tx!Segments(p) /\ s * p.mss \in Nat /\ (s + 1) * p.mss = s * p.mss + p.mss
               /\ p.pay <= (s + 1) * p.mss <=> s + 1 = Tx!Segments(p)
         /\ \A s \in Nat : s < Tx!Segments(p) => s * p.mss < p.pay
  <1>1. PICK x \in Nat, y \in Nat : x = p.mss /\ y = p.pay /\ x > 0 /\ y > 0
    BY DEF GuestPacket
  <1>2. PICK ns \in Int, r \in 0 .. x - 1 : y + x - 1 = x * ns + r /\ ns = (y + x - 1) \div x
    <2>1. PICK a \in Nat : a = y + x - 1
      BY <1>1
    <2>2. a = x * (a \div x) + (a % x) /\ a % x \in 0 .. x - 1 /\ a \div x \in Int
      BY <1>1
    <2> QED BY <2>1, <2>2
  <1>3. x * ns >= y /\ x * ns <= y + x - 1
    <2>1. PICK z \in Int : z = x * ns
      OBVIOUS
    <2> QED BY <1>2, <2>1
  <1>4. ns > 0
    <2>1. CASE ns <= 0
      <3>1. x * ns <= 0
        BY <2>1
      <3> QED BY <1>1, <1>3, <3>1
    <2> QED BY <2>1
  <1>5. ns \in Nat /\ ns - 1 \in Nat /\ ns * x >= y /\ (ns - 1) * x < y
    <2>1. ns * x = x * ns /\ (ns - 1) * x = x * ns - x
      OBVIOUS
    <2>2. PICK z \in Int : z = x * ns
      OBVIOUS
    <2> QED BY <1>1, <1>3, <1>4, <2>1, <2>2
  <1>6. Tx!Segments(p) = ns
    BY <1>1, <1>2 DEF Tx!Segments
  <1>7. ASSUME NEW s \in Nat, s * x < y
        PROVE  /\ s < ns /\ s * x \in Nat /\ (s + 1) * x = s * x + x
               /\ y <= (s + 1) * x <=> s + 1 = ns
    <2>1. CASE s >= ns
      <3>1. ns * x <= s * x /\ ns * x \in Nat /\ s * x \in Nat
        BY <1>5, <2>1, TxMonotone
      <3> QED BY <1>5, <1>7, <3>1
    <2>2. CASE s < ns
      <3>1. s <= s /\ s * x \in Nat /\ (s + 1) * x = s * x + x
        BY TxMonotone
      <3>2. s + 1 = ns => y <= (s + 1) * x
        BY <1>5
      <3>3. ASSUME s + 1 # ns, y <= (s + 1) * x PROVE FALSE
        <4>1. s + 1 <= ns - 1 /\ s + 1 \in Nat
          BY <1>5, <2>2, <3>3
        <4>2. (s + 1) * x <= (ns - 1) * x /\ (s + 1) * x \in Nat /\ (ns - 1) * x \in Nat
          BY <1>5, <4>1, TxMonotone
        <4> QED BY <1>5, <3>3, <4>2
      <3> QED BY <2>2, <3>1, <3>2, <3>3
    <2> QED BY <1>5, <2>1, <2>2
  <1>8. ASSUME NEW s \in Nat, s < ns PROVE s * x < y
    <2>1. s <= ns - 1
      BY <1>5, <1>8
    <2>2. s * x <= (ns - 1) * x /\ s * x \in Nat /\ (ns - 1) * x \in Nat
      BY <1>5, <2>1, TxMonotone
    <2> QED BY <1>5, <2>2
  <1> QED BY <1>1, <1>4, <1>5, <1>6, <1>7, <1>8

(* A frame of packet p: its header, and the cells behind the first o *)
Header(g, p, s, len, fin) ==
    [frame |-> g, id |-> s, seq |-> s * p.mss, fin |-> fin, len |-> len, sum |-> "good"]

Flag(b) == b \in BOOLEAN

LEMMA HeaderIs ==
  ASSUME NEW g \in Nat, NEW p, GuestPacket(p), NEW s \in Nat, NEW len \in Int, NEW fin, Flag(fin)
  PROVE  Header(g, p, s, len, fin) \in TxHeader
  <1>1. s * p.mss \in Nat
    BY DEF GuestPacket
  <1> QED BY <1>1 DEF Header, TxHeader, Flag

Slice(g, p, s, o, m, fin) ==
    [j \in 1 .. m + 1 |->
        IF j = 1 THEN Header(g, p, s, m, fin)
        ELSE [frame |-> g, n |-> o + j - 1]]

LEMMA SliceIs ==
  ASSUME NEW g \in Nat, NEW p, GuestPacket(p), NEW s \in Nat, NEW o \in Nat, NEW m \in Nat,
         NEW fin, Flag(fin)
  PROVE  Slice(g, p, s, o, m, fin) \in Seq(TxCell) /\ Len(Slice(g, p, s, o, m, fin)) = m + 1
  <1> DEFINE c(j) == IF j = 1 THEN Header(g, p, s, m, fin)
                     ELSE [frame |-> g, n |-> o + j - 1]
             u == [j \in 1 .. m + 1 |-> c(j)]
  <1>1. ASSUME NEW j \in 1 .. m + 1 PROVE c(j) \in TxCell
    <2>1. CASE j = 1
      <3>1. m \in Int
        OBVIOUS
      <3>2. Header(g, p, s, m, fin) \in TxHeader
        BY <3>1, HeaderIs
      <3> QED BY <2>1, <3>2 DEF TxCell
    <2>2. CASE j # 1
      <3>1. o + j - 1 \in Nat
        BY <2>2
      <3>2. [frame |-> g, n |-> o + j - 1] \in TxPayload
        BY <3>1 DEF TxPayload
      <3> QED BY <2>2, <3>2 DEF TxCell
    <2> QED BY <2>1, <2>2
  <1>2. u = Slice(g, p, s, o, m, fin)
    BY DEF Slice
  <1> HIDE DEF c
  <1>3. u \in [1 .. m + 1 -> TxCell]
    BY <1>1
  <1> HIDE DEF u
  <1>4. u \in Seq(TxCell) /\ Len(u) = m + 1
    <2>1. m + 1 \in Nat
      OBVIOUS
    <2> QED BY <1>3, <2>1, SequenceOf
  <1> QED BY <1>2, <1>4

(* A header and some cells of the packet are a frame of it. *)
Payloads(u, g, o, m) == Len(u) = m /\ \A j \in 1 .. m : u[j] = [frame |-> g, n |-> o + j]

Framed(c, u) == <<c>> \o u

LEMMA SliceParts ==
  ASSUME NEW g \in Nat, NEW p, GuestPacket(p), NEW s \in Nat, NEW o \in Nat, NEW m \in Nat,
         NEW fin, Flag(fin), NEW u \in Seq(TxCell), Payloads(u, g, o, m)
  PROVE  Framed(Header(g, p, s, m, fin), u) = Slice(g, p, s, o, m, fin)
  <1>1. PICK F \in Seq(TxCell) : F = Slice(g, p, s, o, m, fin) /\ Len(F) = m + 1
    <2>1. Slice(g, p, s, o, m, fin) \in Seq(TxCell)
      BY SliceIs
    <2>2. Len(Slice(g, p, s, o, m, fin)) = m + 1
      BY SliceIs
    <2> QED BY <2>1, <2>2
  <1>2. PICK c : c = Header(g, p, s, m, fin)
    OBVIOUS
  <1>3. F[1] = c /\ \A j \in 2 .. m + 1 : F[j] = [frame |-> g, n |-> o + j - 1]
    BY <1>1, <1>2 DEF Slice
  <1>4. c \in TxCell
    <2>1. 1 \in 1 .. Len(F)
      BY <1>1
    <2>2. F[1] \in TxCell
      BY <2>1, ElementOf
    <2> QED BY <1>3, <2>2
  <1>5. Len(u) = m /\ \A j \in 1 .. m : u[j] = [frame |-> g, n |-> o + j]
    BY DEF Payloads
  <1>6. /\ <<c>> \o u \in Seq(TxCell) /\ Len(<<c>> \o u) = m + 1
        /\ (<<c>> \o u)[1] = c
        /\ \A k \in 1 .. m : (<<c>> \o u)[1 + k] = u[k]
    <2>1. /\ <<c>> \o u \in Seq(TxCell) /\ Len(<<c>> \o u) = 1 + Len(u)
          /\ (<<c>> \o u)[1] = c
          /\ \A k \in 1 .. Len(u) : (<<c>> \o u)[1 + k] = u[k]
      BY <1>4, OnePlus
    <2> QED BY <1>5, <2>1
  <1>7. PICK v \in Seq(TxCell) : v = <<c>> \o u
    BY <1>6
  <1>8. ASSUME NEW j \in 1 .. m + 1 PROVE v[j] = F[j]
    <2>1. CASE j = 1
      BY <1>3, <1>6, <1>7, <2>1
    <2>2. CASE j # 1
      <3>1. j - 1 \in 1 .. m /\ 1 + (j - 1) = j /\ j \in 2 .. m + 1 /\ o + (j - 1) = o + j - 1
        BY <2>2
      <3>2. v[j] = u[j - 1]
        BY <1>6, <1>7, <3>1
      <3>3. u[j - 1] = [frame |-> g, n |-> o + (j - 1)]
        BY <1>5, <3>1
      <3> QED BY <1>3, <3>1, <3>2, <3>3
    <2> QED BY <2>1, <2>2
  <1>9. v = F
    BY <1>1, <1>6, <1>7, <1>8, SeqEqual
  <1>10. <<c>> \o u = F
    BY <1>7, <1>9
  <1> QED BY <1>1, <1>2, <1>10 DEF Framed

CutOut(g, p, s, o, z, fin) ==
    <<Changed(Tx!Cells(g, p)[1], s, s * p.mss, fin, z - o, "good")>>
       \o SubSeq(Tx!Cells(g, p), o + 2, z + 1)

LEMMA HeaderFrom ==
  ASSUME NEW g, NEW p, NEW s, NEW fin, NEW len
  PROVE  Changed(FirstCell(g, p, 0), s, s * p.mss, fin, len, "good") = Header(g, p, s, len, fin)
  <1>c. PICK c : c = FirstCell(g, p, 0)
    OBVIOUS
  <1>1. PICK q, x, y, z, tr, n0, gd :
            /\ q = 0 * p.mss /\ x = p.pay /\ y = (IF p.sum THEN "seed" ELSE "good") /\ z = s * p.mss
            /\ tr = TRUE /\ n0 = 0 /\ gd = "good"
    OBVIOUS
  <1>2. c = Fields(g, n0, q, tr, x, y)
    BY <1>c, <1>1, Zenon DEF FirstCell, Fields
  <1>3. Changed(c, s, z, fin, len, gd) = Fields(g, s, z, fin, len, gd)
    BY <1>2, FiveChanges
  <1> QED BY <1>c, <1>1, <1>3, Zenon DEF Header, Fields

LEMMA CutIs ==
  ASSUME NEW g \in Nat, NEW p, GuestPacket(p), NEW s \in Nat, NEW o \in Nat, NEW z \in Nat,
         o <= z, z <= p.pay, NEW fin, Flag(fin)
  PROVE  CutOut(g, p, s, o, z, fin) = Slice(g, p, s, o, z - o, fin)
  <1>1. PICK y \in Nat : y = p.pay
    BY DEF GuestPacket
  <1>2. PICK all \in Seq(TxCell) :
             /\ all = Tx!Cells(g, p) /\ Len(all) = y + 1
             /\ all[1] = FirstCell(g, p, 0)
             /\ \A j \in 1 .. y : all[j + 1] = [frame |-> g, n |-> j]
    <2>1. /\ Tx!Cells(g, p) \in Seq(TxCell) /\ Len(Tx!Cells(g, p)) = y + 1
          /\ Tx!Cells(g, p)[1] = FirstCell(g, p, 0)
          /\ \A j \in 1 .. y : Tx!Cells(g, p)[j + 1] = [frame |-> g, n |-> j]
      BY <1>1, TxCellsAre
    <2> QED BY <2>1
  <1>3. PICK m \in Nat : m = z - o /\ m + o = z /\ o + 2 \in 1 .. y + 2 /\ z + 1 \in 0 .. y + 1
    BY <1>1
  <1>4. PICK u \in Seq(TxCell) : /\ u = SubSeq(all, o + 2, z + 1) /\ Len(u) = m
                                 /\ \A j \in 1 .. m : u[j] = all[o + 1 + j]
    <2>1. PICK a \in Nat, b \in Nat : a = o + 1 /\ b = z + 1 /\ b - a = m /\ a <= b
      BY <1>3
    <2>2. a <= b /\ b <= Len(all) /\ b - a = m /\ a + 1 = o + 2
      BY <1>1, <1>2, <1>3, <2>1
    <2>3. /\ SubSeq(all, a + 1, b) \in Seq(TxCell)
          /\ Len(SubSeq(all, a + 1, b)) = b - a
          /\ \A k \in 1 .. b - a : SubSeq(all, a + 1, b)[k] = all[a + k]
      BY <2>2, PieceOf
    <2> QED BY <2>1, <2>2, <2>3
  <1>5. \A j \in 1 .. m : u[j] = [frame |-> g, n |-> o + j]
    <2> SUFFICES ASSUME NEW j \in 1 .. m PROVE u[j] = [frame |-> g, n |-> o + j]
      OBVIOUS
    <2>1. o + j \in 1 .. y /\ o + 1 + j = (o + j) + 1
      BY <1>1, <1>3
    <2> QED BY <1>2, <1>4, <2>1
  <1>6. Changed(all[1], s, s * p.mss, fin, m, "good") = Header(g, p, s, m, fin)
    BY <1>2, HeaderFrom
  <1>7. Payloads(u, g, o, m)
    BY <1>4, <1>5 DEF Payloads
  <1>8. Framed(Header(g, p, s, m, fin), u) = Slice(g, p, s, o, m, fin)
    BY <1>7, SliceParts
  <1> QED BY <1>2, <1>3, <1>4, <1>6, <1>8 DEF CutOut, Framed

Frames(p) == IF p.kind = "tse" THEN Tx!Segments(p) ELSE 1

(* Frame number s + 1 of a packet: where its payload begins, how long it   *)
(* is, and whether it is the last one                                      *)
Offset(p, s) == IF p.kind = "tse" THEN s * p.mss ELSE 0
LastOne(p, s) == p.kind = "tse" => s + 1 = Tx!Segments(p)
Share(p, s) == IF LastOne(p, s) THEN p.pay - Offset(p, s) ELSE p.mss

Part(g, p, s) == Slice(g, p, s, Offset(p, s), Share(p, s), LastOne(p, s))

LEMMA PartIs ==
  ASSUME NEW p, GuestPacket(p), NEW s \in Nat, s < Frames(p)
  PROVE  /\ Frames(p) \in Nat
         /\ Offset(p, s) \in Nat /\ Share(p, s) \in Nat /\ Flag(LastOne(p, s))
         /\ Offset(p, s) + Share(p, s) <= p.pay
         /\ LastOne(p, s) <=> s + 1 = Frames(p)
         /\ LastOne(p, s) => Share(p, s) = p.pay - Offset(p, s)
         /\ p.kind = "tse" => /\ Offset(p, s) = s * p.mss /\ Offset(p, s) < p.pay
                              /\ LastOne(p, s) <=> p.pay <= Offset(p, s) + p.mss
                              /\ ~LastOne(p, s) => /\ Share(p, s) = p.mss
                                                   /\ Offset(p, s + 1) = Offset(p, s) + p.mss
         /\ p.kind # "tse" => s = 0 /\ Offset(p, s) = 0 /\ LastOne(p, s) /\ Share(p, s) = p.pay
  <1>1. PICK y \in Nat, w \in Nat : y = p.pay /\ w = p.mss
    BY DEF GuestPacket
  <1>2. CASE p.kind = "tse"
    <2>1. PICK ns \in Nat : ns = Tx!Segments(p) /\ ns = Frames(p)
      BY <1>2, SegmentsAre DEF Frames
    <2>2. /\ s * w < y /\ s * w \in Nat /\ (s + 1) * w = s * w + w
          /\ y <= (s + 1) * w <=> s + 1 = ns
      <3>1. s * p.mss < p.pay
        BY <1>2, <2>1, SegmentsAre
      <3>2. /\ s < Tx!Segments(p) /\ s * p.mss \in Nat /\ (s + 1) * p.mss = s * p.mss + p.mss
            /\ p.pay <= (s + 1) * p.mss <=> s + 1 = Tx!Segments(p)
        BY <1>2, <3>1, SegmentsAre
      <3> QED BY <1>1, <2>1, <3>1, <3>2
    <2>3. PICK o \in Nat : o = s * w
      BY <2>2
    <2>4. Offset(p, s) = o /\ Offset(p, s + 1) = o + w /\ (LastOne(p, s) <=> s + 1 = ns)
      BY <1>1, <1>2, <2>1, <2>2, <2>3 DEF Offset, LastOne
    <2>5. o < y /\ (y <= o + w <=> s + 1 = ns)
      BY <2>2, <2>3
    <2>6. PICK e \in Nat : e = IF s + 1 = ns THEN y - o ELSE w
      <3>1. y - o \in Nat
        BY <2>5
      <3> QED BY <3>1
    <2>7. Share(p, s) = e
      BY <1>1, <2>4, <2>6 DEF Share
    <2>8. o + e <= y
      BY <2>5, <2>6
    <2>9. Flag(LastOne(p, s))
      BY DEF Flag, LastOne
    <2> QED BY <1>1, <1>2, <2>1, <2>3, <2>4, <2>5, <2>6, <2>7, <2>8, <2>9
  <1>3. CASE p.kind # "tse"
    <2>1. s = 0 /\ Frames(p) = 1
      BY <1>3 DEF Frames
    <2>2. Offset(p, s) = 0 /\ LastOne(p, s) /\ Flag(LastOne(p, s))
      BY <1>3 DEF Offset, LastOne, Flag
    <2>3. Share(p, s) = y /\ y - 0 = y /\ 0 + y <= y
      BY <1>1, <2>2 DEF Share
    <2> QED BY <1>1, <1>3, <2>1, <2>2, <2>3
  <1> QED BY <1>2, <1>3

LEMMA FramesAre ==
  ASSUME NEW p, GuestPacket(p)
  PROVE  Frames(p) \in Nat /\ Frames(p) > 0
  <1>1. CASE p.kind = "tse"
    BY <1>1, SegmentsAre DEF Frames
  <1>2. CASE p.kind # "tse"
    BY <1>2 DEF Frames
  <1> QED BY <1>1, <1>2

LEMMA ExpectedIs ==
  ASSUME NEW g \in Nat, NEW p, GuestPacket(p)
  PROVE  /\ Tx!Expected(g, p) \in Seq(Seq(TxCell)) /\ Len(Tx!Expected(g, p)) = Frames(p)
         /\ \A s \in 0 .. Frames(p) - 1 : Tx!Expected(g, p)[s + 1] = Part(g, p, s)
  <1>1. PICK ns \in Nat : ns = Frames(p) /\ ns > 0
    BY FramesAre
  <1> DEFINE size == IF p.kind = "tse" THEN p.mss ELSE p.pay
             x(k) == LET first == (k - 1) * size
                         last  == IF k = ns THEN p.pay ELSE k * size
                     IN  <<[Tx!Cells(g, p)[1] EXCEPT !.id = k - 1, !.seq = first, !.fin = (k = ns),
                                !.len = last - first, !.sum = "good"]>>
                            \o SubSeq(Tx!Cells(g, p), first + 2, last + 1)
  <1>2. Tx!Expected(g, p) = [k \in 1 .. ns |-> x(k)]
    BY <1>1 DEF Tx!Expected, Frames
  <1>3. ASSUME NEW s \in 0 .. ns - 1 PROVE x(s + 1) = Part(g, p, s) /\ Part(g, p, s) \in Seq(TxCell)
    <2>1. s \in Nat /\ (s + 1) - 1 = s /\ s < ns
      OBVIOUS
    <2>2. PICK o \in Nat, m \in Nat, fin \in BOOLEAN : /\ o = Offset(p, s) /\ m = Share(p, s) /\ fin = LastOne(p, s)
                                           /\ Flag(fin)
      <3>1. Offset(p, s) \in Nat /\ Share(p, s) \in Nat /\ Flag(LastOne(p, s))
        BY <1>1, <2>1, PartIs
      <3> QED BY <3>1 DEF Flag
    <2>3. PICK y \in Nat, w \in Nat, z \in Nat : y = p.pay /\ w = p.mss /\ z = o + m
      BY DEF GuestPacket
    <2>4. o <= z /\ z <= p.pay /\ z - o = m
      <3>1. o + m <= y
        BY <1>1, <2>1, <2>2, <2>3, PartIs
      <3> QED BY <2>3, <3>1
    <2>5. s * size = o /\ s * p.mss = o /\ (fin = (s + 1 = ns)) /\ z = (IF s + 1 = ns THEN p.pay ELSE (s + 1) * size)
      <3>1. CASE p.kind = "tse"
        <4>1. o = s * w /\ size = w /\ (fin <=> s + 1 = ns) /\ (fin => m = y - o)
              /\ (~fin => m = w /\ Offset(p, s + 1) = o + w)
          BY <1>1, <2>1, <2>2, <2>3, <3>1, PartIs
        <4>2. Offset(p, s + 1) = (s + 1) * w
          BY <2>3, <3>1 DEF Offset
        <4>3. (fin = (s + 1 = ns))
          BY <2>2, <4>1 DEF Flag
        <4>4. o + (y - o) = y
          OBVIOUS
        <4> QED BY <2>3, <4>1, <4>2, <4>3, <4>4
      <3>2. CASE p.kind # "tse"
        <4>1. s = 0 /\ o = 0 /\ fin /\ m = y /\ (fin <=> s + 1 = ns)
          BY <1>1, <2>1, <2>2, <2>3, <3>2, PartIs
        <4>2. 0 * y = 0 /\ 0 * w = 0 /\ size = y /\ 0 + y = y
          BY <2>3, <3>2
        <4>3. (fin = (s + 1 = ns))
          BY <2>2, <4>1 DEF Flag
        <4> QED BY <2>3, <4>1, <4>2, <4>3
      <3> QED BY <3>1, <3>2
    <2> HIDE DEF size
    <2>6. CutOut(g, p, s, o, z, fin) = Slice(g, p, s, o, z - o, fin)
      BY <2>1, <2>2, <2>4, CutIs
    <2>7. Slice(g, p, s, o, m, fin) = Part(g, p, s)
      BY <2>2 DEF Part
    <2>8. x(s + 1) = CutOut(g, p, s, o, z, fin)
      BY <2>1, <2>5 DEF CutOut, Changed
    <2>9. Slice(g, p, s, o, m, fin) \in Seq(TxCell)
      BY <2>1, <2>2, SliceIs
    <2> QED BY <2>4, <2>6, <2>7, <2>8, <2>9
  <1> HIDE DEF x
  <1>4. PICK E : E = [k \in 1 .. ns |-> x(k)]
    OBVIOUS
  <1>5. ASSUME NEW s \in 0 .. ns - 1 PROVE E[s + 1] = Part(g, p, s)
    <2>1. s + 1 \in 1 .. ns
      OBVIOUS
    <2> QED BY <1>3, <1>4, <2>1
  <1>6. E \in Seq(Seq(TxCell)) /\ Len(E) = ns
    <2>1. ASSUME NEW k \in 1 .. ns PROVE x(k) \in Seq(TxCell)
      <3>1. k - 1 \in 0 .. ns - 1 /\ (k - 1) + 1 = k
        OBVIOUS
      <3> QED BY <1>3, <3>1
    <2>2. E \in [1 .. ns -> Seq(TxCell)]
      BY <1>4, <2>1
    <2> QED BY <2>2, SequenceOf
  <1> QED BY <1>1, <1>2, <1>4, <1>5, <1>6

-----------------------------------------------------------------------------
(* The buffer, when m cells of packet g have been copied and s frames of   *)
(* it have been sent                                                       *)
InBuf(b, g, p, s, m) ==
    /\ b \in Seq(TxCell) /\ Len(b) = m - Offset(p, s)
    /\ Len(b) > 0 => b[1] = FirstCell(g, p, s)
    /\ \A j \in 1 .. Len(b) - 1 : b[j + 1] = [frame |-> g, n |-> Offset(p, s) + j]

Uncopied(w, g, p, m, z) == w = SubSeq(Tx!Cells(g, p), m + 1, z)

(* What is left to copy *)
RestOf(w, g, p, m, z) ==
    /\ w \in Seq(TxCell) /\ Len(w) = z - m
    /\ z > m /\ m = 0 => w[1] = FirstCell(g, p, 0)
    /\ \A k \in 1 .. z - m : m + k > 1 => w[k] = [frame |-> g, n |-> m + k - 1]

LEMMA UncopiedRest ==
  ASSUME NEW g \in Nat, NEW p, GuestPacket(p), NEW m \in Nat, NEW z \in Nat, m <= z, z <= p.pay + 1,
         NEW w, Uncopied(w, g, p, m, z)
  PROVE  RestOf(w, g, p, m, z)
  <1>1. PICK all \in Seq(TxCell), y \in Nat :
             /\ all = Tx!Cells(g, p) /\ y = p.pay /\ Len(all) = y + 1
             /\ all[1] = FirstCell(g, p, 0)
             /\ \A j \in 1 .. y : all[j + 1] = [frame |-> g, n |-> j]
    <2>1. /\ Tx!Cells(g, p) \in Seq(TxCell) /\ Len(Tx!Cells(g, p)) = p.pay + 1
          /\ Tx!Cells(g, p)[1] = FirstCell(g, p, 0)
          /\ \A j \in 1 .. p.pay : Tx!Cells(g, p)[j + 1] = [frame |-> g, n |-> j]
      BY TxCellsAre
    <2>2. p.pay \in Nat
      BY DEF GuestPacket
    <2> QED BY <2>1, <2>2
  <1>2. /\ w \in Seq(TxCell) /\ Len(w) = z - m
        /\ \A k \in 1 .. z - m : w[k] = all[m + k]
    <2>1. z <= Len(all)
      BY <1>1
    <2>2. w = SubSeq(all, m + 1, z)
      BY <1>1 DEF Uncopied
    <2>3. /\ SubSeq(all, m + 1, z) \in Seq(TxCell) /\ Len(SubSeq(all, m + 1, z)) = z - m
          /\ \A k \in 1 .. z - m : SubSeq(all, m + 1, z)[k] = all[m + k]
      BY <2>1, PieceOf
    <2> QED BY <2>2, <2>3
  <1>3. z > m /\ m = 0 => w[1] = FirstCell(g, p, 0)
    <2>1. z > m /\ m = 0 => 1 \in 1 .. z - m /\ m + 1 = 1
      OBVIOUS
    <2> QED BY <1>1, <1>2, <2>1
  <1>4. ASSUME NEW k \in 1 .. z - m, m + k > 1 PROVE w[k] = [frame |-> g, n |-> m + k - 1]
    <2>1. m + k - 1 \in 1 .. y /\ (m + k - 1) + 1 = m + k
      <3>1. z <= y + 1 /\ y \in Nat
        BY <1>1
      <3> QED BY <1>4, <3>1
    <2> QED BY <1>1, <1>2, <2>1
  <1> QED BY <1>2, <1>3, <1>4 DEF RestOf

LEMMA UncopiedIs ==
  ASSUME NEW g \in Nat, NEW p, GuestPacket(p), NEW m \in Nat, NEW z \in Nat, m <= z, z <= p.pay + 1,
         NEW w, Uncopied(w, g, p, m, z)
  PROVE  /\ w \in Seq(TxCell) /\ Len(w) = z - m
         /\ z > m /\ m = 0 => w[1] = FirstCell(g, p, 0)
         /\ \A k \in 1 .. z - m : m + k > 1 => w[k] = [frame |-> g, n |-> m + k - 1]
  <1>1. RestOf(w, g, p, m, z)
    BY UncopiedRest
  <1> QED BY <1>1, Zenon DEF RestOf

LEMMA ConcatBegin ==
  ASSUME NEW S, NEW q1 \in Seq(S), NEW q2 \in Seq(S), NEW k \in 1 .. Len(q1)
  PROVE  (q1 \o q2)[k] = q1[k]
  OBVIOUS

LEMMA ConcatEnd ==
  ASSUME NEW S, NEW q1 \in Seq(S), NEW q2 \in Seq(S), NEW k \in 1 .. Len(q2)
  PROVE  (q1 \o q2)[Len(q1) + k] = q2[k]
  OBVIOUS

LEMMA CopyIndex ==
  ASSUME NEW m \in Nat, NEW o \in Nat, NEW z \in Nat, NEW x \in Nat, NEW lb \in Nat, NEW j \in Nat,
         NEW k \in 1 .. x, x <= z - m, m = lb + o, lb + k = j + 1, j > 0
  PROVE  k \in 1 .. z - m /\ m + k > 1 /\ m + k - 1 = o + j
  OBVIOUS

LEMMA CopyMore ==
  ASSUME NEW g \in Nat, NEW p, GuestPacket(p), NEW s \in Nat, NEW m \in Nat, NEW z \in Nat,
         m <= z, z <= p.pay + 1, NEW w, Uncopied(w, g, p, m, z),
         NEW b, InBuf(b, g, p, s, m), NEW o \in Nat, o = Offset(p, s), o <= m, s = 0 \/ o < m,
         NEW x \in Nat, NEW m2 \in Nat, m2 = m + x, m2 <= z
  PROVE  /\ InBuf(b \o SubSeq(w, 1, x), g, p, s, m2)
         /\ Uncopied(SubSeq(w, x + 1, Len(w)), g, p, m2, z)
         /\ Len(b \o SubSeq(w, 1, x)) = Len(b) + x
  <1>1. /\ w \in Seq(TxCell) /\ Len(w) = z - m
        /\ z > m /\ m = 0 => w[1] = FirstCell(g, p, 0)
        /\ \A k \in 1 .. z - m : m + k > 1 => w[k] = [frame |-> g, n |-> m + k - 1]
    <2>1. RestOf(w, g, p, m, z)
      BY UncopiedRest
    <2> QED BY <2>1, Zenon DEF RestOf
  <1>2. PICK lb \in Nat :
        /\ b \in Seq(TxCell) /\ Len(b) = lb /\ lb = m - o
        /\ lb > 0 => b[1] = FirstCell(g, p, s)
        /\ \A j \in 1 .. lb - 1 : b[j + 1] = [frame |-> g, n |-> o + j]
    <2>1. m - o \in Nat
      OBVIOUS
    <2> QED BY <2>1 DEF InBuf
  <1>a. w \in Seq(TxCell) /\ Len(w) = z - m /\ x <= z - m /\ b \in Seq(TxCell) /\ Len(b) = lb /\ lb = m - o
    BY <1>1, <1>2
  <1>e. x <= z - m /\ lb = m - o /\ m = lb + o /\ z - m \in Nat
    BY <1>a
  <1>3. PICK v : v \in Seq(TxCell) /\ v = SubSeq(w, 1, x) /\ Len(v) = x /\ \A k \in 1 .. x : v[k] = w[k]
    <2>1. PICK n0 \in Nat : n0 = 0
      OBVIOUS
    <2>2. n0 <= x /\ x <= Len(w) /\ x - n0 = x /\ n0 + 1 = 1 /\ \A k \in 1 .. x : n0 + k = k
      BY <1>a, <2>1
    <2>3. /\ SubSeq(w, n0 + 1, x) \in Seq(TxCell) /\ Len(SubSeq(w, n0 + 1, x)) = x - n0
          /\ \A k \in 1 .. x - n0 : SubSeq(w, n0 + 1, x)[k] = w[n0 + k]
      <3>1. Piece(TxCell, w, n0, x)
        BY <1>a, <2>2, PieceIs
      <3> QED BY <3>1, Zenon DEF Piece
    <2> QED BY <2>2, <2>3
  <1>b. v \in Seq(TxCell) /\ Len(v) = x
    BY <1>3
  <1>4. PICK c :
           /\ c \in Seq(TxCell) /\ c = b \o v /\ Len(c) = lb + x
           /\ \A k \in 1 .. lb : c[k] = b[k]
           /\ \A k \in 1 .. x : c[lb + k] = v[k]
    <2>1. b \o v \in Seq(TxCell) /\ Len(b \o v) = Len(b) + Len(v)
      BY <1>a, <1>b, Concatenation
    <2>2. \A k \in 1 .. Len(b) : (b \o v)[k] = b[k]
      <3> SUFFICES ASSUME NEW k \in 1 .. Len(b) PROVE (b \o v)[k] = b[k]
        OBVIOUS
      <3> QED BY <1>a, <1>b, ConcatBegin
    <2>3. \A k \in 1 .. Len(v) : (b \o v)[Len(b) + k] = v[k]
      <3> SUFFICES ASSUME NEW k \in 1 .. Len(v) PROVE (b \o v)[Len(b) + k] = v[k]
        OBVIOUS
      <3> QED BY <1>a, <1>b, ConcatEnd
    <2> QED BY <1>a, <1>b, <2>1, <2>2, <2>3
  <1>5. PICK lc \in Nat : lc = Len(c) /\ lc = lb + x /\ lc = m2 - o
    BY <1>a, <1>4
  <1>6. lc > 0 => c[1] = FirstCell(g, p, s)
    <2>1. CASE lb > 0
      <3>1. 1 \in 1 .. lb
        BY <2>1
      <3> QED BY <1>2, <1>4, <2>1, <3>1
    <2>2. CASE lb = 0
      <3>1. s = 0 /\ m = o
        BY <1>a, <2>2
      <3>2. o = 0
        <4>1. p.mss \in Nat
          BY DEF GuestPacket
        <4> QED BY <3>1, <4>1 DEF Offset
      <3>3. lc > 0 => x > 0
        BY <1>5, <2>2
      <3>4. x > 0 => 1 \in 1 .. x /\ z > m
        BY <1>e
      <3>5. m = 0 /\ lb + 1 = 1
        BY <2>2, <3>1, <3>2
      <3> QED BY <1>1, <1>3, <1>4, <3>1, <3>3, <3>4, <3>5
    <2> QED BY <2>1, <2>2
  <1>7. ASSUME NEW j \in 1 .. lc - 1 PROVE c[j + 1] = [frame |-> g, n |-> o + j]
    <2>1. CASE j + 1 <= lb
      <3>1. j + 1 \in 1 .. lb /\ j \in 1 .. lb - 1
        BY <2>1
      <3> QED BY <1>2, <1>4, <3>1
    <2>2. CASE j + 1 > lb
      <3>1. j + 1 - lb \in 1 .. x /\ lb + (j + 1 - lb) = j + 1
        BY <1>5, <2>2
      <3>2. PICK k \in 1 .. x : k = j + 1 - lb /\ lb + k = j + 1
        BY <3>1
      <3>3. k \in 1 .. z - m /\ m + k > 1 /\ m + k - 1 = o + j
        <4>1. j \in Nat /\ j > 0
          OBVIOUS
        <4> QED BY <1>e, <3>2, <4>1, CopyIndex
      <3>4. v[k] = w[k] /\ c[j + 1] = v[k]
        BY <1>3, <1>4, <3>2
      <3> QED BY <1>1, <3>3, <3>4
    <2> QED BY <2>1, <2>2
  <1>8. InBuf(c, g, p, s, m2)
    BY <1>4, <1>5, <1>6, <1>7 DEF InBuf
  <1>9. Uncopied(SubSeq(w, x + 1, Len(w)), g, p, m2, z)
    <2>1. PICK all : all \in Seq(TxCell) /\ all = Tx!Cells(g, p) /\ z <= Len(all)
      <3>1. Tx!Cells(g, p) \in Seq(TxCell) /\ Len(Tx!Cells(g, p)) = p.pay + 1
        BY TxCellsAre
      <3> QED BY <3>1
    <2>2. w = SubSeq(all, m + 1, z)
      BY <2>1 DEF Uncopied
    <2>3. CASE x = Len(w)
      <3>1. SubSeq(w, x + 1, Len(w)) = <<>>
        <4>1. Len(w) < x + 1 /\ x + 1 \in Int /\ Len(w) \in Int
          BY <1>a, <2>3
        <4> QED BY <4>1, SubSeqEmpty
      <3>2. SubSeq(all, m2 + 1, z) = <<>>
        <4>1. z < m2 + 1 /\ m2 + 1 \in Int /\ z \in Int
          BY <1>a, <2>3
        <4> QED BY <4>1, SubSeqEmpty
      <3> QED BY <2>1, <3>1, <3>2 DEF Uncopied
    <2>4. CASE x # Len(w)
      <3>1. /\ m + 1 \in 1 .. Len(all) /\ z \in 1 .. Len(all)
            /\ x + 1 \in 1 .. z - (m + 1) + 1 /\ z - m \in 1 .. z - (m + 1) + 1
        BY <1>a, <2>1, <2>4
      <3>2. SubSeq(SubSeq(all, m + 1, z), x + 1, z - m) = SubSeq(all, (m + 1) + (x + 1) - 1, (m + 1) + (z - m) - 1)
        BY <3>1, SubSeqOfSubSeq
      <3>3. (m + 1) + (x + 1) - 1 = m2 + 1 /\ (m + 1) + (z - m) - 1 = z
        OBVIOUS
      <3> QED BY <1>a, <2>1, <2>2, <3>2, <3>3 DEF Uncopied
    <2> QED BY <2>3, <2>4
  <1> QED BY <1>2, <1>3, <1>4, <1>8, <1>9

-----------------------------------------------------------------------------
(* Headers: what is sent, and what the next frame begins with              *)
SetTo(c, len, fin) == [c EXCEPT !.len = len, !.fin = fin]

LEMMA TwoChanges ==
  ASSUME NEW c, NEW g, NEW n0, NEW q, NEW r, NEW x, NEW y, NEW len, NEW fin,
         c = Fields(g, n0, q, r, x, y)
  PROVE  SetTo(c, len, fin) = Fields(g, n0, q, fin, len, y)
  <1>1. [c EXCEPT !.len = len, !.fin = fin] = [[c EXCEPT !.len = len] EXCEPT !.fin = fin]
    BY Zenon
  <1>2. PICK c1 : c1 = [c EXCEPT !.len = len]
    OBVIOUS
  <1>3. PICK c2 : c2 = [c1 EXCEPT !.fin = fin]
    OBVIOUS
  <1>4. c1 = [frame |-> g, id |-> n0, seq |-> q, fin |-> r, len |-> len, sum |-> y]
    BY <1>2 DEF Fields
  <1>5. c2 = [frame |-> g, id |-> n0, seq |-> q, fin |-> fin, len |-> len, sum |-> y]
    BY <1>3, <1>4
  <1> QED BY <1>1, <1>2, <1>3, <1>5, Zenon DEF Fields, SetTo

Restored(c, len, sum, fin, n0, q) ==
    [c EXCEPT !.len = len, !.sum = sum, !.fin = fin, !.id = n0, !.seq = q]

LEMMA AllChanges ==
  ASSUME NEW c, NEW g, NEW n0, NEW q, NEW r, NEW x, NEW y, NEW s, NEW z, NEW fin, NEW len, NEW sum,
         c = Fields(g, n0, q, r, x, y)
  PROVE  Restored(c, len, sum, fin, s, z) = Fields(g, s, z, fin, len, sum)
  <1>3. [c EXCEPT !.len = len, !.sum = sum, !.fin = fin, !.id = s, !.seq = z]
          = [[[[[c EXCEPT !.len = len] EXCEPT !.sum = sum] EXCEPT !.fin = fin] EXCEPT !.id = s] EXCEPT !.seq = z]
    BY Zenon
  <1>4. PICK c1 : c1 = [c EXCEPT !.len = len]
    OBVIOUS
  <1>5. PICK c2 : c2 = [c1 EXCEPT !.sum = sum]
    OBVIOUS
  <1>6. PICK c3 : c3 = [c2 EXCEPT !.fin = fin]
    OBVIOUS
  <1>7. PICK c4 : c4 = [c3 EXCEPT !.id = s]
    OBVIOUS
  <1>8. PICK c5 : c5 = [c4 EXCEPT !.seq = z]
    OBVIOUS
  <1>9. c1 = [frame |-> g, id |-> n0, seq |-> q, fin |-> r, len |-> len, sum |-> y]
    BY <1>4 DEF Fields
  <1>10. c2 = [frame |-> g, id |-> n0, seq |-> q, fin |-> r, len |-> len, sum |-> sum]
    BY <1>5, <1>9
  <1>11. c3 = [frame |-> g, id |-> n0, seq |-> q, fin |-> fin, len |-> len, sum |-> sum]
    BY <1>6, <1>10
  <1>12. c4 = [frame |-> g, id |-> s, seq |-> q, fin |-> fin, len |-> len, sum |-> sum]
    BY <1>7, <1>11
  <1>13. c5 = [frame |-> g, id |-> s, seq |-> z, fin |-> fin, len |-> len, sum |-> sum]
    BY <1>8, <1>12
  <1> QED BY <1>3, <1>4, <1>5, <1>6, <1>7, <1>8, <1>13, Zenon DEF Fields, Restored

LEMMA FirstFields ==
  ASSUME NEW g, NEW p, NEW s
  PROVE  FirstCell(g, p, s) = Fields(g, s, s * p.mss, TRUE, p.pay, IF p.sum THEN "seed" ELSE "good")
  BY Zenon DEF FirstCell, Fields

LEMMA FieldsAre ==
  ASSUME NEW g, NEW n0, NEW q, NEW r, NEW x, NEW y, NEW c, c = Fields(g, n0, q, r, x, y)
  PROVE  c.frame = g /\ c.id = n0 /\ c.seq = q /\ c.fin = r /\ c.len = x /\ c.sum = y
  BY DEF Fields

LEMMA ChecksumIs ==
  ASSUME NEW g, NEW n0, NEW q, NEW r, NEW x, NEW y, NEW c, c = Fields(g, n0, q, r, x, y)
  PROVE  Tx!Checksum(c) = Fields(g, n0, q, r, x, IF y = "seed" THEN "good" ELSE "bad")
  <1>1. c.sum = y
    BY FieldsAre
  <1>2. PICK v : v = IF y = "seed" THEN "good" ELSE "bad"
    OBVIOUS
  <1>3. PICK c1 : c1 = [c EXCEPT !.sum = v]
    OBVIOUS
  <1>4. c1 = [frame |-> g, id |-> n0, seq |-> q, fin |-> r, len |-> x, sum |-> v]
    BY <1>3 DEF Fields
  <1>5. Tx!Checksum(c) = [c EXCEPT !.sum = v]
    BY <1>1, <1>2 DEF Tx!Checksum
  <1> QED BY <1>2, <1>3, <1>4, <1>5, Zenon DEF Fields

(* The header of a frame, with the checksums or without them *)
LEMMA SegmentHeader ==
  ASSUME NEW g, NEW p, NEW s, NEW len, NEW fin, p.sum = TRUE
  PROVE  Tx!Checksum(SetTo(FirstCell(g, p, s), len, fin)) = Header(g, p, s, len, fin)
  <1>0. PICK c : c = SetTo(FirstCell(g, p, s), len, fin)
    OBVIOUS
  <1>1. PICK f : f = FirstCell(g, p, s)
    OBVIOUS
  <1>2. PICK q, r, x, y : q = s * p.mss /\ r = TRUE /\ x = p.pay /\ y = "seed"
    OBVIOUS
  <1>3. f = Fields(g, s, q, r, x, y)
    BY <1>1, <1>2, FirstFields
  <1>4. c = Fields(g, s, q, fin, len, y)
    BY <1>0, <1>1, <1>3, TwoChanges
  <1>5. Tx!Checksum(c) = Fields(g, s, q, fin, len, IF y = "seed" THEN "good" ELSE "bad")
    BY <1>4, ChecksumIs
  <1>6. Tx!Checksum(c) = Fields(g, s, q, fin, len, "good")
    BY <1>2, <1>5
  <1> QED BY <1>0, <1>2, <1>6, Zenon DEF Header, Fields

Plain(p, c) == IF p.sum THEN Tx!Checksum(c) ELSE c

LEMMA PlainHeader ==
  ASSUME NEW g, NEW p, NEW s, Flag(p.sum)
  PROVE  Plain(p, FirstCell(g, p, s)) = Header(g, p, s, p.pay, TRUE)
  <1>0. PICK c : c = FirstCell(g, p, s)
    OBVIOUS
  <1>1. PICK q, r, x : q = s * p.mss /\ r = TRUE /\ x = p.pay
    OBVIOUS
  <1>a. p.sum \in BOOLEAN
    BY DEF Flag
  <1>2. CASE p.sum = TRUE
    <2>1. PICK y : y = "seed"
      OBVIOUS
    <2>2. c = Fields(g, s, q, r, x, y)
      BY <1>0, <1>1, <1>2, <2>1, FirstFields
    <2>3. Tx!Checksum(c) = Fields(g, s, q, r, x, IF y = "seed" THEN "good" ELSE "bad")
      BY <2>2, ChecksumIs
    <2>4. Tx!Checksum(c) = Fields(g, s, q, r, x, "good")
      BY <2>1, <2>3
    <2>5. Tx!Checksum(c) = Header(g, p, s, p.pay, TRUE)
      BY <1>1, <2>4, Zenon DEF Header, Fields
    <2> QED BY <1>0, <1>2, <2>5 DEF Plain
  <1>3. CASE p.sum = FALSE
    <2>1. c = Fields(g, s, q, r, x, "good")
      BY <1>0, <1>1, <1>3, FirstFields
    <2>2. c = Header(g, p, s, p.pay, TRUE)
      BY <1>1, <2>1, Zenon DEF Header, Fields
    <2> QED BY <1>0, <1>3, <2>2 DEF Plain
  <1> QED BY <1>a, <1>2, <1>3

Raised == TRUE

SumsLeft(p) == p.sum = TRUE

LEMMA NextFirstCell ==
  ASSUME NEW g, NEW p, NEW s \in Nat, NEW len, NEW fin, SumsLeft(p), p.mss \in Nat,
         NEW c, c = Header(g, p, s, len, fin)
  PROVE  Restored(c, p.pay, "seed", Raised, c.id + 1, c.seq + p.mss) = FirstCell(g, p, s + 1)
  <1>0. PICK n0, z : n0 = c.id + 1 /\ z = c.seq + p.mss
    OBVIOUS
  <1>1. PICK q \in Nat, w \in Nat : w = p.mss /\ q = s * w
    OBVIOUS
  <1>2. PICK x, gd, sd, tr : x = p.pay /\ gd = "good" /\ sd = "seed" /\ tr = TRUE
    OBVIOUS
  <1>3. c = Fields(g, s, q, fin, len, gd)
    BY <1>1, <1>2, Zenon DEF Header, Fields
  <1>4. n0 = s + 1 /\ z = q + w /\ z = (s + 1) * w
    <2>1. c.id = s /\ c.seq = q
      BY <1>3, FieldsAre
    <2>2. s <= s + 1 /\ (s + 1) * w = s * w + w
      BY TxMonotone
    <2> QED BY <1>0, <1>1, <2>1, <2>2
  <1>5. Restored(c, x, sd, tr, n0, z) = Fields(g, n0, z, tr, x, sd)
    BY <1>3, AllChanges
  <1>6. FirstCell(g, p, s + 1) = Fields(g, s + 1, (s + 1) * p.mss, TRUE, p.pay, IF p.sum THEN "seed" ELSE "good")
    BY FirstFields
  <1>7. (IF p.sum THEN "seed" ELSE "good") = "seed"
    BY DEF SumsLeft
  <1>8. FirstCell(g, p, s + 1) = Fields(g, n0, z, tr, x, sd)
    BY <1>1, <1>2, <1>4, <1>6, <1>7
  <1>9. Restored(c, p.pay, "seed", Raised, n0, z) = FirstCell(g, p, s + 1)
    BY <1>2, <1>5, <1>8, Zenon DEF Raised
  <1> QED BY <1>0, <1>9, Zenon

-----------------------------------------------------------------------------
(* What is passed to recvvirt_func is a frame of the packet, and what      *)
(* stays in the buffer begins the next one.                                *)
After(b, m) == [k \in 1 .. m |-> IF k + 1 <= Len(b) THEN b[k + 1] ELSE [stale |-> TRUE]]
Passed(c, b, m) == <<c>> \o After(b, m)

LEMMA BehindFirst ==
  ASSUME NEW g \in Nat, NEW p, GuestPacket(p), NEW s \in Nat, NEW m2 \in Nat,
         NEW b, InBuf(b, g, p, s, m2), NEW o \in Nat, o = Offset(p, s),
         NEW n \in Nat, n = Len(b), NEW m \in Nat, m + 1 <= n
  PROVE  After(b, m) \in Seq(TxCell) /\ Payloads(After(b, m), g, o, m)
  <1>0. PICK u : u = After(b, m)
    OBVIOUS
  <1>1. b \in Seq(TxCell) /\ \A j \in 1 .. n - 1 : b[j + 1] = [frame |-> g, n |-> o + j]
    BY DEF InBuf
  <1>2. \A k \in 1 .. m : k + 1 <= n /\ k \in 1 .. n - 1 /\ k + 1 \in 1 .. n
    OBVIOUS
  <1>3. \A k \in 1 .. m : u[k] = b[k + 1]
    BY <1>0, <1>2 DEF After
  <1>4. \A k \in 1 .. m : b[k + 1] \in TxCell
    <2> SUFFICES ASSUME NEW k \in 1 .. m PROVE b[k + 1] \in TxCell
      OBVIOUS
    <2>1. k + 1 \in 1 .. Len(b)
      BY <1>2
    <2> QED BY <1>1, <2>1, ElementOf
  <1>5. u \in [1 .. m -> TxCell]
    <2>1. \A k \in 1 .. m : (IF k + 1 <= Len(b) THEN b[k + 1] ELSE [stale |-> TRUE]) \in TxCell
      BY <1>2, <1>4
    <2> QED BY <1>0, <2>1 DEF After
  <1>6. u \in Seq(TxCell) /\ Len(u) = m
    BY <1>5, SequenceOf
  <1>7. \A k \in 1 .. m : u[k] = [frame |-> g, n |-> o + k]
    BY <1>1, <1>2, <1>3
  <1> QED BY <1>0, <1>6, <1>7 DEF Payloads

LEMMA PassedIs ==
  ASSUME NEW g \in Nat, NEW p, GuestPacket(p), NEW s \in Nat, s < Frames(p), NEW m2 \in Nat,
         NEW b, InBuf(b, g, p, s, m2), NEW n \in Nat, n = Len(b),
         NEW m \in Nat, m = Share(p, s), m + 1 <= n,
         NEW fin, fin = LastOne(p, s), NEW c, c = Header(g, p, s, m, fin)
  PROVE  Passed(c, b, m) = Part(g, p, s)
  <1>1. PICK o \in Nat : o = Offset(p, s) /\ Flag(fin)
    BY PartIs
  <1>2. PICK u : u = After(b, m)
    OBVIOUS
  <1>3. u \in Seq(TxCell) /\ Payloads(u, g, o, m)
    BY <1>1, <1>2, BehindFirst
  <1>4. Framed(Header(g, p, s, m, fin), u) = Slice(g, p, s, o, m, fin)
    BY <1>1, <1>3, SliceParts
  <1>5. Passed(c, b, m) = <<c>> \o u
    BY <1>2 DEF Passed
  <1>6. Slice(g, p, s, o, m, fin) = Part(g, p, s)
    BY <1>1 DEF Part
  <1> QED BY <1>4, <1>5, <1>6 DEF Framed

SizedCells(q, m) == q \in Seq(TxCell) /\ Len(q) = m + 1

LEMMA SliceCells ==
  ASSUME NEW g \in Nat, NEW p, GuestPacket(p), NEW s \in Nat, NEW o \in Nat, NEW m \in Nat,
         NEW fin, Flag(fin)
  PROVE  SizedCells(Slice(g, p, s, o, m, fin), m)
  BY SliceIs DEF SizedCells

Kept(q1, q2, c, w, l) ==
    /\ Len(q2) = 1 + l /\ q2[1] = c
    /\ \A j \in 1 .. l : q2[j + 1] = q1[(w + j) + 1]

LEMMA ShiftSeq ==
  ASSUME NEW S, NEW q1 \in Seq(S), NEW c \in S, NEW w \in Nat, NEW n \in Nat, n = Len(q1),
         NEW l \in Nat, n = w + 1 + l,
         NEW q2, q2 = Framed(c, SubSeq(q1, (w + 1) + 1, n))
  PROVE  q2 \in Seq(S) /\ Kept(q1, q2, c, w, l)
  <1>1. PICK z \in Nat : z = w + 1 /\ z <= n
    OBVIOUS
  <1>2. l = n - z
    BY <1>1
  <1>3. PICK u : /\ u = SubSeq(q1, z + 1, n) /\ u \in Seq(S) /\ Len(u) = l
                 /\ \A k \in 1 .. l : u[k] = q1[z + k]
    <2>0. z <= n /\ n <= Len(q1)
      BY <1>1
    <2> HIDE <1>1
    <2>1. PICK u : u = SubSeq(q1, z + 1, n)
      OBVIOUS
    <2>2. u \in Seq(S) /\ Len(u) = n - z /\ \A k \in 1 .. n - z : u[k] = q1[z + k]
      BY <2>0, <2>1, PieceOf
    <2> QED BY <1>2, <2>1, <2>2
  <1>4. q2 = <<c>> \o u
    BY <1>1, <1>3 DEF Framed
  <1>5. q2 \in Seq(S) /\ Len(q2) = 1 + l /\ q2[1] = c
    <2>1. <<c>> \o u \in Seq(S) /\ Len(<<c>> \o u) = 1 + Len(u) /\ (<<c>> \o u)[1] = c
      BY <1>3, OnePlus
    <2> QED BY <1>3, <1>4, <2>1
  <1>6. \A k \in 1 .. l : q2[1 + k] = u[k]
    <2>1. \A k \in 1 .. Len(u) : (<<c>> \o u)[1 + k] = u[k]
      BY <1>3, OnePlus
    <2> QED BY <1>3, <1>4, <2>1
  <1>7. ASSUME NEW j \in 1 .. l PROVE q2[j + 1] = q1[(w + j) + 1]
    <2>1. 1 + j = j + 1 /\ z + j = (w + j) + 1
      BY <1>1
    <2> QED BY <1>3, <1>6, <2>1
  <1> QED BY <1>5, <1>7 DEF Kept

LEMMA WholeBuffer ==
  ASSUME NEW g \in Nat, NEW p, GuestPacket(p), p.kind # "tse", p.sum = FALSE,
         NEW m2 \in Nat, m2 = p.pay + 1, NEW b, NEW z0, z0 = 0, InBuf(b, g, p, z0, m2)
  PROVE  b = Part(g, p, 0)
  <1>1. PICK y \in Nat : y = p.pay /\ m2 = y + 1
    BY DEF GuestPacket
  <1>2. Offset(p, 0) = 0 /\ LastOne(p, 0) = TRUE /\ Share(p, 0) = y
    <2>1. Offset(p, 0) = 0 /\ LastOne(p, 0) = TRUE
      BY DEF Offset, LastOne
    <2>2. y - 0 = y
      OBVIOUS
    <2> QED BY <1>1, <2>1, <2>2 DEF Share
  <1>3. PICK F : F = Slice(g, p, 0, 0, y, TRUE) /\ F \in Seq(TxCell) /\ Len(F) = y + 1
    <2>1. PICK n0 \in Nat, tr \in BOOLEAN : n0 = 0 /\ tr = TRUE /\ Flag(tr)
      BY DEF Flag
    <2>2. SizedCells(Slice(g, p, n0, n0, y, tr), y)
      BY <2>1, SliceCells
    <2> QED BY <2>1, <2>2 DEF SizedCells
  <1>4. F = Part(g, p, 0)
    BY <1>2, <1>3 DEF Part
  <1>5. /\ b \in Seq(TxCell) /\ Len(b) = y + 1
        /\ b[1] = FirstCell(g, p, 0)
        /\ \A j \in 1 .. y : b[j + 1] = [frame |-> g, n |-> j]
    <2>1. y + 1 - 0 = y + 1 /\ y + 1 > 0 /\ y + 1 - 1 = y /\ \A j \in 1 .. y : 0 + j = j
      OBVIOUS
    <2>2. /\ b \in Seq(TxCell) /\ Len(b) = m2 - 0
          /\ Len(b) > 0 => b[1] = FirstCell(g, p, 0)
          /\ \A j \in 1 .. Len(b) - 1 : b[j + 1] = [frame |-> g, n |-> 0 + j]
      BY <1>2 DEF InBuf
    <2>3. Len(b) = y + 1
      BY <1>1, <2>1, <2>2
    <2> QED BY <2>1, <2>2, <2>3
  <1>6. F[1] = Header(g, p, 0, y, TRUE) /\ \A j \in 2 .. y + 1 : F[j] = [frame |-> g, n |-> 0 + j - 1]
    <2>1. F = [j \in 1 .. y + 1 |-> IF j = 1 THEN Header(g, p, 0, y, TRUE) ELSE [frame |-> g, n |-> 0 + j - 1]]
      BY <1>3 DEF Slice
    <2>2. 1 \in 1 .. y + 1 /\ \A j \in 2 .. y + 1 : j \in 1 .. y + 1 /\ j # 1
      OBVIOUS
    <2> QED BY <2>1, <2>2
  <1>7. FirstCell(g, p, 0) = Header(g, p, 0, y, TRUE)
    <2>1. Plain(p, FirstCell(g, p, 0)) = Header(g, p, 0, p.pay, TRUE)
      <3>1. Flag(p.sum)
        BY DEF Flag
      <3> QED BY <3>1, PlainHeader
    <2> QED BY <1>1, <2>1 DEF Plain
  <1>8. ASSUME NEW k \in 1 .. y + 1 PROVE b[k] = F[k]
    <2>1. CASE k = 1
      BY <1>5, <1>6, <1>7, <2>1
    <2>2. CASE k # 1
      <3>1. k - 1 \in 1 .. y /\ (k - 1) + 1 = k /\ k \in 2 .. y + 1 /\ 0 + k - 1 = k - 1
        BY <2>2
      <3> QED BY <1>5, <1>6, <3>1
    <2> QED BY <2>1, <2>2
  <1>9. b = F
    BY <1>3, <1>5, <1>8, SeqEqual
  <1> QED BY <1>4, <1>9

LEMMA Shifted ==
  ASSUME NEW g \in Nat, NEW p, GuestPacket(p), p.kind = "tse", NEW s \in Nat, s < Frames(p),
         LastOne(p, s) = FALSE, NEW m2 \in Nat, NEW b, InBuf(b, g, p, s, m2),
         NEW n \in Nat, n = Len(b), NEW w \in Nat, w = p.mss, w + 1 <= n,
         NEW s2 \in Nat, s2 = s + 1
  PROVE  InBuf(Framed(FirstCell(g, p, s2), Tx!Shift(b, w + 1)), g, p, s2, m2)
         /\ Len(Framed(FirstCell(g, p, s2), Tx!Shift(b, w + 1))) = n - w
  <1>0. PICK c, b2 : c = FirstCell(g, p, s2) /\ b2 = Framed(FirstCell(g, p, s2), Tx!Shift(b, w + 1))
    OBVIOUS
  <1>1. PICK o \in Nat : o = Offset(p, s) /\ Offset(p, s2) = o + w
    BY PartIs
  <1>2. b \in Seq(TxCell) /\ n = m2 - o /\ \A j \in 1 .. n - 1 : b[j + 1] = [frame |-> g, n |-> o + j]
    BY <1>1 DEF InBuf
  <1>3. c \in TxCell
    BY <1>0, FirstCellIs
  <1>4. n - (w + 1) \in Nat /\ n = w + 1 + (n - (w + 1))
    OBVIOUS
  <1>5. PICK l \in Nat : n = w + 1 + l
    BY <1>4
  <1>6. b2 = Framed(c, SubSeq(b, (w + 1) + 1, n))
    BY <1>0 DEF Tx!Shift
  <1>7. b2 \in Seq(TxCell) /\ Kept(b, b2, c, w, l)
    <2>1. b \in Seq(TxCell)
      BY <1>2
    <2> QED BY <1>3, <1>5, <1>6, <2>1, ShiftSeq
  <1>8. Len(b2) = 1 + l /\ b2[1] = c /\ \A j \in 1 .. l : b2[j + 1] = b[(w + j) + 1]
    BY <1>7 DEF Kept
  <1>9. ASSUME NEW j \in 1 .. l PROVE b2[j + 1] = [frame |-> g, n |-> (o + w) + j]
    <2>1. (w + j) \in 1 .. n - 1 /\ o + (w + j) = (o + w) + j
      BY <1>5
    <2>2. b2[j + 1] = b[(w + j) + 1]
      BY <1>8
    <2> QED BY <1>2, <2>1, <2>2
  <1>10. n = m2 - o
    BY <1>2
  <1>11. 1 + l = n - w /\ 1 + l = m2 - (o + w) /\ (1 + l) - 1 = l
    BY <1>5, <1>10
  <1> QED BY <1>0, <1>1, <1>7, <1>8, <1>9, <1>11 DEF InBuf

-----------------------------------------------------------------------------
(***************************************************************************)
(* Where the driver is: it has processed k descriptors of packet f, of n   *)
(* that the guest has queued; st[g] counts the descriptors of the first g  *)
(* packets, ex[g] is what goes out for them.                               *)
(***************************************************************************)
Wrap(c) == c % RingLen
Count(p) == Contexts(p) + Len(p.cuts)

Hist(q, n, st, ex) ==
    /\ st \in [0 .. n -> Nat] /\ ex \in [0 .. n -> Seq(Seq(TxCell))]
    /\ st[0] = 0 /\ ex[0] = <<>>
    /\ \A g \in 1 .. n : /\ GuestPacket(q[g])
                         /\ st[g] = st[g - 1] + Count(q[g])
                         /\ ex[g] = ex[g - 1] \o Tx!Expected(g, q[g])

Described(q, n, st, r, c) ==
    \A g \in 1 .. n : \A j \in Nat :
        j < Count(q[g]) /\ c <= st[g - 1] + j =>
            r[Wrap(st[g - 1] + j)] = Tx!Descriptors(g, q[g])[j + 1]

Walk(q, n, st, r, c, f, k) ==
    /\ f \in 1 .. n + 1 /\ k \in Nat /\ c = st[f - 1] + k
    /\ IF f = n + 1 THEN k = 0 ELSE k < Count(q[f])
    /\ st[n] - c < RingLen
    /\ Described(q, n, st, r, c)

LEMMA CountIs ==
  ASSUME NEW p, GuestPacket(p)
  PROVE  Count(p) \in Nat /\ Count(p) > 0 /\ Contexts(p) \in Nat
  <1>1. Len(p.cuts) \in Nat /\ Len(p.cuts) > 0
    BY DEF GuestPacket
  <1>2. Contexts(p) \in {0, 1}
    BY DEF Contexts
  <1> QED BY <1>1, <1>2 DEF Count

LEMMA HistIs ==
  ASSUME NEW n \in Nat, NEW q, NEW st, NEW ex, Hist(q, n, st, ex)
  PROVE  /\ \A g \in 0 .. n : st[g] \in Nat
         /\ \A a \in 0 .. n : \A b \in a .. n : st[a] <= st[b]
         /\ \A g \in 1 .. n : st[g] = st[g - 1] + Count(q[g]) /\ Count(q[g]) \in Nat /\ Count(q[g]) > 0
  <1>1. /\ \A g \in 0 .. n : st[g] \in Nat
        /\ \A g \in 1 .. n : st[g] = st[g - 1] + Count(q[g]) /\ GuestPacket(q[g])
    BY DEF Hist
  <1>2. \A g \in 1 .. n : Count(q[g]) \in Nat /\ Count(q[g]) > 0
    BY <1>1, CountIs
  <1>3. \A g \in 1 .. n : st[g - 1] <= st[g]
    <2> SUFFICES ASSUME NEW g \in 1 .. n PROVE st[g - 1] <= st[g]
      OBVIOUS
    <2>1. g - 1 \in 0 .. n
      OBVIOUS
    <2>2. st[g - 1] \in Nat /\ st[g] = st[g - 1] + Count(q[g]) /\ Count(q[g]) \in Nat
      BY <1>1, <1>2, <2>1
    <2> QED BY <2>2
  <1>4. \A a \in 0 .. n : \A b \in a .. n : st[a] <= st[b]
    BY <1>1, <1>3, Rising
  <1> QED BY <1>1, <1>2, <1>4

LEMMA TxRingSize == RingLen \in Nat \ {0} /\ RingLen > 1 /\ BUFSIZE \in Nat
  BY GuestTxAssumption

LEMMA WrapIs ==
  ASSUME NEW a \in Nat
  PROVE  /\ Wrap(a) \in 0 .. RingLen - 1
         /\ Wrap(a + 1) = Tx!NextIndex(Wrap(a))
         /\ \A b \in Nat : a <= b /\ b - a < RingLen => (Wrap(b) - Wrap(a)) % RingLen = b - a
         /\ \A b \in Nat : b < a /\ a - b < RingLen => (Wrap(b) - Wrap(a)) % RingLen = b - a + RingLen
         /\ \A b \in Nat : a <= b /\ b - a < RingLen => (Wrap(a) = Wrap(b) <=> a = b)
  BY TxRingSize, AroundRing DEF Wrap, Tx!NextIndex

LEMMA WalkBounds ==
  ASSUME NEW n \in Nat, NEW q, NEW st, NEW ex, Hist(q, n, st, ex),
         NEW r, NEW c, NEW f, NEW k, Walk(q, n, st, r, c, f, k)
  PROVE  /\ f \in 1 .. n + 1 /\ k \in Nat /\ c \in Nat /\ st[n] \in Nat /\ st[n] - c < RingLen
         /\ c = st[f - 1] + k /\ st[f - 1] \in Nat
         /\ f = n + 1 => c = st[n]
         /\ f # n + 1 => /\ f \in 1 .. n /\ k < Count(q[f]) /\ Count(q[f]) \in Nat
                         /\ st[f] = st[f - 1] + Count(q[f]) /\ st[f] \in Nat /\ st[f] <= st[n] /\ c < st[f]
  <1>1. /\ f \in 1 .. n + 1 /\ k \in Nat /\ c = st[f - 1] + k /\ st[n] - c < RingLen
        /\ f = n + 1 => k = 0
        /\ f # n + 1 => k < Count(q[f])
    BY DEF Walk
  <1>2. f - 1 \in 0 .. n /\ n \in 0 .. n
    BY <1>1
  <1>3. st[f - 1] \in Nat /\ st[n] \in Nat
    BY <1>2, HistIs
  <1>4. c \in Nat
    BY <1>1, <1>3
  <1>5. ASSUME f = n + 1 PROVE c = st[n]
    BY <1>1, <1>3, <1>5
  <1>6. ASSUME f # n + 1 PROVE /\ f \in 1 .. n /\ k < Count(q[f]) /\ Count(q[f]) \in Nat
                         /\ st[f] = st[f - 1] + Count(q[f]) /\ st[f] \in Nat /\ st[f] <= st[n] /\ c < st[f]
    <2>1. f \in 1 .. n /\ f \in 0 .. n /\ n \in f .. n
      BY <1>1, <1>6
    <2>2. Count(q[f]) \in Nat /\ st[f] = st[f - 1] + Count(q[f]) /\ st[f] \in Nat /\ st[f] <= st[n]
      BY <2>1, HistIs
    <2> QED BY <1>1, <1>3, <1>6, <2>1, <2>2
  <1> QED BY <1>1, <1>3, <1>4, <1>5, <1>6

LEMMA WalkHere ==
  ASSUME NEW n \in Nat, NEW q, NEW st, NEW ex, Hist(q, n, st, ex),
         NEW r, NEW c, NEW f, NEW k, Walk(q, n, st, r, c, f, k), f # n + 1
  PROVE  r[Wrap(c)] = Tx!Descriptors(f, q[f])[k + 1] /\ Wrap(c) # Wrap(st[n]) /\ GuestPacket(q[f])
  <1>1. /\ f \in 1 .. n /\ k \in Nat /\ c \in Nat /\ st[n] \in Nat /\ st[n] - c < RingLen
        /\ c = st[f - 1] + k /\ k < Count(q[f]) /\ st[f] \in Nat /\ st[f] <= st[n] /\ c < st[f]
    BY WalkBounds
  <1>2. c < st[n] /\ c <= c
    BY <1>1
  <1>3. Wrap(c) # Wrap(st[n])
    <2>1. c \in Nat /\ st[n] \in Nat /\ c <= st[n] /\ st[n] - c < RingLen /\ c # st[n]
      BY <1>1, <1>2
    <2> QED BY <2>1, WrapIs
  <1>4. r[Wrap(c)] = Tx!Descriptors(f, q[f])[k + 1]
    BY <1>1, <1>2 DEF Walk, Described
  <1>5. GuestPacket(q[f])
    BY <1>1 DEF Hist
  <1> QED BY <1>3, <1>4, <1>5

(* One more descriptor, of the same packet or the last one of it *)
LEMMA WalkOn ==
  ASSUME NEW n \in Nat, NEW q, NEW st, NEW ex, Hist(q, n, st, ex),
         NEW r, NEW c, NEW f, NEW k, Walk(q, n, st, r, c, f, k), f # n + 1
  PROVE  /\ Wrap(c + 1) = Tx!NextIndex(Wrap(c))
         /\ k + 1 < Count(q[f]) => Walk(q, n, st, r, c + 1, f, k + 1)
         /\ k + 1 = Count(q[f]) => Walk(q, n, st, r, c + 1, f + 1, 0)
  <1>1. /\ f \in 1 .. n /\ k \in Nat /\ c \in Nat /\ st[n] \in Nat /\ st[n] - c < RingLen
        /\ c = st[f - 1] + k /\ st[f - 1] \in Nat /\ st[f] = st[f - 1] + Count(q[f]) /\ st[f] \in Nat
        /\ Count(q[f]) \in Nat
    BY WalkBounds
  <1>2. Wrap(c + 1) = Tx!NextIndex(Wrap(c))
    BY <1>1, WrapIs
  <1>3. Described(q, n, st, r, c + 1)
    <2>1. Described(q, n, st, r, c)
      BY DEF Walk
    <2>2. ASSUME NEW x \in Nat, c + 1 <= x PROVE c <= x
      BY <1>1, <2>2
    <2>3. ASSUME NEW g \in 1 .. n, NEW j \in Nat PROVE st[g - 1] + j \in Nat
      <3>1. g - 1 \in 0 .. n
        OBVIOUS
      <3>2. st[g - 1] \in Nat
        BY <3>1, HistIs
      <3> QED BY <3>2
    <2>4. ASSUME NEW g \in 1 .. n, NEW j \in Nat, j < Count(q[g]), c + 1 <= st[g - 1] + j
          PROVE  r[Wrap(st[g - 1] + j)] = Tx!Descriptors(g, q[g])[j + 1]
      <3>1. c <= st[g - 1] + j
        BY <2>2, <2>3, <2>4
      <3> QED BY <2>1, <2>4, <3>1 DEF Described
    <2> QED BY <2>4 DEF Described
  <1>4. st[n] - (c + 1) < RingLen
    BY <1>1, TxRingSize
  <1>5. ASSUME k + 1 < Count(q[f]) PROVE Walk(q, n, st, r, c + 1, f, k + 1)
    <2>1. f \in 1 .. n + 1 /\ k + 1 \in Nat /\ c + 1 = st[f - 1] + (k + 1)
      BY <1>1
    <2> QED BY <1>3, <1>4, <1>5, <2>1 DEF Walk
  <1>6. ASSUME k + 1 = Count(q[f]) PROVE Walk(q, n, st, r, c + 1, f + 1, 0)
    <2>1. f + 1 \in 1 .. n + 1 /\ 0 \in Nat /\ (f + 1) - 1 = f /\ c + 1 = st[f] + 0
      BY <1>1, <1>6
    <2>2. ASSUME f + 1 # n + 1 PROVE 0 < Count(q[f + 1])
      <3>1. f + 1 \in 1 .. n
        BY <1>1, <2>2
      <3> QED BY <3>1, HistIs
    <2> QED BY <1>3, <1>4, <2>1, <2>2 DEF Walk
  <1> QED BY <1>2, <1>5, <1>6

(* One more packet in the ring *)
Extend(fn, n, v) == [g \in 0 .. n + 1 |-> IF g = n + 1 THEN v ELSE fn[g]]

Placed(r, nx, ds) ==
    [k \in 0 .. RingLen - 1 |->
        LET j == ((k - nx) % RingLen) + 1 IN IF j <= Len(ds) THEN ds[j] ELSE r[k]]

LEMMA HistMore ==
  ASSUME NEW n \in Nat, NEW q, NEW st, NEW ex, Hist(q, n, st, ex), NEW p, GuestPacket(p),
         NEW q2, q2[n + 1] = p, \A g \in 1 .. n : q2[g] = q[g]
  PROVE  Hist(q2, n + 1, Extend(st, n, st[n] + Count(p)),
              Extend(ex, n, ex[n] \o Tx!Expected(n + 1, p)))
  <1>1. /\ st \in [0 .. n -> Nat] /\ st[0] = 0 /\ ex[0] = <<>>
        /\ \A g \in 1 .. n : /\ GuestPacket(q[g])
                             /\ st[g] = st[g - 1] + Count(q[g])
                             /\ ex[g] = ex[g - 1] \o Tx!Expected(g, q[g])
    BY DEF Hist
  <1>2. PICK x : x = st[n] + Count(p) /\ x \in Nat
    <2>1. st[n] \in Nat /\ Count(p) \in Nat
      BY <1>1, CountIs
    <2> QED BY <2>1
  <1>3. PICK y : y = ex[n] \o Tx!Expected(n + 1, p)
    OBVIOUS
  <1>4. y \in Seq(Seq(TxCell))
    <2>1. ex[n] \in Seq(Seq(TxCell))
      <3>1. n \in 0 .. n
        OBVIOUS
      <3> QED BY <3>1 DEF Hist
    <2>2. Tx!Expected(n + 1, p) \in Seq(Seq(TxCell))
      <3>1. PICK m \in Nat : m = n + 1
        OBVIOUS
      <3> QED BY <3>1, ExpectedIs
    <2> QED BY <1>3, <2>1, <2>2
  <1> DEFINE s2 == Extend(st, n, x)
             e2 == Extend(ex, n, y)
  <1>5. \A g \in 0 .. n + 1 : g # n + 1 => g \in 0 .. n
    OBVIOUS
  <1>6. \A g \in 0 .. n + 1 : /\ s2[g] = IF g = n + 1 THEN x ELSE st[g]
                              /\ e2[g] = IF g = n + 1 THEN y ELSE ex[g]
    BY DEF Extend
  <1>7. s2 \in [0 .. n + 1 -> Nat]
    <2>1. \A g \in 0 .. n + 1 : (IF g = n + 1 THEN x ELSE st[g]) \in Nat
      BY <1>1, <1>2, <1>5
    <2> QED BY <2>1 DEF Extend
  <1>8. e2 \in [0 .. n + 1 -> Seq(Seq(TxCell))]
    <2>1. \A g \in 0 .. n + 1 : (IF g = n + 1 THEN y ELSE ex[g]) \in Seq(Seq(TxCell))
      <3>1. \A g \in 0 .. n : ex[g] \in Seq(Seq(TxCell))
        BY DEF Hist
      <3> QED BY <1>4, <1>5, <3>1
    <2> QED BY <2>1 DEF Extend
  <1>9. s2[0] = 0 /\ e2[0] = <<>>
    <2>1. 0 \in 0 .. n + 1 /\ 0 # n + 1
      OBVIOUS
    <2> QED BY <1>1, <1>6, <2>1
  <1> HIDE DEF s2, e2
  <1>10. ASSUME NEW g \in 1 .. n + 1
         PROVE  /\ GuestPacket(q2[g])
                /\ s2[g] = s2[g - 1] + Count(q2[g])
                /\ e2[g] = e2[g - 1] \o Tx!Expected(g, q2[g])
    <2>1. g \in 0 .. n + 1 /\ g - 1 \in 0 .. n + 1 /\ g - 1 # n + 1
      OBVIOUS
    <2>2. s2[g - 1] = st[g - 1] /\ e2[g - 1] = ex[g - 1]
      BY <1>6, <2>1
    <2>3. CASE g = n + 1
      <3>1. s2[g] = x /\ e2[g] = y /\ g - 1 = n /\ q2[g] = p
        BY <1>6, <2>1, <2>3
      <3>2. GuestPacket(q2[g])
        BY <3>1
      <3>3. s2[g] = s2[g - 1] + Count(q2[g])
        BY <1>2, <2>2, <3>1
      <3>4. e2[g] = e2[g - 1] \o Tx!Expected(g, q2[g])
        BY <1>3, <2>2, <2>3, <3>1
      <3> QED BY <3>2, <3>3, <3>4
    <2>4. CASE g # n + 1
      <3>1. g \in 1 .. n
        BY <2>4
      <3>2. s2[g] = st[g] /\ e2[g] = ex[g] /\ q2[g] = q[g]
        BY <1>6, <2>1, <2>4, <3>1
      <3> QED BY <1>1, <2>2, <3>1, <3>2
    <2> QED BY <2>3, <2>4
  <1>11. Hist(q2, n + 1, s2, e2)
    BY <1>7, <1>8, <1>9, <1>10 DEF Hist
  <1> QED BY <1>2, <1>3, <1>11 DEF s2, e2

LEMMA PlacedIs ==
  ASSUME NEW r, NEW ds, NEW a \in Nat, NEW b \in Nat, NEW c \in Nat, c <= a,
         NEW l \in Nat, l = Len(ds), ((Wrap(a) - Wrap(c)) % RingLen) + l < RingLen
  PROVE  /\ a - c < RingLen => a - c + l < RingLen
         /\ a - c < RingLen /\ c <= b /\ b < a => Placed(r, Wrap(a), ds)[Wrap(b)] = r[Wrap(b)]
         /\ a <= b /\ b - a < l => Placed(r, Wrap(a), ds)[Wrap(b)] = ds[(b - a) + 1]
  <1>1. RingLen \in Nat /\ RingLen > 1
    BY TxRingSize
  <1>2. Placed(r, Wrap(a), ds)[Wrap(b)] =
          IF ((Wrap(b) - Wrap(a)) % RingLen) + 1 <= l THEN ds[((Wrap(b) - Wrap(a)) % RingLen) + 1] ELSE r[Wrap(b)]
    <2>1. PICK w : w = Wrap(b) /\ w \in 0 .. RingLen - 1
      BY WrapIs
    <2>2. PICK x : x = Wrap(a)
      OBVIOUS
    <2>3. Placed(r, x, ds)[w] =
            IF ((w - x) % RingLen) + 1 <= Len(ds) THEN ds[((w - x) % RingLen) + 1] ELSE r[w]
      BY <2>1 DEF Placed
    <2> QED BY <2>1, <2>2, <2>3
  <1>3. ASSUME a - c < RingLen PROVE a - c + l < RingLen
    <2>1. (Wrap(a) - Wrap(c)) % RingLen = a - c
      BY <1>3, WrapIs
    <2> QED BY <2>1
  <1>4. ASSUME a - c < RingLen, c <= b, b < a
        PROVE  Placed(r, Wrap(a), ds)[Wrap(b)] = r[Wrap(b)]
    <2>1. a - b < RingLen
      BY <1>4, <1>1
    <2>2. (Wrap(b) - Wrap(a)) % RingLen = b - a + RingLen
      BY <1>4, <2>1, WrapIs
    <2>3. ~(b - a + RingLen + 1 <= l)
      BY <1>1, <1>3, <1>4
    <2> QED BY <1>2, <2>2, <2>3
  <1>5. ASSUME a <= b, b - a < l
        PROVE  Placed(r, Wrap(a), ds)[Wrap(b)] = ds[(b - a) + 1]
    <2>1. (Wrap(a) - Wrap(c)) % RingLen \in Nat
      <3>1. PICK x \in Int : x = Wrap(a) - Wrap(c)
        <4>1. Wrap(a) \in Int /\ Wrap(c) \in Int
          BY WrapIs
        <4> QED BY <4>1
      <3>2. x % RingLen \in Nat
        BY <1>1
      <3> QED BY <3>1, <3>2
    <2>2. b - a < RingLen
      BY <1>1, <1>5, <2>1
    <2>3. (Wrap(b) - Wrap(a)) % RingLen = b - a
      BY <1>5, <2>2, WrapIs
    <2>4. (b - a) + 1 <= l
      BY <1>5
    <2> QED BY <1>2, <2>3, <2>4
  <1> QED BY <1>3, <1>4, <1>5

LEMMA PlacedBoth ==
  ASSUME NEW r, NEW ds, NEW a \in Nat, NEW c \in Nat, c <= a, a - c < RingLen,
         NEW l \in Nat, l = Len(ds), ((Wrap(a) - Wrap(c)) % RingLen) + Len(ds) < RingLen,
         NEW r2, r2 = Placed(r, Wrap(a), ds)
  PROVE  /\ \A b \in Nat : c <= b /\ b < a => r2[Wrap(b)] = r[Wrap(b)]
         /\ \A b \in Nat : a <= b /\ b - a < l => r2[Wrap(b)] = ds[(b - a) + 1]
  <1>1. ((Wrap(a) - Wrap(c)) % RingLen) + l < RingLen
    OBVIOUS
  <1>2. ASSUME NEW b \in Nat, c <= b, b < a PROVE Placed(r, Wrap(a), ds)[Wrap(b)] = r[Wrap(b)]
    BY <1>1, <1>2, PlacedIs
  <1>3. ASSUME NEW b \in Nat, a <= b, b - a < l PROVE Placed(r, Wrap(a), ds)[Wrap(b)] = ds[(b - a) + 1]
    BY <1>1, <1>3, PlacedIs
  <1> QED BY <1>2, <1>3

LEMMA CountOf ==
  ASSUME NEW g \in Nat, NEW p, GuestPacket(p)
  PROVE  Len(Tx!Descriptors(g, p)) = Count(p)
  BY DescriptorsAre DEF Count

LEMMA WalkQueued ==
  ASSUME NEW n \in Nat, NEW q, NEW st, NEW ex, Hist(q, n, st, ex),
         NEW r, NEW c, NEW f, NEW k, Walk(q, n, st, r, c, f, k),
         NEW p, GuestPacket(p), NEW q2, q2[n + 1] = p, \A g \in 1 .. n : q2[g] = q[g],
         ((Wrap(st[n]) - Wrap(c)) % RingLen) + Len(Tx!Descriptors(n + 1, p)) < RingLen
  PROVE  /\ Walk(q2, n + 1, Extend(st, n, st[n] + Count(p)),
                 Placed(r, Wrap(st[n]), Tx!Descriptors(n + 1, p)), c, f, k)
         /\ Len(Tx!Descriptors(n + 1, p)) = Count(p)
  <1>1. PICK ds : ds = Tx!Descriptors(n + 1, p)
    OBVIOUS
  <1>2. Len(ds) = Count(p) /\ Count(p) \in Nat /\ Count(p) > 0
    <2>1. PICK m \in Nat : m = n + 1
      OBVIOUS
    <2>2. Len(Tx!Descriptors(m, p)) = Count(p)
      BY <2>1, CountOf
    <2>3. Count(p) \in Nat /\ Count(p) > 0
      BY CountIs
    <2> QED BY <1>1, <2>1, <2>2, <2>3
  <1>3. PICK a : a = st[n]
    OBVIOUS
  <1>4. PICK l \in Nat : l = Count(p) /\ l = Len(ds) /\ l > 0
    BY <1>2
  <1>5. PICK s2 : s2 = Extend(st, n, a + l)
    OBVIOUS
  <1>6. PICK r2 : r2 = Placed(r, Wrap(a), ds)
    OBVIOUS
  <1>7. /\ a \in Nat /\ c \in Nat /\ c <= a /\ a - c < RingLen
        /\ f \in 1 .. n + 1 /\ k \in Nat /\ c = st[f - 1] + k
        /\ f = n + 1 => k = 0
        /\ f # n + 1 => f \in 1 .. n /\ k < Count(q[f])
    <2>1. /\ a \in Nat /\ c \in Nat /\ a - c < RingLen
          /\ f \in 1 .. n + 1 /\ k \in Nat /\ c = st[f - 1] + k
          /\ f = n + 1 => c = a
          /\ f # n + 1 => f \in 1 .. n /\ k < Count(q[f]) /\ c < st[f] /\ st[f] <= a /\ st[f] \in Nat
      BY <1>3, WalkBounds
    <2>2. f = n + 1 => k = 0
      BY DEF Walk
    <2>3. c <= a
      BY <2>1
    <2> QED BY <2>1, <2>2, <2>3
  <1>8. ((Wrap(a) - Wrap(c)) % RingLen) + l < RingLen
    BY <1>1, <1>3, <1>4
  <1>15. /\ \A b \in Nat : c <= b /\ b < a => r2[Wrap(b)] = r[Wrap(b)]
         /\ \A b \in Nat : a <= b /\ b - a < l => r2[Wrap(b)] = ds[(b - a) + 1]
    <2>1. a \in Nat /\ c \in Nat /\ a - c < RingLen /\ c <= a
      BY <1>7
    <2>2. ((Wrap(a) - Wrap(c)) % RingLen) + Len(ds) < RingLen
      BY <1>4, <1>8
    <2>3. r2 = Placed(r, Wrap(a), ds) /\ l = Len(ds) /\ l \in Nat
      BY <1>4, <1>6
    <2>4. \A b \in Nat : c <= b /\ b < a => r2[Wrap(b)] = r[Wrap(b)]
      BY <2>1, <2>2, <2>3, PlacedBoth
    <2>5. \A b \in Nat : a <= b /\ b - a < l => r2[Wrap(b)] = ds[(b - a) + 1]
      BY <2>1, <2>2, <2>3, PlacedBoth
    <2> QED BY <2>4, <2>5
  <1>9. \A g \in 0 .. n + 1 : s2[g] = IF g = n + 1 THEN a + l ELSE st[g]
    BY <1>5 DEF Extend
  <1>10. s2[n + 1] - c < RingLen
    <2>1. s2[n + 1] = a + l
      <3>1. n + 1 \in 0 .. n + 1
        OBVIOUS
      <3> QED BY <1>9, <3>1
    <2>2. a - c + l < RingLen
      BY <1>7, <1>8, <1>4, PlacedIs
    <2> QED BY <1>7, <2>1, <2>2
  <1>11. c = s2[f - 1] + k
    <2>1. f - 1 \in 0 .. n + 1 /\ f - 1 # n + 1
      BY <1>7
    <2>2. s2[f - 1] = st[f - 1]
      BY <1>9, <2>1
    <2> QED BY <1>7, <2>2
  <1>12. f \in 1 .. n + 2 /\ f # n + 2 /\ k < Count(q2[f])
    <2>1. CASE f = n + 1
      <3>1. q2[f] = p /\ k = 0
        BY <1>7, <2>1
      <3> QED BY <1>2, <1>7, <2>1, <3>1
    <2>2. CASE f # n + 1
      <3>1. q2[f] = q[f] /\ k < Count(q[f])
        BY <1>7, <2>2
      <3> QED BY <1>7, <3>1
    <2> QED BY <2>1, <2>2
  <1>13. Described(q2, n + 1, s2, r2, c)
    <2> SUFFICES ASSUME NEW g \in 1 .. n + 1, NEW j \in Nat, j < Count(q2[g]), c <= s2[g - 1] + j
                 PROVE  r2[Wrap(s2[g - 1] + j)] = Tx!Descriptors(g, q2[g])[j + 1]
      BY DEF Described
    <2>1. g - 1 \in 0 .. n /\ g - 1 \in 0 .. n + 1 /\ g - 1 # n + 1
      OBVIOUS
    <2>2. s2[g - 1] = st[g - 1] /\ st[g - 1] \in Nat
      BY <1>9, <2>1, HistIs
    <2>3. PICK b \in Nat : b = st[g - 1] + j /\ c <= b
      BY <2>2
    <2>4. CASE g = n + 1
      <3>0. q2[g] = p /\ g - 1 = n
        BY <2>4
      <3>1. b = a + j /\ j < l /\ q2[g] = p
        BY <1>3, <1>4, <2>3, <3>0
      <3>2. a <= b /\ b - a < l /\ (b - a) + 1 = j + 1
        BY <1>7, <3>1
      <3>4. r2[Wrap(b)] = ds[j + 1]
        BY <1>15, <3>2
      <3>5. ds = Tx!Descriptors(g, q2[g])
        BY <1>1, <2>4, <3>1
      <3> QED BY <2>2, <2>3, <3>4, <3>5
    <2>5. CASE g # n + 1
      <3>1. g \in 1 .. n /\ q2[g] = q[g] /\ j < Count(q[g])
        BY <2>5
      <3>2. r[Wrap(b)] = Tx!Descriptors(g, q[g])[j + 1]
        <4>1. Described(q, n, st, r, c)
          BY DEF Walk
        <4> QED BY <2>3, <3>1, <4>1 DEF Described
      <3>3. b < a
        <4>1. g \in 0 .. n /\ n \in g .. n
          BY <3>1
        <4>2. st[g] = st[g - 1] + Count(q[g]) /\ Count(q[g]) \in Nat /\ st[g] <= st[n] /\ st[g] \in Nat
          BY <3>1, <4>1, HistIs
        <4>3. st[g - 1] + j < st[g]
          BY <2>2, <3>1, <4>2
        <4>4. b < st[g] /\ st[g] <= a
          BY <1>3, <2>3, <4>2, <4>3
        <4> QED BY <1>7, <4>2, <4>4
      <3>5. r2[Wrap(b)] = r[Wrap(b)]
        BY <1>15, <2>3, <3>3
      <3> QED BY <2>2, <2>3, <3>1, <3>2, <3>5
    <2> QED BY <2>4, <2>5
  <1>14. Walk(q2, n + 1, s2, r2, c, f, k)
    <2>1. (n + 1) + 1 = n + 2
      OBVIOUS
    <2> QED BY <1>7, <1>10, <1>11, <1>12, <1>13, <2>1 DEF Walk
  <1> QED BY <1>1, <1>2, <1>3, <1>4, <1>5, <1>6, <1>14

-----------------------------------------------------------------------------
(***************************************************************************)
(* Inside packet g: s frames of it have been sent, m cells copied; k       *)
(* descriptors have been processed, and w is left of the next one.         *)
(***************************************************************************)
End(p, d) == Tx!Upto(p.cuts)[d]

DataDesc(g, p, d) ==
    [type |-> IF p.kind = "legacy" THEN "legacy" ELSE "data",
     cells |-> SubSeq(Tx!Cells(g, p), End(p, d) + 1, End(p, d + 1)),
     tse |-> p.kind = "tse", sum |-> p.sum, eop |-> d + 1 = Len(p.cuts)]

Going(g, p, s, m, b, cs) ==
    /\ s < Frames(p) /\ Offset(p, s) <= m /\ (s = 0 \/ Offset(p, s) < m)
    /\ p.kind = "tse" => m <= Offset(p, s) + p.mss
    /\ p.kind # "legacy" /\ m > 0 => cs = p.sum
    /\ InBuf(b, g, p, s, m)

(* What the context descriptor and the frames sent so far have left *)
SegmentsSet(p, s, ms, pl, tf, sv) ==
    p.kind = "tse" =>
        /\ ms = p.mss /\ pl = p.pay - Offset(p, s) /\ tf = (s = 0)
        /\ s > 0 => sv = [len |-> p.pay, sum |-> "seed", fin |-> TRUE]

Gathered(g, p, k, s, m, b, cs, ms, pl, tf, sv) ==
    /\ Going(g, p, s, m, b, cs)
    /\ k < Contexts(p) => m = 0 /\ s = 0
    /\ k >= Contexts(p) => m = End(p, k - Contexts(p)) /\ SegmentsSet(p, s, ms, pl, tf, sv)

Copying(g, p, k, s, m, b, w, cs, ms, pl, tf, sv) ==
    /\ Going(g, p, s, m, b, cs)
    /\ p.kind # "legacy" /\ cs = p.sum
    /\ k >= Contexts(p) /\ SegmentsSet(p, s, ms, pl, tf, sv)
    /\ End(p, k - Contexts(p)) <= m /\ m < End(p, k - Contexts(p) + 1)
    /\ Uncopied(w, g, p, m, End(p, k - Contexts(p) + 1))

(* What has been sent, when e0 has been for the packets before *)
Sent(e0, g, p, s) == e0 \o SubSeq(Tx!Expected(g, p), 1, s)

LEMMA TwoMore ==
  ASSUME NEW n \in Nat, NEW d \in Nat, d + 1 \in 1 .. n, d + 1 # n
  PROVE  d + 2 \in 1 .. n /\ (d + 2) - 1 = d + 1
  OBVIOUS

LEMMA EndIs ==
  ASSUME NEW p, GuestPacket(p), NEW d \in Nat, d < Len(p.cuts)
  PROVE  /\ End(p, 0) = 0
         /\ End(p, d) \in Nat /\ End(p, d + 1) \in Nat /\ End(p, d) < End(p, d + 1)
         /\ End(p, d + 1) <= p.pay + 1 /\ End(p, d) <= p.pay
         /\ End(p, d + 1) = End(p, d) + p.cuts[d + 1]
         /\ d + 1 = Len(p.cuts) => End(p, d + 1) = p.pay + 1
         /\ d + 1 # Len(p.cuts) => End(p, d + 1) <= p.pay
  <1>1. PICK e, n : e = Tx!Upto(p.cuts) /\ n = Len(p.cuts)
    OBVIOUS
  <1>2. /\ e[0] = 0 /\ e[n] = p.pay + 1 /\ n \in Nat /\ n > 0
        /\ \A k \in 0 .. n : e[k] \in Nat /\ e[k] <= p.pay + 1
        /\ \A k \in 1 .. n : e[k] = e[k - 1] + p.cuts[k] /\ e[k - 1] < e[k] /\ e[k - 1] <= p.pay
    BY <1>1, UptoIs
  <1>3. d \in 0 .. n /\ d + 1 \in 0 .. n /\ d + 1 \in 1 .. n /\ (d + 1) - 1 = d
    BY <1>1, <1>2
  <1>4. /\ e[d] \in Nat /\ e[d + 1] \in Nat /\ e[d + 1] <= p.pay + 1
        /\ e[d + 1] = e[d] + p.cuts[d + 1] /\ e[d] < e[d + 1] /\ e[d] <= p.pay
    <2>1. e[d] \in Nat /\ e[d + 1] \in Nat /\ e[d + 1] <= p.pay + 1
      BY <1>2, <1>3
    <2>2. e[d + 1] = e[(d + 1) - 1] + p.cuts[d + 1] /\ e[(d + 1) - 1] < e[d + 1] /\ e[(d + 1) - 1] <= p.pay
      BY <1>2, <1>3
    <2> QED BY <1>3, <2>1, <2>2
  <1>5. ASSUME d + 1 # n PROVE e[d + 1] <= p.pay
    <2>1. d + 2 \in 1 .. n /\ (d + 2) - 1 = d + 1
      BY <1>2, <1>3, <1>5, TwoMore
    <2> QED BY <1>2, <2>1
  <1> QED BY <1>1, <1>2, <1>4, <1>5 DEF End

LEMMA DescIs ==
  ASSUME NEW g \in Nat, NEW p, GuestPacket(p), NEW k \in Nat, k < Count(p)
  PROVE  \/ /\ p.kind = "tse" /\ k = 0 /\ k < Contexts(p)
            /\ Tx!Descriptors(g, p)[k + 1] = [type |-> "context", mss |-> p.mss, paylen |-> p.pay]
         \/ \E d \in Nat : /\ k = Contexts(p) + d /\ d < Len(p.cuts)
                           /\ Tx!Descriptors(g, p)[k + 1] = DataDesc(g, p, d)
  <1>1. PICK x : x = Tx!Descriptors(g, p)
    OBVIOUS
  <1>2. /\ p.kind = "tse" => x[1] = [type |-> "context", mss |-> p.mss, paylen |-> p.pay]
        /\ \A j \in 1 .. Len(p.cuts) :
              x[Contexts(p) + j] =
                 [type |-> IF p.kind = "legacy" THEN "legacy" ELSE "data",
                  cells |-> SubSeq(Tx!Cells(g, p), Tx!Upto(p.cuts)[j - 1] + 1, Tx!Upto(p.cuts)[j]),
                  tse |-> p.kind = "tse", sum |-> p.sum, eop |-> j = Len(p.cuts)]
    BY <1>1, DescriptorsAre
  <1>3. Contexts(p) \in Nat /\ Len(p.cuts) \in Nat /\ k < Contexts(p) + Len(p.cuts)
    BY CountIs DEF Count, GuestPacket
  <1>4. CASE k < Contexts(p)
    <2>1. p.kind = "tse" /\ k = 0
      BY <1>3, <1>4 DEF Contexts
    <2> QED BY <1>1, <1>2, <1>4, <2>1
  <1>5. CASE k >= Contexts(p)
    <2>1. PICK d \in Nat : k = Contexts(p) + d /\ d < Len(p.cuts)
      <3>1. k - Contexts(p) \in Nat /\ k = Contexts(p) + (k - Contexts(p)) /\ k - Contexts(p) < Len(p.cuts)
        BY <1>3, <1>5
      <3> QED BY <3>1
    <2>2. d + 1 \in 1 .. Len(p.cuts) /\ (d + 1) - 1 = d /\ Contexts(p) + (d + 1) = k + 1
      BY <1>3, <2>1
    <2>3. x[k + 1] = DataDesc(g, p, d)
      BY <1>2, <2>2 DEF DataDesc, End
    <2> QED BY <1>1, <2>1, <2>3
  <1> QED BY <1>3, <1>4, <1>5

(* Between packets: the next one has not begun. *)
LEMMA Fresh ==
  ASSUME NEW g \in Nat, NEW p, GuestPacket(p), NEW cs, NEW ms, NEW pl, NEW tf, NEW sv,
         NEW e0 \in Seq(Seq(TxCell))
  PROVE  Gathered(g, p, 0, 0, 0, <<>>, cs, ms, pl, tf, sv) /\ Sent(e0, g, p, 0) = e0
  <1>1. PICK z \in Nat : z = 0
    OBVIOUS
  <1>2. z < Frames(p)
    BY <1>1, FramesAre
  <1>3. Offset(p, z) = 0
    BY <1>1 DEF Offset, GuestPacket
  <1>4. InBuf(<<>>, g, p, z, z)
    <2>1. <<>> \in Seq(TxCell) /\ Len(<<>>) = 0 /\ z - 0 = 0
      BY <1>1
    <2> QED BY <1>3, <2>1 DEF InBuf
  <1>5. p.mss \in Nat
    BY DEF GuestPacket
  <1>6. Going(g, p, z, z, <<>>, cs)
    BY <1>1, <1>2, <1>3, <1>4, <1>5 DEF Going
  <1>7. Contexts(p) \in Nat
    BY CountIs
  <1>8. ASSUME z >= Contexts(p) PROVE z = End(p, z - Contexts(p)) /\ SegmentsSet(p, z, ms, pl, tf, sv)
    <2>1. Contexts(p) = 0 /\ p.kind # "tse"
      BY <1>1, <1>7, <1>8 DEF Contexts
    <2>2. z < Len(p.cuts)
      BY <1>1 DEF GuestPacket
    <2>3. End(p, 0) = 0
      BY <2>2, EndIs
    <2>4. z - Contexts(p) = 0
      BY <1>1, <2>1
    <2> QED BY <1>1, <2>1, <2>3, <2>4 DEF SegmentsSet
  <1>9. Gathered(g, p, z, z, z, <<>>, cs, ms, pl, tf, sv)
    BY <1>1, <1>6, <1>8 DEF Gathered
  <1>10. Sent(e0, g, p, 0) = e0
    <2>1. PICK q : q = Tx!Expected(g, p) /\ q \in Seq(Seq(TxCell))
      BY ExpectedIs
    <2>2. SubSeq(q, 1, 0) = <<>>
      BY <2>1
    <2>3. e0 \o <<>> = e0
      OBVIOUS
    <2> QED BY <2>1, <2>2, <2>3 DEF Sent
  <1> QED BY <1>1, <1>9, <1>10

LEMMA OneElementMore ==
  ASSUME NEW S, NEW u \in Seq(S), NEW q \in Seq(S), NEW s \in Nat, s < Len(q)
  PROVE  /\ Append(u \o SubSeq(q, 1, s), q[s + 1]) = u \o SubSeq(q, 1, s + 1)
         /\ u \o SubSeq(q, 1, Len(q)) = u \o q
  <1>1. SubSeq(q, 1, Len(q)) = q
    BY SubSeqFull
  <1>2. PICK v : v = SubSeq(q, 1, s) /\ v \in Seq(S)
    <2>1. \A k \in 1 .. s : q[k] \in S
      BY ElementOfSeq
    <2>2. 1 \in Int /\ s \in Int
      OBVIOUS
    <2> QED BY <2>1, <2>2, SubSeqProperties
  <1>3. PICK c \in S : c = q[s + 1]
    OBVIOUS
  <1>4. SubSeq(q, 1, s + 1) = v \o <<c>>
    <2>1. 1 \in 1 .. Len(q) /\ s + 1 \in 1 .. Len(q) /\ s + 1 \in 1 .. s + 1 /\ (s + 1) - 1 = s
      OBVIOUS
    <2>2. s + 1 \in 1 .. Len(q)
      BY <2>1
    <2>3. SubSeq(q, 1, s + 1) = SubSeq(q, 1, (s + 1) - 1) \o <<q[s + 1]>>
      BY <2>1, SubSeqRecursiveSecond
    <2> QED BY <1>2, <1>3, <2>1, <2>3
  <1>5. u \o v \in Seq(S) /\ <<c>> \in Seq(S)
    BY <1>2, ConcatProperties
  <1>6. Append(u \o v, c) = (u \o v) \o <<c>>
    BY <1>5, AppendIsConcat
  <1>7. (u \o v) \o <<c>> = u \o (v \o <<c>>)
    <2>1. PICK t1 : t1 = <<c>> /\ t1 \in Seq(S)
      BY <1>5
    <2>2. v \in Seq(S) /\ t1 \in Seq(S)
      BY <1>2, <2>1
    <2>3. (u \o v) \o t1 = u \o (v \o t1)
      BY <2>2, ConcatAssociative
    <2> QED BY <2>1, <2>3
  <1> QED BY <1>1, <1>2, <1>3, <1>4, <1>6, <1>7

LEMMA SentOne ==
  ASSUME NEW g \in Nat, NEW p, GuestPacket(p), NEW e0 \in Seq(Seq(TxCell)),
         NEW s \in Nat, s < Frames(p)
  PROVE  /\ Append(Sent(e0, g, p, s), Part(g, p, s)) = Sent(e0, g, p, s + 1)
         /\ s + 1 = Frames(p) => Sent(e0, g, p, s + 1) = e0 \o Tx!Expected(g, p)
  <1>1. PICK q : q = Tx!Expected(g, p)
    OBVIOUS
  <1>2. /\ q \in Seq(Seq(TxCell)) /\ Len(q) = Frames(p) /\ Frames(p) \in Nat
        /\ \A x \in 0 .. Frames(p) - 1 : q[x + 1] = Part(g, p, x)
    BY <1>1, ExpectedIs, FramesAre
  <1>3. q[s + 1] = Part(g, p, s) /\ s < Len(q)
    BY <1>2
  <1>4. /\ Append(e0 \o SubSeq(q, 1, s), q[s + 1]) = e0 \o SubSeq(q, 1, s + 1)
        /\ e0 \o SubSeq(q, 1, Len(q)) = e0 \o q
    BY <1>2, <1>3, OneElementMore
  <1> QED BY <1>1, <1>2, <1>3, <1>4 DEF Sent

-----------------------------------------------------------------------------
(* One more descriptor, or a part of it, in the buffer *)
LEMMA InBufLength ==
  ASSUME NEW g \in Nat, NEW p, GuestPacket(p), NEW s \in Nat, NEW m \in Nat, NEW b, NEW cs,
         Going(g, p, s, m, b, cs)
  PROVE  /\ Offset(p, s) \in Nat /\ Share(p, s) \in Nat /\ b \in Seq(TxCell)
         /\ Len(b) = m - Offset(p, s) /\ Len(b) \in Nat
         /\ b = <<>> <=> m = 0
         /\ p.kind = "tse" => /\ p.mss \in Nat /\ p.mss < BUFSIZE /\ Len(b) <= p.mss
                              /\ Share(p, s) <= p.mss
         /\ p.kind # "tse" => s = 0 /\ Offset(p, s) = 0 /\ p.pay < BUFSIZE
  <1>1. PICK o \in Nat, a \in Nat : o = Offset(p, s) /\ a = Share(p, s) /\ o + a <= p.pay
    BY PartIs DEF Going
  <1>2. s < Frames(p) /\ o <= m /\ (s = 0 \/ o < m) /\ (p.kind = "tse" => m <= o + p.mss)
    BY <1>1 DEF Going
  <1>3. b \in Seq(TxCell) /\ Len(b) = m - o
    BY <1>1 DEF Going, InBuf
  <1>4. s = 0 => o = 0
    <2>1. p.mss \in Nat
      BY DEF GuestPacket
    <2> QED BY <1>1, <2>1 DEF Offset
  <1>5. Len(b) = 0 <=> m = 0
    BY <1>2, <1>3, <1>4
  <1>6. b = <<>> <=> Len(b) = 0
    BY <1>3
  <1>7. ASSUME p.kind = "tse"
        PROVE p.mss \in Nat /\ p.mss < BUFSIZE /\ Len(b) <= p.mss /\ a <= p.mss
    <2>1. PICK w \in Nat : w = p.mss /\ w < BUFSIZE
      BY <1>7 DEF GuestPacket
    <2>2. p.pay \in Nat
      BY DEF GuestPacket
    <2>3. /\ LastOne(p, s) => a = p.pay - o
          /\ LastOne(p, s) <=> p.pay <= o + w
          /\ ~LastOne(p, s) => a = w
      BY <1>1, <1>2, <1>7, <2>1, PartIs
    <2>4. Len(b) <= w
      BY <1>2, <1>3, <1>7, <2>1
    <2>5. a <= w
      BY <1>1, <2>2, <2>3
    <2> QED BY <2>1, <2>4, <2>5
  <1>8. ASSUME p.kind # "tse" PROVE s = 0 /\ o = 0 /\ p.pay < BUFSIZE
    <2>1. p.pay < BUFSIZE
      BY <1>8 DEF GuestPacket
    <2> QED BY <1>1, <1>2, <1>8, <2>1, PartIs
  <1> QED BY <1>1, <1>2, <1>3, <1>5, <1>6, <1>7, <1>8

(* How much tdesc_copytobuf() copies *)
Fits(b, w) == IF BUFSIZE - Len(b) < Len(w) THEN BUFSIZE - Len(b) ELSE Len(w)

More(b, w) == b \o SubSeq(w, 1, Fits(b, w))
Left(w, n) == SubSeq(w, n + 1, Len(w))

LEMMA Fitting ==
  ASSUME NEW a \in Nat, NEW l \in Nat, l <= a, NEW z \in Nat
  PROVE  \E x \in Nat : /\ x = (IF a - l < z THEN a - l ELSE z)
                       /\ x <= z /\ l + x <= a /\ (x = z \/ l + x = a)
  OBVIOUS

LEMMA CopyRound ==
  ASSUME NEW g \in Nat, NEW p, GuestPacket(p), NEW s \in Nat, NEW m \in Nat, NEW b, NEW cs,
         Going(g, p, s, m, b, cs), NEW z \in Nat, m <= z, z <= p.pay + 1,
         NEW w, Uncopied(w, g, p, m, z)
  PROVE  \E m2 \in Nat :
           /\ m <= m2 /\ m2 <= z /\ Len(More(b, w)) = m2 - Offset(p, s)
           /\ InBuf(More(b, w), g, p, s, m2)
           /\ Uncopied(Left(w, Fits(b, w)), g, p, m2, z)
           /\ Len(More(b, w)) <= BUFSIZE
           /\ m2 = z \/ (p.kind = "tse" /\ Len(More(b, w)) = BUFSIZE)
           /\ Left(w, Fits(b, w)) = <<>> <=> m2 = z
  <1>1. PICK o \in Nat : o = Offset(p, s) /\ o <= m /\ (s = 0 \/ o < m)
    BY InBufLength DEF Going
  <1>2. PICK l \in Nat : l = Len(b) /\ l = m - o /\ l <= BUFSIZE
                         /\ (p.kind # "tse" => o = 0 /\ p.pay < BUFSIZE)
    <2>1. Len(b) \in Nat /\ Len(b) = m - o /\ BUFSIZE \in Nat
      BY <1>1, InBufLength, TxRingSize
    <2>2. p.kind = "tse" => Len(b) <= BUFSIZE
      BY <2>1, InBufLength
    <2>3. p.kind # "tse" => o = 0 /\ p.pay < BUFSIZE
      BY <1>1, InBufLength
    <2>4. p.pay \in Nat
      BY DEF GuestPacket
    <2>5. p.kind # "tse" => Len(b) <= BUFSIZE
      BY <2>1, <2>3, <2>4
    <2> QED BY <2>1, <2>2, <2>3, <2>5
  <1>3. w \in Seq(TxCell) /\ Len(w) = z - m
    BY UncopiedIs
  <1>4. PICK x \in Nat : x = Fits(b, w) /\ x <= z - m /\ l + x <= BUFSIZE
                         /\ (x = z - m \/ l + x = BUFSIZE)
    <2>1. BUFSIZE - l \in Nat /\ z - m \in Nat
      BY <1>2, TxRingSize
    <2>2. Fits(b, w) = IF BUFSIZE - l < z - m THEN BUFSIZE - l ELSE z - m
      BY <1>2, <1>3 DEF Fits
    <2>3. \E x \in Nat : /\ x = (IF BUFSIZE - l < z - m THEN BUFSIZE - l ELSE z - m)
                        /\ x <= z - m /\ l + x <= BUFSIZE /\ (x = z - m \/ l + x = BUFSIZE)
      BY <2>1, <1>2, TxRingSize, Fitting
    <2> QED BY <2>2, <2>3
  <1>5. PICK m2 \in Nat : m2 = m + x
    OBVIOUS
  <1>6. m <= m2 /\ m2 <= z
    BY <1>4, <1>5
  <1>7. /\ InBuf(b \o SubSeq(w, 1, x), g, p, s, m2)
        /\ Uncopied(SubSeq(w, x + 1, Len(w)), g, p, m2, z)
    <2>1. InBuf(b, g, p, s, m)
      BY DEF Going
    <2>2. m2 = m + x /\ m2 <= z
      BY <1>5, <1>6
    <2>3. InBuf(b \o SubSeq(w, 1, x), g, p, s, m2)
      BY <1>1, <2>1, <2>2, CopyMore
    <2>4. Uncopied(SubSeq(w, x + 1, Len(w)), g, p, m2, z)
      BY <1>1, <2>1, <2>2, CopyMore
    <2> QED BY <2>3, <2>4
  <1>8. Len(More(b, w)) = l + x /\ InBuf(More(b, w), g, p, s, m2) /\ Uncopied(Left(w, x), g, p, m2, z)
    <2>1. InBuf(More(b, w), g, p, s, m2) /\ Uncopied(Left(w, x), g, p, m2, z)
      BY <1>4, <1>7 DEF More, Left
    <2>2. Len(More(b, w)) = m2 - o
      BY <1>1, <2>1 DEF InBuf
    <2> QED BY <1>2, <1>5, <2>1, <2>2
  <1>9. Left(w, x) = <<>> <=> m2 = z
    <2>1. PICK w2 : w2 = Left(w, x)
      OBVIOUS
    <2>2. w2 \in Seq(TxCell) /\ Len(w2) = z - m2
      BY <1>6, <1>8, <2>1, UncopiedIs
    <2>3. w2 = <<>> <=> Len(w2) = 0
      BY <2>2
    <2>4. z - m2 = 0 <=> m2 = z
      OBVIOUS
    <2> QED BY <2>1, <2>2, <2>3, <2>4
  <1>10. l + x = m2 - o
    BY <1>2, <1>5
  <1>11. m2 = z \/ (p.kind = "tse" /\ l + x = BUFSIZE)
    <2>1. CASE x = z - m
      BY <1>5, <2>1
    <2>2. CASE l + x = BUFSIZE
      <3>1. CASE p.kind # "tse"
        <4>1. p.pay \in Nat /\ BUFSIZE \in Nat
          BY TxRingSize DEF GuestPacket
        <4>2. m2 = BUFSIZE /\ z <= BUFSIZE
          BY <1>2, <1>10, <2>2, <3>1, <4>1
        <4> QED BY <1>6, <4>1, <4>2
      <3> QED BY <2>2, <3>1
    <2> QED BY <1>4, <2>1, <2>2
  <1> QED BY <1>1, <1>4, <1>6, <1>8, <1>9, <1>10, <1>11

-----------------------------------------------------------------------------
(* When the driver sends a segment: the last descriptor brings cells of    *)
(* the last segment only, and two segments do not fit into the buffer.     *)
LEMMA LastWhen ==
  ASSUME NEW p, GuestPacket(p), p.kind = "tse", NEW s \in Nat, s < Frames(p),
         NEW d \in Nat, d < Len(p.cuts), d + 1 = Len(p.cuts),
         End(p, d) <= Offset(p, s) + p.mss
  PROVE  LastOne(p, s)
  <1>1. PICK w \in Nat, y \in Nat : w = p.mss /\ y = p.pay
    BY DEF GuestPacket
  <1>2. PICK f \in Nat : f = Tx!Segments(p) /\ s < f
    BY SegmentsAre DEF Frames
  <1>3. PICK o \in Nat : o = Offset(p, s) /\ o = s * w
    BY <1>1, PartIs
  <1>4. PICK a : a = p.cuts[Len(p.cuts)] /\ a \in Nat /\ a <= y - (f - 1) * w
    <2>1. p.cuts \in Seq(Nat) /\ Len(p.cuts) \in 1 .. Len(p.cuts)
      BY DEF GuestPacket
    <2>2. p.cuts[Len(p.cuts)] \in Nat
      BY <2>1, ElementOf
    <2> QED BY <1>1, <1>2, <2>2 DEF GuestPacket
  <1>5. PICK x \in Nat : x = End(p, d) /\ y + 1 = x + a
    <2>1. End(p, d) \in Nat /\ End(p, d + 1) = End(p, d) + p.cuts[d + 1] /\ End(p, d + 1) = p.pay + 1
      BY EndIs
    <2> QED BY <1>1, <1>4, <2>1
  <1>6. ASSUME s + 1 # f PROVE FALSE
    <2>1. s + 1 \in Nat /\ f - 1 \in Nat /\ s + 1 <= f - 1
      BY <1>2, <1>6
    <2>2. (s + 1) * w <= (f - 1) * w /\ (s + 1) * w \in Nat /\ (f - 1) * w \in Nat
      BY <2>1, TxMonotone
    <2>3. (s + 1) * w = s * w + w /\ s * w \in Nat
      BY TxMonotone
    <2>4. x <= s * w + w
      BY <1>1, <1>3, <1>5
    <2>5. PICK u \in Nat, v \in Nat : u = (f - 1) * w /\ v = (s + 1) * w /\ v <= u
      BY <2>2
    <2>6. x <= v /\ a <= y - u /\ v <= u
      <3>1. v = s * w + w /\ u = (f - 1) * w
        BY <2>3, <2>5
      <3>2. x <= v
        BY <2>4, <3>1
      <3> QED BY <1>4, <2>5, <3>1, <3>2
    <2>7. a \in Nat
      BY <1>4
    <2> QED BY <1>5, <2>6, <2>7
  <1> QED BY <1>2, <1>6 DEF LastOne

Verdict(w, y, o, a, z, m2, lb) ==
    /\ z = y + 1 /\ a = y - o => 1 + a <= lb /\ m2 = y + 1
    /\ z <= y /\ a = y - o => ~(1 + a <= lb)
    /\ ~(1 + a <= lb) => m2 = z /\ m2 <= o + w
    /\ 1 + a <= lb /\ a = w => o + w < m2 /\ m2 <= (o + w) + w

LEMMA FullNumbers ==
  ASSUME NEW w \in Nat, NEW y \in Nat, NEW o \in Nat, NEW a \in Nat, NEW z \in Nat, NEW m2 \in Nat,
         NEW lb \in Nat, NEW c \in Nat, w < c, c <= 2 * w, a <= w,
         m2 <= z, z <= y + 1, lb = m2 - o, lb <= c, m2 = z \/ lb = c
  PROVE  Verdict(w, y, o, a, z, m2, lb)
  BY DEF Verdict

Rounded(p, s, d, m, m2, lb) ==
    /\ End(p, d) <= m /\ m2 <= End(p, d + 1)
    /\ lb = m2 - Offset(p, s) /\ lb <= BUFSIZE
    /\ m2 = End(p, d + 1) \/ lb = BUFSIZE

LEMMA FullWhen ==
  ASSUME NEW g \in Nat, NEW p, GuestPacket(p), p.kind = "tse", NEW s \in Nat, NEW m \in Nat,
         NEW b, NEW cs, Going(g, p, s, m, b, cs),
         NEW d \in Nat, d < Len(p.cuts), NEW m2 \in Nat, NEW lb \in Nat,
         Rounded(p, s, d, m, m2, lb)
  PROVE  /\ d + 1 = Len(p.cuts) => LastOne(p, s) /\ 1 + Share(p, s) <= lb /\ m2 = p.pay + 1
         /\ d + 1 # Len(p.cuts) /\ 1 + Share(p, s) <= lb => ~LastOne(p, s)
         /\ ~(1 + Share(p, s) <= lb) => m2 = End(p, d + 1) /\ m2 <= Offset(p, s) + p.mss
         /\ 1 + Share(p, s) <= lb /\ ~LastOne(p, s) =>
              /\ s + 1 < Frames(p) /\ Offset(p, s + 1) = Offset(p, s) + p.mss
              /\ Offset(p, s + 1) < m2 /\ m2 <= Offset(p, s + 1) + p.mss
  <1>1. PICK w \in Nat, y \in Nat : w = p.mss /\ y = p.pay /\ BUFSIZE <= 2 * w /\ w < BUFSIZE
    <2>1. 2 * p.mss >= BUFSIZE /\ p.mss < BUFSIZE /\ p.mss \in Nat /\ p.pay \in Nat
      BY DEF GuestPacket
    <2> QED BY <2>1, TxRingSize
  <1>2. PICK z \in Nat, x \in Nat : z = End(p, d + 1) /\ x = End(p, d) /\ z <= y + 1
                     /\ (d + 1 = Len(p.cuts) => z = y + 1) /\ (d + 1 # Len(p.cuts) => z <= y)
    BY <1>1, EndIs
  <1>3. PICK o \in Nat, a \in Nat : o = Offset(p, s) /\ a = Share(p, s) /\ a <= w
    BY <1>1, InBufLength
  <1>4. /\ s < Frames(p) /\ m <= o + w
        /\ LastOne(p, s) => a = y - o
        /\ ~LastOne(p, s) => a = w /\ Offset(p, s + 1) = o + w
        /\ LastOne(p, s) <=> s + 1 = Frames(p)
        /\ Frames(p) \in Nat
    <2>1. s < Frames(p) /\ m <= o + w
      BY <1>1, <1>3 DEF Going
    <2> QED BY <1>1, <1>3, <2>1, PartIs
  <1>5. d + 1 = Len(p.cuts) => LastOne(p, s)
    <2>1. x <= m
      BY <1>2 DEF Rounded
    <2>2. x <= o + w
      BY <1>4, <2>1
    <2>3. End(p, d) <= Offset(p, s) + p.mss
      BY <1>1, <1>2, <1>3, <2>2
    <2> QED BY <1>4, <2>3, LastWhen
  <1>6. /\ z = y + 1 /\ a = y - o => 1 + a <= lb /\ m2 = y + 1
        /\ z <= y /\ a = y - o => ~(1 + a <= lb)
        /\ ~(1 + a <= lb) => m2 = z /\ m2 <= o + w
        /\ 1 + a <= lb /\ a = w => o + w < m2 /\ m2 <= (o + w) + w
    <2>1. m2 <= z /\ lb = m2 - o /\ lb <= BUFSIZE /\ (m2 = z \/ lb = BUFSIZE)
      BY <1>2, <1>3 DEF Rounded
    <2>2. z <= y + 1
      BY <1>2
    <2>3. Verdict(w, y, o, a, z, m2, lb)
      BY <1>1, <1>3, <2>1, <2>2, TxRingSize, FullNumbers
    <2> QED BY <2>3 DEF Verdict
  <1>7. d + 1 = Len(p.cuts) => LastOne(p, s) /\ 1 + a <= lb /\ m2 = y + 1
    BY <1>2, <1>4, <1>5, <1>6
  <1>8. d + 1 # Len(p.cuts) /\ 1 + a <= lb => ~LastOne(p, s)
    BY <1>2, <1>4, <1>6
  <1>9. 1 + a <= lb /\ ~LastOne(p, s) =>
           /\ s + 1 < Frames(p) /\ Offset(p, s + 1) = o + w
           /\ o + w < m2 /\ m2 <= (o + w) + w
    BY <1>4, <1>6
  <1> QED BY <1>1, <1>2, <1>3, <1>6, <1>7, <1>8, <1>9

-----------------------------------------------------------------------------
(* A context descriptor; a legacy descriptor; the beginning of another one *)
LEMMA ContextRead ==
  ASSUME NEW g \in Nat, NEW p, GuestPacket(p), p.kind = "tse", NEW k, k = 0, NEW s, NEW m,
         NEW b, NEW cs, NEW ms, NEW pl, NEW tf, NEW sv, NEW tr, tr = TRUE,
         Gathered(g, p, k, s, m, b, cs, ms, pl, tf, sv)
  PROVE  /\ s = 0 /\ m = 0
         /\ Gathered(g, p, k + 1, 0, 0, b, cs, p.mss, p.pay, tr, sv)
  <1>1. PICK x : x = Contexts(p) /\ x = 1
    BY DEF Contexts
  <1>2. s = 0 /\ m = 0 /\ Going(g, p, 0, 0, b, cs)
    BY <1>1 DEF Gathered
  <1>3. End(p, 0) = 0
    <2>1. PICK z \in Nat : z = 0 /\ z < Len(p.cuts)
      BY DEF GuestPacket
    <2> QED BY <2>1, EndIs
  <1>4. SegmentsSet(p, 0, p.mss, p.pay, tr, sv)
    <2>1. Offset(p, 0) = 0
      BY DEF Offset, GuestPacket
    <2>2. p.pay - 0 = p.pay
      BY DEF GuestPacket
    <2>3. tr = (0 = 0)
      <3>1. (0 = 0) = TRUE
        OBVIOUS
      <3> QED BY <3>1, Zenon
    <2>4. ~(0 > 0)
      OBVIOUS
    <2> QED BY <2>1, <2>2, <2>3, <2>4, Zenon DEF SegmentsSet
  <1>5. PICK k2 : k2 = k + 1 /\ k2 - Contexts(p) = 0 /\ k2 >= Contexts(p) /\ ~(k2 < Contexts(p))
    BY <1>1
  <1>6. Gathered(g, p, k2, 0, 0, b, cs, p.mss, p.pay, tr, sv)
    BY <1>2, <1>3, <1>4, <1>5, Zenon DEF Gathered
  <1>7. s = 0 /\ m = 0
    BY <1>2
  <1> QED BY <1>5, <1>6, <1>7, Zenon

(* All of a descriptor in the buffer, and no frame complete *)
LEMMA AllCopied ==
  ASSUME NEW g \in Nat, NEW p, GuestPacket(p), NEW s \in Nat, NEW m \in Nat, NEW b, NEW cs,
         Going(g, p, s, m, b, cs), NEW m2 \in Nat, m <= m2, NEW b2, InBuf(b2, g, p, s, m2),
         p.kind = "tse" => m2 <= Offset(p, s) + p.mss,
         p.kind # "legacy" => cs = p.sum
  PROVE  Going(g, p, s, m2, b2, cs)
  <1>1. PICK o \in Nat : o = Offset(p, s) /\ s < Frames(p) /\ o <= m /\ (s = 0 \/ o < m)
    BY InBufLength DEF Going
  <1>2. o <= m2 /\ (s = 0 \/ o < m2)
    BY <1>1
  <1> QED BY <1>1, <1>2 DEF Going

LEMMA NextGathered ==
  ASSUME NEW g \in Nat, NEW p, GuestPacket(p), NEW s, NEW m, NEW b, NEW cs,
         NEW ms, NEW pl, NEW tf, NEW sv, NEW k \in Nat, NEW d \in Nat, k = Contexts(p) + d,
         Going(g, p, s, m, b, cs), m = End(p, d + 1), SegmentsSet(p, s, ms, pl, tf, sv)
  PROVE  Gathered(g, p, k + 1, s, m, b, cs, ms, pl, tf, sv)
  <1>1. Contexts(p) \in Nat
    BY CountIs
  <1>2. PICK k2 : k2 = k + 1 /\ k2 - Contexts(p) = d + 1 /\ ~(k2 < Contexts(p))
    BY <1>1
  <1>3. Gathered(g, p, k2, s, m, b, cs, ms, pl, tf, sv)
    BY <1>2, Zenon DEF Gathered
  <1> QED BY <1>2, <1>3, Zenon

LEMMA GatheredIs ==
  ASSUME NEW g \in Nat, NEW p, GuestPacket(p), NEW s \in Nat, NEW m \in Nat, NEW b, NEW cs,
         NEW ms, NEW pl, NEW tf, NEW sv, NEW k \in Nat, NEW d \in Nat, k = Contexts(p) + d,
         Gathered(g, p, k, s, m, b, cs, ms, pl, tf, sv)
  PROVE  Going(g, p, s, m, b, cs) /\ m = End(p, d) /\ SegmentsSet(p, s, ms, pl, tf, sv)
  <1>1. Contexts(p) \in Nat
    BY CountIs
  <1>2. k - Contexts(p) = d /\ k >= Contexts(p)
    BY <1>1
  <1> QED BY <1>2 DEF Gathered

LEMMA CellsUncopied ==
  ASSUME NEW g \in Nat, NEW p, NEW d \in Nat
  PROVE  Uncopied(DataDesc(g, p, d).cells, g, p, End(p, d), End(p, d + 1))
  BY DEF Uncopied, DataDesc

LEMMA LegacyRead ==
  ASSUME NEW g \in Nat, NEW p, GuestPacket(p), p.kind = "legacy", NEW s \in Nat, NEW m \in Nat,
         NEW b, NEW cs, NEW ms, NEW pl, NEW tf, NEW sv,
         NEW k \in Nat, NEW d \in Nat, k = Contexts(p) + d, d < Len(p.cuts),
         Gathered(g, p, k, s, m, b, cs, ms, pl, tf, sv), NEW w, w = DataDesc(g, p, d).cells
  PROVE  /\ s = 0
         /\ d + 1 = Len(p.cuts) => More(b, w) = Part(g, p, 0)
         /\ d + 1 # Len(p.cuts) => \E m2 \in Nat : Gathered(g, p, k + 1, s, m2, More(b, w), cs, ms, pl, tf, sv)
  <1>1. Going(g, p, s, m, b, cs) /\ m = End(p, d) /\ SegmentsSet(p, s, ms, pl, tf, sv)
    BY GatheredIs
  <1>2. PICK z \in Nat : /\ z = End(p, d + 1) /\ m <= z /\ z <= p.pay + 1
                         /\ d + 1 = Len(p.cuts) => z = p.pay + 1
    <2>1. End(p, d + 1) \in Nat /\ End(p, d) < End(p, d + 1) /\ End(p, d + 1) <= p.pay + 1
          /\ (d + 1 = Len(p.cuts) => End(p, d + 1) = p.pay + 1)
      BY EndIs
    <2>2. m < End(p, d + 1)
      BY <1>1, <2>1
    <2> QED BY <2>1, <2>2
  <1>3. Uncopied(w, g, p, m, z)
    BY <1>1, <1>2, CellsUncopied
  <1>4. PICK m2 \in Nat : m <= m2 /\ InBuf(More(b, w), g, p, s, m2) /\ m2 = z
    BY <1>1, <1>2, <1>3, CopyRound
  <1>5. s = 0
    <2>1. p.kind # "tse"
      OBVIOUS
    <2> QED BY <1>1, <2>1, InBufLength
  <1>6. ASSUME d + 1 = Len(p.cuts) PROVE More(b, w) = Part(g, p, 0)
    <2>1. PICK b2 : b2 = More(b, w)
      OBVIOUS
    <2>2. InBuf(b2, g, p, s, m2) /\ m2 = p.pay + 1
      BY <1>2, <1>4, <1>6, <2>1
    <2>3. p.sum = FALSE /\ p.kind # "tse"
      BY DEF GuestPacket
    <2>4. b2 = Part(g, p, 0)
      BY <1>5, <2>2, <2>3, WholeBuffer
    <2> QED BY <2>1, <2>4
  <1>7. ASSUME d + 1 # Len(p.cuts)
        PROVE  Gathered(g, p, k + 1, s, m2, More(b, w), cs, ms, pl, tf, sv)
    <2>1. PICK b2 : b2 = More(b, w)
      OBVIOUS
    <2>2. Going(g, p, s, m2, b2, cs)
      BY <1>1, <1>4, <2>1, AllCopied
    <2>3. Gathered(g, p, k + 1, s, m2, b2, cs, ms, pl, tf, sv)
      BY <1>1, <1>2, <1>4, <2>2, NextGathered
    <2> QED BY <2>1, <2>3
  <1> QED BY <1>5, <1>6, <1>7

LEMMA DataRead ==
  ASSUME NEW g \in Nat, NEW p, GuestPacket(p), p.kind # "legacy", NEW s \in Nat, NEW m \in Nat,
         NEW b, NEW cs, NEW ms, NEW pl, NEW tf, NEW sv,
         NEW k \in Nat, NEW d \in Nat, k = Contexts(p) + d, d < Len(p.cuts),
         Gathered(g, p, k, s, m, b, cs, ms, pl, tf, sv), NEW w, w = DataDesc(g, p, d).cells
  PROVE  Copying(g, p, k, s, m, b, w, IF b = <<>> THEN p.sum ELSE cs, ms, pl, tf, sv)
  <1>1. Going(g, p, s, m, b, cs) /\ m = End(p, d) /\ SegmentsSet(p, s, ms, pl, tf, sv)
    BY GatheredIs
  <1>2. Uncopied(w, g, p, m, End(p, d + 1))
    BY <1>1, CellsUncopied
  <1>3. m <= m /\ m < End(p, d + 1)
    <2>1. End(p, d) < End(p, d + 1)
      BY EndIs
    <2> QED BY <1>1, <2>1
  <1>4. PICK c : c = IF b = <<>> THEN p.sum ELSE cs
    OBVIOUS
  <1>5. c = p.sum
    <2>1. b = <<>> <=> m = 0
      BY <1>1, InBufLength
    <2>2. m > 0 => cs = p.sum
      BY <1>1 DEF Going
    <2> QED BY <1>4, <2>1, <2>2
  <1>6. Going(g, p, s, m, b, c)
    BY <1>1, <1>5 DEF Going
  <1>7. Contexts(p) \in Nat
    BY CountIs
  <1>8. k - Contexts(p) = d /\ k >= Contexts(p)
    BY <1>7
  <1>9. Copying(g, p, k, s, m, b, w, c, ms, pl, tf, sv)
    BY <1>1, <1>2, <1>3, <1>5, <1>6, <1>8 DEF Copying
  <1> QED BY <1>4, <1>9

-----------------------------------------------------------------------------
(* One round of the loop of process_tdesc() *)
LEMMA CopyingIs ==
  ASSUME NEW g \in Nat, NEW p, GuestPacket(p), NEW s, NEW m, NEW b, NEW w, NEW cs,
         NEW ms, NEW pl, NEW tf, NEW sv, NEW k \in Nat, NEW d \in Nat, k = Contexts(p) + d
  PROVE  Copying(g, p, k, s, m, b, w, cs, ms, pl, tf, sv) <=>
           /\ Going(g, p, s, m, b, cs) /\ p.kind # "legacy" /\ cs = p.sum
           /\ SegmentsSet(p, s, ms, pl, tf, sv)
           /\ End(p, d) <= m /\ m < End(p, d + 1) /\ Uncopied(w, g, p, m, End(p, d + 1))
  <1>1. Contexts(p) \in Nat
    BY CountIs
  <1>2. k - Contexts(p) = d /\ k >= Contexts(p)
    BY <1>1
  <1> QED BY <1>2 DEF Copying

Round(g, p, s, d, m, m2, b2, w2) ==
    /\ m <= m2 /\ m2 <= End(p, d + 1)
    /\ InBuf(b2, g, p, s, m2) /\ Uncopied(w2, g, p, m2, End(p, d + 1))
    /\ w2 = <<>> <=> m2 = End(p, d + 1)
    /\ p.kind = "tse" => Rounded(p, s, d, m, m2, Len(b2))
    /\ p.kind # "tse" => m2 = End(p, d + 1)

LEMMA RoundIs ==
  ASSUME NEW g \in Nat, NEW p, GuestPacket(p), NEW s \in Nat, NEW m \in Nat, NEW b, NEW w, NEW cs,
         NEW ms, NEW pl, NEW tf, NEW sv, NEW k \in Nat, NEW d \in Nat, k = Contexts(p) + d,
         d < Len(p.cuts), Copying(g, p, k, s, m, b, w, cs, ms, pl, tf, sv)
  PROVE  \E m2 \in Nat : Round(g, p, s, d, m, m2, More(b, w), Left(w, Fits(b, w)))
  <1>1. /\ Going(g, p, s, m, b, cs)
        /\ End(p, d) <= m /\ m < End(p, d + 1) /\ Uncopied(w, g, p, m, End(p, d + 1))
    BY CopyingIs
  <1>2. PICK z \in Nat : z = End(p, d + 1) /\ m <= z /\ z <= p.pay + 1
    <2>1. End(p, d + 1) \in Nat /\ End(p, d + 1) <= p.pay + 1
      BY EndIs
    <2> QED BY <1>1, <2>1
  <1>3. Uncopied(w, g, p, m, z)
    BY <1>1, <1>2
  <1>4. PICK b2, w2 : b2 = More(b, w) /\ w2 = Left(w, Fits(b, w))
    OBVIOUS
  <1>5. PICK m2 \in Nat :
           /\ m <= m2 /\ m2 <= z /\ Len(b2) = m2 - Offset(p, s)
           /\ InBuf(b2, g, p, s, m2) /\ Uncopied(w2, g, p, m2, z)
           /\ Len(b2) <= BUFSIZE
           /\ m2 = z \/ (p.kind = "tse" /\ Len(b2) = BUFSIZE)
           /\ w2 = <<>> <=> m2 = z
    BY <1>1, <1>2, <1>3, <1>4, CopyRound
  <1>6. p.kind = "tse" => Rounded(p, s, d, m, m2, Len(b2))
    BY <1>1, <1>2, <1>5 DEF Rounded
  <1>7. Round(g, p, s, d, m, m2, b2, w2)
    BY <1>2, <1>5, <1>6 DEF Round
  <1> QED BY <1>4, <1>7

LEMMA RoundLength ==
  ASSUME NEW g \in Nat, NEW p, GuestPacket(p), NEW s \in Nat, NEW m \in Nat, NEW b, NEW cs,
         Going(g, p, s, m, b, cs), NEW d \in Nat, NEW m2 \in Nat, NEW b2, NEW w2,
         Round(g, p, s, d, m, m2, b2, w2)
  PROVE  Len(b2) \in Nat /\ Len(b2) = m2 - Offset(p, s) /\ b2 \in Seq(TxCell)
  <1>1. PICK o \in Nat : o = Offset(p, s) /\ o <= m
    BY InBufLength DEF Going
  <1>2. b2 \in Seq(TxCell) /\ Len(b2) = m2 - o /\ m <= m2
    BY <1>1 DEF Round, InBuf
  <1>3. m2 - o \in Nat
    BY <1>1, <1>2
  <1> QED BY <1>1, <1>2, <1>3

NoneYet(p, s, b) == p.kind = "tse" => ~(1 + Share(p, s) <= Len(b))

(* No segment is complete, and the packet does not end. *)
LEMMA NotFull ==
  ASSUME NEW g \in Nat, NEW p, GuestPacket(p), NEW s \in Nat, NEW m \in Nat, NEW b, NEW w, NEW cs,
         NEW ms, NEW pl, NEW tf, NEW sv, NEW k \in Nat, NEW d \in Nat, k = Contexts(p) + d,
         d < Len(p.cuts), Copying(g, p, k, s, m, b, w, cs, ms, pl, tf, sv),
         NEW m2 \in Nat, NEW b2, NEW w2, Round(g, p, s, d, m, m2, b2, w2),
         NoneYet(p, s, b2)
  PROVE  w2 = <<>> /\ Gathered(g, p, k + 1, s, m2, b2, cs, ms, pl, tf, sv)
  <1>1. /\ Going(g, p, s, m, b, cs) /\ p.kind # "legacy" /\ cs = p.sum
        /\ SegmentsSet(p, s, ms, pl, tf, sv)
    BY CopyingIs
  <1>2. PICK lb \in Nat : lb = Len(b2)
    BY <1>1, RoundLength
  <1>3. /\ m2 = End(p, d + 1)
        /\ p.kind = "tse" => m2 <= Offset(p, s) + p.mss
    <2>1. CASE p.kind = "tse"
      <3>1. Rounded(p, s, d, m, m2, lb)
        BY <1>2, <2>1 DEF Round
      <3>2. ~(1 + Share(p, s) <= lb)
        BY <1>2, <2>1 DEF NoneYet
      <3>3. m2 = End(p, d + 1) /\ m2 <= Offset(p, s) + p.mss
        BY <1>1, <2>1, <3>1, <3>2, FullWhen
      <3> QED BY <3>3
    <2>2. CASE p.kind # "tse"
      BY <2>2 DEF Round
    <2> QED BY <2>1, <2>2
  <1>4. w2 = <<>> /\ InBuf(b2, g, p, s, m2) /\ m <= m2
    BY <1>3 DEF Round
  <1>5. Going(g, p, s, m2, b2, cs)
    BY <1>1, <1>3, <1>4, AllCopied
  <1>6. Gathered(g, p, k + 1, s, m2, b2, cs, ms, pl, tf, sv)
    BY <1>1, <1>3, <1>5, NextGathered
  <1> QED BY <1>4, <1>6

OnData(g, p, k, s, m, d, m2) ==
  /\ g \in Nat /\ GuestPacket(p) /\ s \in Nat /\ m \in Nat /\ k \in Nat /\ d \in Nat /\ m2 \in Nat
  /\ k = Contexts(p) + d /\ d < Len(p.cuts)

NothingFull(g, p, k, s, m2, b2, w2, cs, ms, pl, tf, sv) ==
  w2 = <<>> /\ Gathered(g, p, k + 1, s, m2, b2, cs, ms, pl, tf, sv)

LEMMA NotFullWith ==
  ASSUME NEW g, NEW p, NEW s, NEW m, NEW b, NEW w, NEW cs, NEW ms, NEW pl, NEW tf, NEW sv,
         NEW k, NEW d, NEW m2, NEW b2, NEW w2,
         Copying(g, p, k, s, m, b, w, cs, ms, pl, tf, sv),
         Round(g, p, s, d, m, m2, b2, w2), OnData(g, p, k, s, m, d, m2), NoneYet(p, s, b2)
  PROVE  NothingFull(g, p, k, s, m2, b2, w2, cs, ms, pl, tf, sv)
  BY NotFull DEF OnData, NothingFull

LEMMA PassedWith ==
  \A g \in Nat : \A p : GuestPacket(p) => \A s \in Nat : s < Frames(p) =>
    \A m2 \in Nat : \A b : InBuf(b, g, p, s, m2) => \A n \in Nat : n = Len(b) =>
      \A m \in Nat : m = Share(p, s) /\ m + 1 <= n =>
        \A fin : fin = LastOne(p, s) => \A c : c = Header(g, p, s, m, fin) =>
          Passed(c, b, m) = Part(g, p, s)
  BY PassedIs

(* The end of a packet without TSE *)
LEMMA DataEnds ==
  ASSUME NEW g \in Nat, NEW p, GuestPacket(p), p.kind # "tse",
         NEW s \in Nat, NEW m \in Nat, NEW b, NEW w, NEW cs,
         NEW ms, NEW pl, NEW tf, NEW sv, NEW k \in Nat, NEW d \in Nat, k = Contexts(p) + d,
         d < Len(p.cuts), d + 1 = Len(p.cuts),
         Copying(g, p, k, s, m, b, w, cs, ms, pl, tf, sv),
         NEW m2 \in Nat, NEW b2, NEW w2, Round(g, p, s, d, m, m2, b2, w2)
  PROVE  s = 0 /\ Passed(Plain(p, b2[1]), b2, Len(b2) - 1) = Part(g, p, s)
  <1>1. Going(g, p, s, m, b, cs) /\ s < Frames(p)
    BY CopyingIs DEF Going
  <1>2. PICK y \in Nat : y = p.pay
    BY DEF GuestPacket
  <1>3. s = 0 /\ Offset(p, s) = 0 /\ LastOne(p, s) /\ Share(p, s) = y /\ Flag(LastOne(p, s))
    BY <1>1, <1>2, PartIs
  <1>4. m2 = y + 1
    <2>1. End(p, d + 1) = p.pay + 1
      BY EndIs
    <2> QED BY <1>2, <2>1 DEF Round
  <1>5. PICK lb \in Nat : lb = Len(b2) /\ lb = y + 1
    <2>1. Len(b2) = m2 - Offset(p, s) /\ Len(b2) \in Nat
      BY <1>1, RoundLength
    <2> QED BY <1>3, <1>4, <2>1
  <1>6. InBuf(b2, g, p, s, m2)
    BY DEF Round
  <1>7. b2[1] = FirstCell(g, p, s)
    <2>1. Len(b2) > 0
      BY <1>5
    <2> QED BY <1>6, <2>1 DEF InBuf
  <1>8. Plain(p, b2[1]) = Header(g, p, s, y, TRUE)
    <2>1. Flag(p.sum)
      BY DEF Flag, GuestPacket
    <2> QED BY <1>2, <1>7, <2>1, PlainHeader
  <1>9. PICK fin : fin = LastOne(p, s) /\ fin = TRUE
    <2>1. LastOne(p, s) = TRUE
      BY <1>3 DEF Flag
    <2> QED BY <2>1
  <1>10. PICK c : c = Plain(p, b2[1]) /\ c = Header(g, p, s, y, fin)
    BY <1>8, <1>9
  <1>11. y + 1 <= lb /\ y = Share(p, s)
    BY <1>3, <1>5
  <1>12. Passed(c, b2, y) = Part(g, p, s)
    <2>1. s < Frames(p) /\ lb = Len(b2) /\ fin = LastOne(p, s) /\ c = Header(g, p, s, y, fin)
      BY <1>1, <1>5, <1>9, <1>10
    <2>2. y + 1 <= lb /\ y = Share(p, s)
      BY <1>11
    <2>3. \A x \in Nat : \A b1 : InBuf(b1, g, p, s, x) => \A n \in Nat : n = Len(b1) =>
            \A u \in Nat : u = Share(p, s) /\ u + 1 <= n =>
              \A f : f = LastOne(p, s) => \A c1 : c1 = Header(g, p, s, u, f) =>
                Passed(c1, b1, u) = Part(g, p, s)
      BY <2>1, PassedWith, Zenon
    <2>4. \A u \in Nat : u = Share(p, s) /\ u + 1 <= lb =>
              \A f : f = LastOne(p, s) => \A c1 : c1 = Header(g, p, s, u, f) =>
                Passed(c1, b2, u) = Part(g, p, s)
      BY <1>6, <2>1, <2>3, Zenon
    <2> QED BY <2>1, <2>2, <2>4, Zenon
  <1>13. Len(b2) - 1 = y
    BY <1>5
  <1> QED BY <1>3, <1>10, <1>12, <1>13

-----------------------------------------------------------------------------
(* A segment is complete. *)
LEMMA FirstCellHas ==
  ASSUME NEW g, NEW p, NEW s
  PROVE  /\ FirstCell(g, p, s).len = p.pay /\ FirstCell(g, p, s).fin = TRUE
         /\ p.sum = TRUE => FirstCell(g, p, s).sum = "seed"
  BY DEF FirstCell

LEMMA SegmentSent ==
  ASSUME NEW g \in Nat, NEW p, GuestPacket(p), p.kind = "tse",
         NEW s \in Nat, NEW m \in Nat, NEW b, NEW cs, Going(g, p, s, m, b, cs),
         NEW d \in Nat, d < Len(p.cuts), End(p, d) <= m,
         NEW m2 \in Nat, NEW b2, NEW w2, Round(g, p, s, d, m, m2, b2, w2),
         1 + Share(p, s) <= Len(b2),
         NEW fin, fin = LastOne(p, s), NEW a, a = Share(p, s),
         NEW c, c = Tx!Checksum(SetTo(b2[1], a, b2[1].fin /\ fin))
  PROVE  /\ c = Header(g, p, s, a, fin) /\ Passed(c, b2, a) = Part(g, p, s)
         /\ b2[1] = FirstCell(g, p, s)
  <1>1. s < Frames(p)
    BY DEF Going
  <1>2. a \in Nat /\ Flag(fin)
    BY <1>1, PartIs
  <1>3. PICK lb \in Nat : lb = Len(b2)
    BY RoundLength
  <1>4. a + 1 <= lb
    <2>1. 1 + a <= lb
      BY <1>3
    <2> QED BY <1>2, <2>1
  <1>5. InBuf(b2, g, p, s, m2)
    BY DEF Round
  <1>6. b2[1] = FirstCell(g, p, s)
    <2>1. Len(b2) > 0
      BY <1>2, <1>3, <1>4
    <2> QED BY <1>5, <2>1 DEF InBuf
  <1>7. b2[1].fin = TRUE
    <2>1. FirstCell(g, p, s).fin = TRUE
      BY FirstCellHas
    <2> QED BY <1>6, <2>1, Zenon
  <1>8. (b2[1].fin /\ fin) = fin
    BY <1>2, <1>7 DEF Flag
  <1>9. c = Header(g, p, s, a, fin)
    <2>1. c = Tx!Checksum(SetTo(FirstCell(g, p, s), a, fin))
      BY <1>6, <1>8, Zenon
    <2>2. p.sum = TRUE
      BY DEF GuestPacket
    <2>3. Tx!Checksum(SetTo(FirstCell(g, p, s), a, fin)) = Header(g, p, s, a, fin)
      BY <2>2, SegmentHeader
    <2> QED BY <2>1, <2>3, Zenon
  <1>10. Passed(c, b2, a) = Part(g, p, s)
    <2>1. lb = Len(b2) /\ fin = LastOne(p, s) /\ a = Share(p, s)
      BY <1>3
    <2>3. \A x \in Nat : \A b1 : InBuf(b1, g, p, s, x) => \A n \in Nat : n = Len(b1) =>
            \A u \in Nat : u = Share(p, s) /\ u + 1 <= n =>
              \A f : f = LastOne(p, s) => \A c1 : c1 = Header(g, p, s, u, f) =>
                Passed(c1, b1, u) = Part(g, p, s)
      BY <1>1, PassedWith, Zenon
    <2>4. \A u \in Nat : u = Share(p, s) /\ u + 1 <= lb =>
              \A f : f = LastOne(p, s) => \A c1 : c1 = Header(g, p, s, u, f) =>
                Passed(c1, b2, u) = Part(g, p, s)
      BY <1>5, <2>1, <2>3, Zenon
    <2> QED BY <1>2, <1>4, <1>9, <2>1, <2>4, Zenon
  <1> QED BY <1>6, <1>9, <1>10

(* What the next segment begins with *)
Resumed(c, s1, ms) == Restored(c, s1.len, s1.sum, c.fin \/ s1.fin, c.id + 1, c.seq + ms)

LEMMA ResumedIs ==
  ASSUME NEW g \in Nat, NEW p, GuestPacket(p), p.kind = "tse", NEW s \in Nat,
         NEW a, NEW fin, Flag(fin), NEW c, c = Header(g, p, s, a, fin),
         NEW s1, s1 = [len |-> p.pay, sum |-> "seed", fin |-> TRUE]
  PROVE  Resumed(c, s1, p.mss) = FirstCell(g, p, s + 1)
  <1>1. s1.len = p.pay /\ s1.sum = "seed" /\ s1.fin = TRUE
    OBVIOUS
  <1>2. c.fin = fin
    BY DEF Header
  <1>3. (c.fin \/ s1.fin) = TRUE
    BY <1>1, <1>2 DEF Flag
  <1>4. SumsLeft(p) /\ p.mss \in Nat
    BY DEF GuestPacket, SumsLeft
  <1>5. Restored(c, p.pay, "seed", Raised, c.id + 1, c.seq + p.mss) = FirstCell(g, p, s + 1)
    <2>1. PICK q1, q2 : q1 = a /\ q2 = fin
      OBVIOUS
    <2>2. c = Header(g, p, s, q1, q2)
      BY <2>1, Zenon
    <2> QED BY <1>4, <2>2, NextFirstCell
  <1> QED BY <1>1, <1>3, <1>5, Zenon DEF Resumed, Raised

SavedFrom(c) == [len |-> c.len, sum |-> c.sum, fin |-> c.fin]

LEMMA SavedIs ==
  ASSUME NEW g \in Nat, NEW p, GuestPacket(p), p.kind = "tse", NEW s \in Nat
  PROVE  SavedFrom(FirstCell(g, p, s)) = [len |-> p.pay, sum |-> "seed", fin |-> TRUE]
  <1>1. p.sum = TRUE
    BY DEF GuestPacket
  <1>2. PICK c : c = FirstCell(g, p, s)
    OBVIOUS
  <1>3. c.len = p.pay /\ c.sum = "seed" /\ c.fin = TRUE
    BY <1>1, <1>2, FirstCellHas
  <1> QED BY <1>2, <1>3, Zenon DEF SavedFrom

(* What the driver keeps for the next segment of a packet *)
NextState(g, p, s, c, b2, ms, pl, tf, sv, b3, pl2, nt, s1) ==
    /\ LastOne(p, s) = FALSE /\ b2[1] = FirstCell(g, p, s)
    /\ c = Header(g, p, s, Share(p, s), LastOne(p, s))
    /\ s1 = IF tf THEN SavedFrom(b2[1]) ELSE sv
    /\ b3 = Framed(Resumed(c, s1, ms), Tx!Shift(b2, ms + 1))
    /\ nt = FALSE /\ pl2 = pl - ms

LEMMA NextSegment ==
  ASSUME NEW g \in Nat, NEW p, GuestPacket(p), p.kind = "tse",
         NEW s \in Nat, NEW m \in Nat, NEW b, NEW w, NEW cs,
         NEW ms, NEW pl, NEW tf, NEW sv, NEW k \in Nat, NEW d \in Nat, k = Contexts(p) + d,
         d < Len(p.cuts), Copying(g, p, k, s, m, b, w, cs, ms, pl, tf, sv),
         NEW m2 \in Nat, NEW b2, NEW w2, Round(g, p, s, d, m, m2, b2, w2),
         1 + Share(p, s) <= Len(b2),
         NEW c, NEW s1, NEW b3, NEW nt, NEW pl2,
         NextState(g, p, s, c, b2, ms, pl, tf, sv, b3, pl2, nt, s1)
  PROVE  /\ b3 # <<>>
         /\ w2 = <<>> => Gathered(g, p, k + 1, s + 1, m2, b3, cs, ms, pl2, nt, s1)
         /\ w2 # <<>> => Copying(g, p, k, s + 1, m2, b3, w2, cs, ms, pl2, nt, s1)
  <1> DEFINE fin == LastOne(p, s)
             a == Share(p, s)
  <1>0. SUFFICES ASSUME /\ LastOne(p, s) = FALSE /\ b2[1] = FirstCell(g, p, s)
                        /\ fin = LastOne(p, s) /\ a = Share(p, s) /\ c = Header(g, p, s, a, fin)
                        /\ s1 = IF tf THEN SavedFrom(b2[1]) ELSE sv
                        /\ b3 = Framed(Resumed(c, s1, ms), Tx!Shift(b2, ms + 1))
                        /\ nt = FALSE /\ pl2 = pl - ms
                 PROVE  /\ b3 # <<>>
                        /\ w2 = <<>> => Gathered(g, p, k + 1, s + 1, m2, b3, cs, ms, pl2, nt, s1)
                        /\ w2 # <<>> => Copying(g, p, k, s + 1, m2, b3, w2, cs, ms, pl2, nt, s1)
    BY Zenon DEF NextState
  <1> USE <1>0
  <1> HIDE DEF fin, a
  <1>1. /\ Going(g, p, s, m, b, cs) /\ p.kind # "legacy" /\ cs = p.sum
        /\ SegmentsSet(p, s, ms, pl, tf, sv) /\ End(p, d) <= m
    BY CopyingIs
  <1>2. PICK lb \in Nat : lb = Len(b2)
    BY <1>1, RoundLength
  <1>3. /\ s + 1 < Frames(p) /\ Offset(p, s + 1) = Offset(p, s) + p.mss
        /\ Offset(p, s + 1) < m2 /\ m2 <= Offset(p, s + 1) + p.mss
    <2>1. Rounded(p, s, d, m, m2, lb)
      BY <1>2 DEF Round
    <2>2. 1 + Share(p, s) <= lb /\ ~LastOne(p, s)
      BY <1>2
    <2> QED BY <1>1, <2>1, <2>2, FullWhen
  <1>4. /\ ms = p.mss /\ pl = p.pay - Offset(p, s) /\ tf = (s = 0)
        /\ s > 0 => sv = [len |-> p.pay, sum |-> "seed", fin |-> TRUE]
    BY <1>1 DEF SegmentsSet
  <1>5. s1 = [len |-> p.pay, sum |-> "seed", fin |-> TRUE]
    <2>1. CASE s = 0
      <3>1. tf
        BY <1>4, <2>1
      <3>2. s1 = SavedFrom(FirstCell(g, p, s))
        BY <3>1, Zenon
      <3> QED BY <3>2, SavedIs, Zenon
    <2>2. CASE s # 0
      <3>0. tf = (s = 0)
        BY <1>4
      <3>1. ~tf
        BY <2>2, <3>0, Zenon
      <3>2. s > 0
        BY <2>2
      <3> QED BY <1>4, <3>1, <3>2, Zenon
    <2> QED BY <2>1, <2>2
  <1>6. Resumed(c, s1, ms) = FirstCell(g, p, s + 1)
    <2>1. Flag(fin)
      BY <1>1, PartIs DEF Going
    <2>2. Resumed(c, s1, p.mss) = FirstCell(g, p, s + 1)
      BY <1>5, <2>1, ResumedIs
    <2> QED BY <1>4, <2>2
  <1>7. PICK s2 \in Nat : s2 = s + 1
    OBVIOUS
  <1>8. PICK v \in Nat : v = p.mss /\ v + 1 <= lb
    <2>1. Share(p, s) = p.mss
      BY <1>1, PartIs DEF Going
    <2>2. p.mss \in Nat
      BY DEF GuestPacket
    <2>3. 1 + p.mss <= lb
      BY <1>2, <2>1
    <2> QED BY <2>2, <2>3
  <1>9. InBuf(b2, g, p, s, m2)
    BY DEF Round
  <1>10. b3 = Framed(FirstCell(g, p, s2), Tx!Shift(b2, v + 1))
    BY <1>4, <1>6, <1>7, <1>8
  <1>11. InBuf(b3, g, p, s2, m2)
    <2>1. s < Frames(p)
      BY <1>1 DEF Going
    <2>2. InBuf(Framed(FirstCell(g, p, s2), Tx!Shift(b2, v + 1)), g, p, s2, m2)
      BY <1>2, <1>7, <1>8, <1>9, <2>1, Shifted
    <2> QED BY <1>10, <2>2
  <1>12. PICK o2 \in Nat : o2 = Offset(p, s2) /\ o2 < m2 /\ m2 <= o2 + p.mss /\ s2 < Frames(p)
    <2>1. Offset(p, s2) \in Nat
      BY <1>3, <1>7, PartIs
    <2> QED BY <1>3, <1>7, <2>1
  <1>13. b3 # <<>>
    <2>1. b3 \in Seq(TxCell) /\ Len(b3) = m2 - o2
      BY <1>11, <1>12 DEF InBuf
    <2>2. Len(b3) # 0
      BY <1>12, <2>1
    <2> QED BY <2>1, <2>2
  <1>14. Going(g, p, s2, m2, b3, cs)
    BY <1>1, <1>11, <1>12 DEF Going
  <1>15. SegmentsSet(p, s2, ms, pl2, nt, s1)
    <2>1. pl2 = p.pay - Offset(p, s2)
      <3>1. PICK o \in Nat, y \in Nat : o = Offset(p, s) /\ y = p.pay
        BY <1>1, InBufLength DEF GuestPacket
      <3>2. Offset(p, s2) = o + v /\ pl2 = (y - o) - v
        BY <1>3, <1>4, <1>7, <1>8, <3>1
      <3> QED BY <3>1, <3>2
    <2>2. nt = (s2 = 0)
      <3>1. (s2 = 0) = FALSE
        BY <1>7
      <3> QED BY <3>1, Zenon
    <2> QED BY <1>4, <1>5, <2>1, <2>2, Zenon DEF SegmentsSet
  <1>16. /\ w2 = <<>> <=> m2 = End(p, d + 1)
         /\ m <= m2 /\ m2 <= End(p, d + 1) /\ Uncopied(w2, g, p, m2, End(p, d + 1))
    BY DEF Round
  <1>17. ASSUME w2 = <<>> PROVE Gathered(g, p, k + 1, s2, m2, b3, cs, ms, pl2, nt, s1)
    <2>1. m2 = End(p, d + 1)
      BY <1>16, <1>17
    <2> QED BY <1>14, <1>15, <2>1, NextGathered
  <1>18. ASSUME w2 # <<>> PROVE Copying(g, p, k, s2, m2, b3, w2, cs, ms, pl2, nt, s1)
    <2>1. PICK e1 \in Nat, e2 \in Nat : e1 = End(p, d) /\ e2 = End(p, d + 1)
      BY EndIs
    <2>2. e1 <= m2 /\ m2 < e2
      <3>1. e1 <= m /\ m <= m2 /\ m2 <= e2 /\ m2 # e2
        BY <1>1, <1>16, <1>18, <2>1
      <3> QED BY <3>1
    <2>3. End(p, d) <= m2 /\ m2 < End(p, d + 1)
      BY <2>1, <2>2
    <2> QED BY <1>1, <1>14, <1>15, <1>16, <2>3, CopyingIs
  <1> QED BY <1>7, <1>13, <1>17, <1>18

-----------------------------------------------------------------------------
(***************************************************************************)
(* The invariant: of the packets queued, some have gone out completely,    *)
(* and the driver is inside packet f, or has processed all of them.        *)
(***************************************************************************)
Located(q, n, r, nx, at, st, ex, c, f, k) ==
    /\ n = Len(q) /\ Hist(q, n, st, ex) /\ Walk(q, n, st, r, c, f, k)
    /\ at = Wrap(c) /\ nx = Wrap(st[n])

Spot(q, n, ex, f, k, s, m, pcv, o0, b, w, cs, ms, pl, tf, sv) ==
    /\ f = n + 1 => b = <<>> /\ o0 = ex[n] /\ pcv # "data"
    /\ f # n + 1 =>
         /\ o0 = Sent(ex[f - 1], f, q[f], s)
         /\ pcv # "data" => Gathered(f, q[f], k, s, m, b, cs, ms, pl, tf, sv)
         /\ pcv = "data" => Copying(f, q[f], k, s, m, b, w, cs, ms, pl, tf, sv)

Core(q, r, nx, at, pcv, o0, b, w, cs, ms, pl, tf, sv) ==
    \E n \in Nat, s \in Nat, m \in Nat : \E st, ex, c, f, k :
        /\ Located(q, n, r, nx, at, st, ex, c, f, k)
        /\ Spot(q, n, ex, f, k, s, m, pcv, o0, b, w, cs, ms, pl, tf, sv)

(* Inside a packet *)
Where(q, r, nx, at, n, st, ex, c, f, k, p, e0) ==
    /\ f \in 1 .. n /\ f # n + 1 /\ f \in Nat /\ p = q[f] /\ GuestPacket(p)
    /\ k \in Nat /\ k < Count(p)
    /\ e0 = ex[f - 1] /\ e0 \in Seq(Seq(TxCell))
    /\ r[at] = Tx!Descriptors(f, p)[k + 1]
    /\ Located(q, n, r, nx, at, st, ex, c, f, k)

LEMMA HistTypes ==
  ASSUME NEW n \in Nat, NEW q, NEW st, NEW ex, Hist(q, n, st, ex)
  PROVE  \A g \in 0 .. n : ex[g] \in Seq(Seq(TxCell))
  BY DEF Hist

LEMMA CoreAt ==
  ASSUME NEW q, NEW r, NEW nx, NEW at, NEW pcv, NEW o0, NEW b, NEW w, NEW cs, NEW ms, NEW pl,
         NEW tf, NEW sv, Core(q, r, nx, at, pcv, o0, b, w, cs, ms, pl, tf, sv),
         at # nx \/ pcv = "data"
  PROVE  \E n \in Nat, s \in Nat, m \in Nat : \E st, ex, c, f, k, p, e0 :
           /\ Where(q, r, nx, at, n, st, ex, c, f, k, p, e0)
           /\ o0 = Sent(e0, f, p, s)
           /\ pcv # "data" => Gathered(f, p, k, s, m, b, cs, ms, pl, tf, sv)
           /\ pcv = "data" => Copying(f, p, k, s, m, b, w, cs, ms, pl, tf, sv)
  <1>1. PICK n \in Nat, s \in Nat, m \in Nat : \E st, ex, c, f, k :
           /\ Located(q, n, r, nx, at, st, ex, c, f, k)
           /\ Spot(q, n, ex, f, k, s, m, pcv, o0, b, w, cs, ms, pl, tf, sv)
    BY DEF Core
  <1>2. PICK st, ex, c, f, k :
           /\ Located(q, n, r, nx, at, st, ex, c, f, k)
           /\ Spot(q, n, ex, f, k, s, m, pcv, o0, b, w, cs, ms, pl, tf, sv)
    BY <1>1
  <1>3. Hist(q, n, st, ex) /\ Walk(q, n, st, r, c, f, k) /\ at = Wrap(c) /\ nx = Wrap(st[n])
    BY <1>2 DEF Located
  <1>4. f # n + 1
    <2> SUFFICES ASSUME f = n + 1 PROVE FALSE
      OBVIOUS
    <2>1. pcv # "data"
      BY <1>2 DEF Spot
    <2>2. c = st[n]
      BY <1>3, WalkBounds
    <2> QED BY <1>3, <2>1, <2>2
  <1>5. /\ f \in 1 .. n /\ k \in Nat /\ k < Count(q[f])
        /\ r[at] = Tx!Descriptors(f, q[f])[k + 1] /\ GuestPacket(q[f])
    <2>1. f \in 1 .. n /\ k \in Nat /\ k < Count(q[f])
      BY <1>3, <1>4, WalkBounds
    <2>2. r[Wrap(c)] = Tx!Descriptors(f, q[f])[k + 1] /\ GuestPacket(q[f])
      BY <1>3, <1>4, WalkHere
    <2> QED BY <1>3, <2>1, <2>2
  <1>6. f \in Nat /\ ex[f - 1] \in Seq(Seq(TxCell))
    <2>1. f \in Nat /\ f - 1 \in 0 .. n
      BY <1>5
    <2> QED BY <1>3, <2>1, HistTypes
  <1>7. PICK p, e0 : p = q[f] /\ e0 = ex[f - 1]
    OBVIOUS
  <1>8. Where(q, r, nx, at, n, st, ex, c, f, k, p, e0)
    BY <1>2, <1>4, <1>5, <1>6, <1>7 DEF Where
  <1>9. /\ o0 = Sent(e0, f, p, s)
        /\ pcv # "data" => Gathered(f, p, k, s, m, b, cs, ms, pl, tf, sv)
        /\ pcv = "data" => Copying(f, p, k, s, m, b, w, cs, ms, pl, tf, sv)
    BY <1>2, <1>4, <1>7, Zenon DEF Spot
  <1> QED BY <1>8, <1>9, Zenon

(* The driver goes on to the next descriptor of the packet. *)
LEMMA CoreOn ==
  ASSUME NEW q, NEW r, NEW nx, NEW at, NEW n \in Nat, NEW st, NEW ex, NEW c, NEW f, NEW k, NEW p, NEW e0,
         Where(q, r, nx, at, n, st, ex, c, f, k, p, e0), k + 1 < Count(p),
         NEW s \in Nat, NEW m \in Nat, NEW pcv, pcv # "data", NEW o0, o0 = Sent(e0, f, p, s),
         NEW b, NEW w, NEW cs, NEW ms, NEW pl, NEW tf, NEW sv,
         Gathered(f, p, k + 1, s, m, b, cs, ms, pl, tf, sv)
  PROVE  Core(q, r, nx, Tx!NextIndex(at), pcv, o0, b, w, cs, ms, pl, tf, sv)
  <1>1. /\ f # n + 1 /\ p = q[f] /\ e0 = ex[f - 1] /\ n = Len(q)
        /\ Hist(q, n, st, ex) /\ Walk(q, n, st, r, c, f, k) /\ at = Wrap(c) /\ nx = Wrap(st[n])
    BY DEF Where, Located
  <1>2. PICK c2, k2 : c2 = c + 1 /\ k2 = k + 1
    OBVIOUS
  <1>3. Wrap(c + 1) = Tx!NextIndex(Wrap(c)) /\ (k + 1 < Count(q[f]) => Walk(q, n, st, r, c + 1, f, k + 1))
    BY <1>1, WalkOn
  <1>4. Wrap(c2) = Tx!NextIndex(at) /\ Walk(q, n, st, r, c2, f, k2)
    BY <1>1, <1>2, <1>3
  <1>5. Located(q, n, r, nx, Tx!NextIndex(at), st, ex, c2, f, k2)
    BY <1>1, <1>4 DEF Located
  <1>6. Gathered(f, q[f], k2, s, m, b, cs, ms, pl, tf, sv)
    BY <1>1, <1>2, Zenon
  <1>7. Spot(q, n, ex, f, k2, s, m, pcv, o0, b, w, cs, ms, pl, tf, sv)
    BY <1>1, <1>6, Zenon DEF Spot
  <1> QED BY <1>5, <1>7, Zenon DEF Core

(* The driver stays at a descriptor. *)
LEMMA CoreStays ==
  ASSUME NEW q, NEW r, NEW nx, NEW at, NEW n \in Nat, NEW st, NEW ex, NEW c, NEW f, NEW k, NEW p, NEW e0,
         Where(q, r, nx, at, n, st, ex, c, f, k, p, e0),
         NEW s \in Nat, NEW m \in Nat, NEW pcv, pcv = "data", NEW o0, o0 = Sent(e0, f, p, s),
         NEW b, NEW w, NEW cs, NEW ms, NEW pl, NEW tf, NEW sv,
         Copying(f, p, k, s, m, b, w, cs, ms, pl, tf, sv)
  PROVE  Core(q, r, nx, at, pcv, o0, b, w, cs, ms, pl, tf, sv)
  <1>1. f # n + 1 /\ p = q[f] /\ e0 = ex[f - 1] /\ Located(q, n, r, nx, at, st, ex, c, f, k)
    BY DEF Where
  <1>2. Spot(q, n, ex, f, k, s, m, pcv, o0, b, w, cs, ms, pl, tf, sv)
    BY <1>1, Zenon DEF Spot
  <1> QED BY <1>1, <1>2, Zenon DEF Core

(* Between two packets, or behind the last one *)
LEMMA CoreBetween ==
  ASSUME NEW q, NEW r, NEW nx, NEW at, NEW n \in Nat, NEW st, NEW ex, NEW c, NEW f, NEW k, k = 0,
         Located(q, n, r, nx, at, st, ex, c, f, k),
         NEW pcv, pcv # "data", NEW o0, o0 = ex[f - 1],
         NEW b, b = <<>>, NEW w, NEW cs, NEW ms, NEW pl, NEW tf, NEW sv
  PROVE  Core(q, r, nx, at, pcv, o0, b, w, cs, ms, pl, tf, sv)
  <1>1. Hist(q, n, st, ex) /\ Walk(q, n, st, r, c, f, k)
    BY DEF Located
  <1>2. PICK z \in Nat : z = 0
    OBVIOUS
  <1>3. CASE f = n + 1
    <2>1. f - 1 = n
      BY <1>3
    <2>2. o0 = ex[n]
      BY <2>1
    <2>3. Spot(q, n, ex, f, k, z, z, pcv, o0, b, w, cs, ms, pl, tf, sv)
      BY <1>3, <2>2, Zenon DEF Spot
    <2> QED BY <1>2, <2>3, Zenon DEF Core
  <1>4. CASE f # n + 1
    <2>1. f \in 1 .. n /\ f \in Nat /\ f - 1 \in 0 .. n
      BY <1>1, <1>4, WalkBounds
    <2>2. PICK p, e0 : p = q[f] /\ e0 = ex[f - 1]
      OBVIOUS
    <2>3. GuestPacket(p) /\ e0 \in Seq(Seq(TxCell))
      BY <1>1, <2>1, <2>2, HistTypes DEF Hist
    <2>4. Gathered(f, p, 0, 0, 0, <<>>, cs, ms, pl, tf, sv) /\ Sent(e0, f, p, 0) = e0
      BY <2>1, <2>3, Fresh
    <2>5. Spot(q, n, ex, f, k, z, z, pcv, o0, b, w, cs, ms, pl, tf, sv)
      BY <1>2, <1>4, <2>2, <2>4, Zenon DEF Spot
    <2> QED BY <1>2, <2>5, Zenon DEF Core
  <1> QED BY <1>3, <1>4

LEMMA SentAll ==
  ASSUME NEW g \in Nat, NEW p, GuestPacket(p), NEW e0 \in Seq(Seq(TxCell)),
         NEW s \in Nat, s + 1 = Frames(p)
  PROVE  Sent(e0, g, p, s + 1) = e0 \o Tx!Expected(g, p)
  <1>1. s < s + 1
    OBVIOUS
  <1>2. s < Frames(p)
    BY <1>1
  <1> QED BY <1>2, SentOne

(* The packet has gone out. *)
LEMMA CoreSent ==
  ASSUME NEW q, NEW r, NEW nx, NEW at, NEW n \in Nat, NEW st, NEW ex, NEW c, NEW f, NEW k, NEW p, NEW e0,
         Where(q, r, nx, at, n, st, ex, c, f, k, p, e0), k + 1 = Count(p),
         NEW s \in Nat, s + 1 = Frames(p), NEW pcv, pcv # "data",
         NEW o0, o0 = Append(Sent(e0, f, p, s), Part(f, p, s)),
         NEW b, b = <<>>, NEW w, NEW cs, NEW ms, NEW pl, NEW tf, NEW sv
  PROVE  Core(q, r, nx, Tx!NextIndex(at), pcv, o0, b, w, cs, ms, pl, tf, sv)
  <1>1. /\ f # n + 1 /\ f \in 1 .. n /\ f \in Nat /\ p = q[f] /\ GuestPacket(p) /\ n = Len(q)
        /\ e0 = ex[f - 1] /\ e0 \in Seq(Seq(TxCell))
        /\ Hist(q, n, st, ex) /\ Walk(q, n, st, r, c, f, k) /\ at = Wrap(c) /\ nx = Wrap(st[n])
    BY DEF Where, Located
  <1>2. o0 = e0 \o Tx!Expected(f, p)
    <2>1. Frames(p) \in Nat
      BY <1>1, FramesAre
    <2>2. s < Frames(p)
      BY <2>1
    <2>3. Append(Sent(e0, f, p, s), Part(f, p, s)) = Sent(e0, f, p, s + 1)
      BY <1>1, <2>2, SentOne
    <2>4. Sent(e0, f, p, s + 1) = e0 \o Tx!Expected(f, p)
      BY <1>1, SentAll
    <2> QED BY <2>3, <2>4
  <1>3. PICK f2, c2, z : f2 = f + 1 /\ c2 = c + 1 /\ z = 0
    OBVIOUS
  <1>4. f2 - 1 = f
    BY <1>1, <1>3
  <1>5. o0 = ex[f2 - 1]
    <2>1. ex[f] = ex[f - 1] \o Tx!Expected(f, q[f])
      BY <1>1 DEF Hist
    <2> QED BY <1>1, <1>2, <1>4, <2>1
  <1>6. Wrap(c2) = Tx!NextIndex(at) /\ Walk(q, n, st, r, c2, f2, z)
    <2>1. Wrap(c + 1) = Tx!NextIndex(Wrap(c)) /\ (k + 1 = Count(q[f]) => Walk(q, n, st, r, c + 1, f + 1, 0))
      BY <1>1, WalkOn
    <2> QED BY <1>1, <1>3, <2>1
  <1>7. PICK at2 : at2 = Tx!NextIndex(at)
    OBVIOUS
  <1>8. Located(q, n, r, nx, at2, st, ex, c2, f2, z)
    BY <1>1, <1>6, <1>7 DEF Located
  <1>9. Core(q, r, nx, at2, pcv, o0, b, w, cs, ms, pl, tf, sv)
    BY <1>3, <1>5, <1>8, CoreBetween
  <1> QED BY <1>7, <1>9, Zenon

-----------------------------------------------------------------------------
(* What each step of process_tdesc() does to the invariant *)
LEMMA WhereIs ==
  ASSUME NEW q, NEW r, NEW nx, NEW at, NEW n, NEW st, NEW ex, NEW c, NEW f, NEW k, NEW p, NEW e0,
         Where(q, r, nx, at, n, st, ex, c, f, k, p, e0)
  PROVE  /\ f \in Nat /\ GuestPacket(p) /\ k \in Nat /\ k < Count(p) /\ Contexts(p) \in Nat
         /\ Count(p) = Contexts(p) + Len(p.cuts) /\ Len(p.cuts) \in Nat /\ Len(p.cuts) > 0
  <1>1. f \in Nat /\ GuestPacket(p) /\ k \in Nat /\ k < Count(p)
    BY DEF Where
  <1>2. Contexts(p) \in Nat /\ Count(p) = Contexts(p) + Len(p.cuts) /\ Len(p.cuts) \in Nat /\ Len(p.cuts) > 0
    BY <1>1, CountIs DEF Count, GuestPacket
  <1> QED BY <1>1, <1>2

ContextHere(x, p, k) ==
    p.kind = "tse" /\ k = 0 /\ x = [type |-> "context", mss |-> p.mss, paylen |-> p.pay]

DataHere(x, g, p, k, d) ==
    k = Contexts(p) + d /\ d < Len(p.cuts) /\ x = DataDesc(g, p, d)

LEMMA WhatIsHere ==
  ASSUME NEW q, NEW r, NEW nx, NEW at, NEW n, NEW st, NEW ex, NEW c, NEW f, NEW k, NEW p, NEW e0,
         Where(q, r, nx, at, n, st, ex, c, f, k, p, e0)
  PROVE  ContextHere(r[at], p, k) \/ \E d \in Nat : DataHere(r[at], f, p, k, d)
  <1>1. f \in Nat /\ GuestPacket(p) /\ k \in Nat /\ k < Count(p) /\ r[at] = Tx!Descriptors(f, p)[k + 1]
    BY DEF Where
  <1>3. PICK x : x = Tx!Descriptors(f, p)[k + 1] /\ x = r[at]
    BY <1>1
  <1>4. ContextHere(x, p, k) \/ \E d \in Nat : DataHere(x, f, p, k, d)
    BY <1>1, <1>3, DescIs DEF ContextHere, DataHere
  <1> QED BY <1>3, <1>4

LEMMA ContextIs ==
  ASSUME NEW x, NEW p, NEW k, ContextHere(x, p, k)
  PROVE  p.kind = "tse" /\ k = 0 /\ x.type = "context" /\ x.mss = p.mss /\ x.paylen = p.pay
  BY DEF ContextHere

LEMMA DataIs ==
  ASSUME NEW x, NEW g, NEW p, NEW k, NEW d, DataHere(x, g, p, k, d)
  PROVE  /\ k = Contexts(p) + d /\ d < Len(p.cuts) /\ x.cells = DataDesc(g, p, d).cells
         /\ x.type # "context" /\ (x.type = "legacy" <=> p.kind = "legacy")
         /\ x.sum = p.sum
         /\ x.eop <=> d + 1 = Len(p.cuts)
         /\ x.tse <=> p.kind = "tse"
  BY DEF DataHere, DataDesc

(* Before the next descriptor *)
Fetching(q, r, nx, at, o0, b, cs, ms, pl, tf, sv, n, s, m, st, ex, c, f, k, p, e0) ==
    /\ Where(q, r, nx, at, n, st, ex, c, f, k, p, e0)
    /\ o0 = Sent(e0, f, p, s)
    /\ Gathered(f, p, k, s, m, b, cs, ms, pl, tf, sv)

CanFetch(q, r, nx, at, o0, b, cs, ms, pl, tf, sv) ==
    \E n \in Nat, s \in Nat, m \in Nat : \E st, ex, c, f, k, p, e0 :
        Fetching(q, r, nx, at, o0, b, cs, ms, pl, tf, sv, n, s, m, st, ex, c, f, k, p, e0)

LEMMA CoreFetch ==
  ASSUME NEW q, NEW r, NEW nx, NEW at, NEW pcv, NEW o0, NEW b, NEW w, NEW cs, NEW ms, NEW pl,
         NEW tf, NEW sv, Core(q, r, nx, at, pcv, o0, b, w, cs, ms, pl, tf, sv),
         pcv # "data", at # nx
  PROVE  CanFetch(q, r, nx, at, o0, b, cs, ms, pl, tf, sv)
  <1>1. PICK n \in Nat, s \in Nat, m \in Nat : \E st, ex, c, f, k, p, e0 :
           /\ Where(q, r, nx, at, n, st, ex, c, f, k, p, e0)
           /\ o0 = Sent(e0, f, p, s)
           /\ pcv # "data" => Gathered(f, p, k, s, m, b, cs, ms, pl, tf, sv)
           /\ pcv = "data" => Copying(f, p, k, s, m, b, w, cs, ms, pl, tf, sv)
    BY CoreAt
  <1>2. PICK st, ex, c, f, k, p, e0 :
           /\ Where(q, r, nx, at, n, st, ex, c, f, k, p, e0)
           /\ o0 = Sent(e0, f, p, s)
           /\ pcv # "data" => Gathered(f, p, k, s, m, b, cs, ms, pl, tf, sv)
    BY <1>1, Zenon
  <1>3. Fetching(q, r, nx, at, o0, b, cs, ms, pl, tf, sv, n, s, m, st, ex, c, f, k, p, e0)
    BY <1>2, Zenon DEF Fetching
  <1> QED BY <1>3, Zenon DEF CanFetch

LEMMA ContextCore ==
  ASSUME NEW q, NEW r, NEW nx, NEW at, NEW pcv, NEW o0, NEW b, NEW w, NEW cs, NEW ms, NEW pl,
         NEW tf, NEW sv, Core(q, r, nx, at, pcv, o0, b, w, cs, ms, pl, tf, sv),
         pcv = "fetch", at # nx, r[at].type = "context", NEW tr, tr = TRUE
  PROVE  Core(q, r, nx, Tx!NextIndex(at), pcv, o0, b, w, cs, r[at].mss, r[at].paylen, tr, sv)
  <1>0. pcv # "data"
    OBVIOUS
  <1>a. CanFetch(q, r, nx, at, o0, b, cs, ms, pl, tf, sv)
    BY <1>0, CoreFetch
  <1>1. PICK n \in Nat, s \in Nat, m \in Nat : \E st, ex, c, f, k, p, e0 :
           Fetching(q, r, nx, at, o0, b, cs, ms, pl, tf, sv, n, s, m, st, ex, c, f, k, p, e0)
    BY <1>a, Zenon DEF CanFetch
  <1>b. PICK st, ex, c, f, k, p, e0 :
           Fetching(q, r, nx, at, o0, b, cs, ms, pl, tf, sv, n, s, m, st, ex, c, f, k, p, e0)
    BY <1>1, Zenon
  <1>2. /\ Where(q, r, nx, at, n, st, ex, c, f, k, p, e0)
        /\ o0 = Sent(e0, f, p, s)
        /\ Gathered(f, p, k, s, m, b, cs, ms, pl, tf, sv)
    BY <1>b, Zenon DEF Fetching
  <1>3. f \in Nat /\ GuestPacket(p) /\ k \in Nat /\ Count(p) = Contexts(p) + Len(p.cuts) /\ Len(p.cuts) \in Nat /\ Len(p.cuts) > 0
    BY <1>2, WhereIs
  <1>4. p.kind = "tse" /\ k = 0 /\ r[at].mss = p.mss /\ r[at].paylen = p.pay
    <2>1. ASSUME NEW d \in Nat, DataHere(r[at], f, p, k, d) PROVE FALSE
      BY <2>1, DataIs
    <2>2. ContextHere(r[at], p, k)
      BY <1>2, <2>1, WhatIsHere
    <2> QED BY <2>2, ContextIs
  <1>5. k + 1 < Count(p)
    <2>1. Contexts(p) = 1
      BY <1>4 DEF Contexts
    <2> QED BY <1>3, <1>4, <2>1
  <1>6. s = 0 /\ m = 0 /\ Gathered(f, p, k + 1, 0, 0, b, cs, p.mss, p.pay, tr, sv)
    <2>1. p.kind = "tse" /\ k = 0
      BY <1>4
    <2>2. Gathered(f, p, k, s, m, b, cs, ms, pl, tf, sv)
      BY <1>2
    <2>3. f \in Nat /\ GuestPacket(p)
      BY <1>3
    <2>4. s = 0 /\ m = 0
      <3>1. k < Contexts(p)
        BY <2>1 DEF Contexts
      <3> QED BY <2>2, <3>1 DEF Gathered
    <2>5. Gathered(f, p, k + 1, 0, 0, b, cs, p.mss, p.pay, tr, sv)
      BY <2>1, <2>2, <2>3, ContextRead
    <2> QED BY <2>4, <2>5
  <1>7. PICK z \in Nat : z = 0 /\ z = s
    BY <1>6
  <1>8. r[at].mss = p.mss /\ r[at].paylen = p.pay
    BY <1>4
  <1>9. PICK y1, y2 : y1 = p.mss /\ y2 = p.pay
    OBVIOUS
  <1>10. Gathered(f, p, k + 1, z, z, b, cs, y1, y2, tr, sv) /\ o0 = Sent(e0, f, p, z)
    BY <1>2, <1>6, <1>7, <1>9, Zenon
  <1>11. Core(q, r, nx, Tx!NextIndex(at), pcv, o0, b, w, cs, y1, y2, tr, sv)
    BY <1>0, <1>2, <1>5, <1>10, CoreOn
  <1> QED BY <1>8, <1>9, <1>11, Zenon

LEMMA LegacyCore ==
  ASSUME NEW q, NEW r, NEW nx, NEW at, NEW pcv, NEW o0, NEW b, NEW w, NEW cs, NEW ms, NEW pl,
         NEW tf, NEW sv, Core(q, r, nx, at, pcv, o0, b, w, cs, ms, pl, tf, sv),
         pcv = "fetch", at # nx, r[at].type = "legacy", NEW b2, b2 = More(b, r[at].cells)
  PROVE  /\ r[at].eop => Core(q, r, nx, Tx!NextIndex(at), pcv, Append(o0, b2), <<>>, w, cs, ms, pl, tf, sv)
         /\ ~r[at].eop => Core(q, r, nx, Tx!NextIndex(at), pcv, o0, b2, w, cs, ms, pl, tf, sv)
  <1>0. pcv # "data"
    OBVIOUS
  <1>a. CanFetch(q, r, nx, at, o0, b, cs, ms, pl, tf, sv)
    BY <1>0, CoreFetch
  <1>1. PICK n \in Nat, s \in Nat, m \in Nat : \E st, ex, c, f, k, p, e0 :
           Fetching(q, r, nx, at, o0, b, cs, ms, pl, tf, sv, n, s, m, st, ex, c, f, k, p, e0)
    BY <1>a, Zenon DEF CanFetch
  <1>b. PICK st, ex, c, f, k, p, e0 :
           Fetching(q, r, nx, at, o0, b, cs, ms, pl, tf, sv, n, s, m, st, ex, c, f, k, p, e0)
    BY <1>1, Zenon
  <1>2. /\ Where(q, r, nx, at, n, st, ex, c, f, k, p, e0)
        /\ o0 = Sent(e0, f, p, s)
        /\ Gathered(f, p, k, s, m, b, cs, ms, pl, tf, sv)
    BY <1>b, Zenon DEF Fetching
  <1>3. /\ f \in Nat /\ GuestPacket(p) /\ k \in Nat /\ Contexts(p) \in Nat
        /\ Count(p) = Contexts(p) + Len(p.cuts) /\ Len(p.cuts) \in Nat
    BY <1>2, WhereIs
  <1>d. PICK d \in Nat : DataHere(r[at], f, p, k, d)
    <2>1. ~ContextHere(r[at], p, k)
      BY ContextIs
    <2> QED BY <1>2, <2>1, WhatIsHere
  <1>4. k = Contexts(p) + d /\ d < Len(p.cuts)
    BY <1>d, DataIs
  <1>5. p.kind = "legacy"
    BY <1>d, DataIs
  <1>6. PICK y : y = DataDesc(f, p, d).cells /\ b2 = More(b, y)
    BY <1>d, DataIs
  <1>7. /\ s = 0
        /\ d + 1 = Len(p.cuts) => More(b, y) = Part(f, p, 0)
        /\ d + 1 # Len(p.cuts) => \E m2 \in Nat : Gathered(f, p, k + 1, s, m2, More(b, y), cs, ms, pl, tf, sv)
    <2>1. y = DataDesc(f, p, d).cells
      BY <1>6
    <2>2. f \in Nat /\ GuestPacket(p) /\ k \in Nat
      BY <1>3
    <2> QED BY <1>2, <1>4, <1>5, <2>1, <2>2, LegacyRead
  <1>8. r[at].eop <=> d + 1 = Len(p.cuts)
    BY <1>d, DataIs
  <1>9. ASSUME d + 1 = Len(p.cuts)
        PROVE  Core(q, r, nx, Tx!NextIndex(at), pcv, Append(o0, b2), <<>>, w, cs, ms, pl, tf, sv)
    <2>1. b2 = Part(f, p, s)
      BY <1>6, <1>7, <1>9
    <2>2. k + 1 = Count(p)
      BY <1>3, <1>4, <1>9
    <2>3. s + 1 = Frames(p)
      BY <1>5, <1>7 DEF Frames
    <2>4. PICK o2, b0 : o2 = Append(o0, b2) /\ o2 = Append(Sent(e0, f, p, s), Part(f, p, s)) /\ b0 = <<>>
      BY <1>2, <2>1
    <2>5. Core(q, r, nx, Tx!NextIndex(at), pcv, o2, b0, w, cs, ms, pl, tf, sv)
      BY <1>0, <1>2, <2>2, <2>3, <2>4, CoreSent
    <2> QED BY <2>4, <2>5, Zenon
  <1>10. ASSUME d + 1 # Len(p.cuts)
         PROVE  Core(q, r, nx, Tx!NextIndex(at), pcv, o0, b2, w, cs, ms, pl, tf, sv)
    <2>1. PICK m2 \in Nat : Gathered(f, p, k + 1, s, m2, b2, cs, ms, pl, tf, sv)
      BY <1>6, <1>7, <1>10
    <2>2. k + 1 < Count(p)
      BY <1>3, <1>4, <1>10
    <2> QED BY <1>0, <1>2, <2>1, <2>2, CoreOn
  <1> QED BY <1>8, <1>9, <1>10

LEMMA DataStartCore ==
  ASSUME NEW q, NEW r, NEW nx, NEW at, NEW pcv, NEW o0, NEW b, NEW w, NEW cs, NEW ms, NEW pl,
         NEW tf, NEW sv, Core(q, r, nx, at, pcv, o0, b, w, cs, ms, pl, tf, sv),
         pcv = "fetch", at # nx, r[at].type = "data", NEW w2, w2 = r[at].cells,
         NEW cs2, cs2 = IF b = <<>> THEN r[at].sum ELSE cs, NEW pc2, pc2 = "data"
  PROVE  Core(q, r, nx, at, pc2, o0, b, w2, cs2, ms, pl, tf, sv)
  <1>0. pcv # "data"
    OBVIOUS
  <1>a. CanFetch(q, r, nx, at, o0, b, cs, ms, pl, tf, sv)
    BY <1>0, CoreFetch
  <1>1. PICK n \in Nat, s \in Nat, m \in Nat : \E st, ex, c, f, k, p, e0 :
           Fetching(q, r, nx, at, o0, b, cs, ms, pl, tf, sv, n, s, m, st, ex, c, f, k, p, e0)
    BY <1>a, Zenon DEF CanFetch
  <1>b. PICK st, ex, c, f, k, p, e0 :
           Fetching(q, r, nx, at, o0, b, cs, ms, pl, tf, sv, n, s, m, st, ex, c, f, k, p, e0)
    BY <1>1, Zenon
  <1>2. /\ Where(q, r, nx, at, n, st, ex, c, f, k, p, e0)
        /\ o0 = Sent(e0, f, p, s)
        /\ Gathered(f, p, k, s, m, b, cs, ms, pl, tf, sv)
    BY <1>b, Zenon DEF Fetching
  <1>3. f \in Nat /\ GuestPacket(p) /\ k \in Nat
    BY <1>2, WhereIs
  <1>d. PICK d \in Nat : DataHere(r[at], f, p, k, d)
    <2>1. ~ContextHere(r[at], p, k)
      BY ContextIs
    <2> QED BY <1>2, <2>1, WhatIsHere
  <1>4. k = Contexts(p) + d /\ d < Len(p.cuts)
    BY <1>d, DataIs
  <1>5. p.kind # "legacy"
    BY <1>d, DataIs
  <1>6. w2 = DataDesc(f, p, d).cells /\ r[at].sum = p.sum
    BY <1>d, DataIs
  <1>7. Copying(f, p, k, s, m, b, w2, IF b = <<>> THEN p.sum ELSE cs, ms, pl, tf, sv)
    BY <1>2, <1>3, <1>4, <1>5, <1>6, DataRead
  <1>8. Copying(f, p, k, s, m, b, w2, cs2, ms, pl, tf, sv)
    BY <1>6, <1>7, Zenon
  <1> QED BY <1>2, <1>8, CoreStays

-----------------------------------------------------------------------------
(* The loop of process_tdesc(): where the driver is, and what the round    *)
(* copies                                                                  *)
Looping(q, r, nx, at, o0, b, w, cs, ms, pl, tf, sv, n, s, m, st, ex, c, f, k, p, e0) ==
    /\ Where(q, r, nx, at, n, st, ex, c, f, k, p, e0)
    /\ o0 = Sent(e0, f, p, s)
    /\ Copying(f, p, k, s, m, b, w, cs, ms, pl, tf, sv)

Turn(x, b, b2, w2, cs, s, m, f, k, p, d, m2) ==
    /\ f \in Nat /\ GuestPacket(p) /\ k \in Nat /\ k = Contexts(p) + d /\ d < Len(p.cuts)
    /\ Count(p) = Contexts(p) + Len(p.cuts) /\ Contexts(p) \in Nat /\ Len(p.cuts) \in Nat
    /\ Going(f, p, s, m, b, cs) /\ cs = p.sum /\ End(p, d) <= m
    /\ Round(f, p, s, d, m, m2, b2, w2)
    /\ x.eop <=> d + 1 = Len(p.cuts)
    /\ x.tse <=> p.kind = "tse"

CanLoop(q, r, nx, at, o0, b, w, b2, w2, cs, ms, pl, tf, sv) ==
    \E n \in Nat, s \in Nat, m \in Nat, d \in Nat, m2 \in Nat : \E st, ex, c, f, k, p, e0 :
        /\ Looping(q, r, nx, at, o0, b, w, cs, ms, pl, tf, sv, n, s, m, st, ex, c, f, k, p, e0)
        /\ Turn(r[at], b, b2, w2, cs, s, m, f, k, p, d, m2)

LEMMA CoreLoops ==
  ASSUME NEW q, NEW r, NEW nx, NEW at, NEW pcv, NEW o0, NEW b, NEW w, NEW cs, NEW ms, NEW pl,
         NEW tf, NEW sv, Core(q, r, nx, at, pcv, o0, b, w, cs, ms, pl, tf, sv), pcv = "data",
         NEW b2, NEW w2, b2 = More(b, w), w2 = Left(w, Fits(b, w))
  PROVE  CanLoop(q, r, nx, at, o0, b, w, b2, w2, cs, ms, pl, tf, sv)
  <1>1. PICK n \in Nat, s \in Nat, m \in Nat : \E st, ex, c, f, k, p, e0 :
           /\ Where(q, r, nx, at, n, st, ex, c, f, k, p, e0)
           /\ o0 = Sent(e0, f, p, s)
           /\ pcv # "data" => Gathered(f, p, k, s, m, b, cs, ms, pl, tf, sv)
           /\ pcv = "data" => Copying(f, p, k, s, m, b, w, cs, ms, pl, tf, sv)
    BY CoreAt
  <1>2. PICK st, ex, c, f, k, p, e0 :
           /\ Where(q, r, nx, at, n, st, ex, c, f, k, p, e0)
           /\ o0 = Sent(e0, f, p, s)
           /\ pcv = "data" => Copying(f, p, k, s, m, b, w, cs, ms, pl, tf, sv)
    BY <1>1, Zenon
  <1>3. Copying(f, p, k, s, m, b, w, cs, ms, pl, tf, sv)
    BY <1>2
  <1>4. Looping(q, r, nx, at, o0, b, w, cs, ms, pl, tf, sv, n, s, m, st, ex, c, f, k, p, e0)
    BY <1>2, <1>3, Zenon DEF Looping
  <1>5. /\ f \in Nat /\ GuestPacket(p) /\ k \in Nat /\ Contexts(p) \in Nat
        /\ Count(p) = Contexts(p) + Len(p.cuts) /\ Len(p.cuts) \in Nat
    BY <1>2, WhereIs
  <1>6. PICK d \in Nat : DataHere(r[at], f, p, k, d)
    <2>1. ~ContextHere(r[at], p, k)
      <3>1. ASSUME ContextHere(r[at], p, k) PROVE FALSE
        <4>1. p.kind = "tse" /\ k = 0
          BY <3>1, ContextIs
        <4>2. k >= Contexts(p)
          BY <1>3 DEF Copying
        <4> QED BY <4>1, <4>2 DEF Contexts
      <3> QED BY <3>1
    <2> QED BY <1>2, <2>1, WhatIsHere
  <1>7. /\ k = Contexts(p) + d /\ d < Len(p.cuts)
        /\ r[at].eop <=> d + 1 = Len(p.cuts)
        /\ r[at].tse <=> p.kind = "tse"
    BY <1>6, DataIs
  <1>8. Going(f, p, s, m, b, cs) /\ cs = p.sum /\ End(p, d) <= m
    BY <1>3, <1>5, <1>7, CopyingIs
  <1>9. PICK m2 \in Nat : Round(f, p, s, d, m, m2, b2, w2)
    <2>1. PICK m2 \in Nat : Round(f, p, s, d, m, m2, More(b, w), Left(w, Fits(b, w)))
      BY <1>3, <1>5, <1>7, RoundIs
    <2> QED BY <2>1, Zenon
  <1>10. Turn(r[at], b, b2, w2, cs, s, m, f, k, p, d, m2)
    BY <1>5, <1>7, <1>8, <1>9 DEF Turn
  <1> QED BY <1>4, <1>10, Zenon DEF CanLoop

Size(ms, pl) == 1 + (IF ms >= pl THEN pl ELSE ms)

LEMMA SizeIs ==
  ASSUME NEW p, GuestPacket(p), p.kind = "tse", NEW s \in Nat, s < Frames(p),
         NEW ms, NEW pl, NEW tf, NEW sv, SegmentsSet(p, s, ms, pl, tf, sv)
  PROVE  /\ (ms >= pl) = LastOne(p, s) /\ Size(ms, pl) = 1 + Share(p, s)
         /\ (IF ms >= pl THEN pl ELSE ms) = Share(p, s)
         /\ s + 1 = Frames(p) <=> ms >= pl
  <1>1. PICK o \in Nat, y \in Nat, v \in Nat : o = Offset(p, s) /\ y = p.pay /\ v = p.mss
    BY PartIs DEF GuestPacket
  <1>2. ms = v /\ pl = y - o
    BY <1>1 DEF SegmentsSet
  <1>3. PICK l, a : l = LastOne(p, s) /\ a = Share(p, s)
    OBVIOUS
  <1>4. /\ l \in BOOLEAN /\ (l <=> s + 1 = Frames(p)) /\ (l <=> y <= o + v)
        /\ l => a = y - o
        /\ ~l => a = v
    BY <1>1, <1>3, PartIs DEF Flag
  <1>5. (ms >= pl) <=> l
    BY <1>2, <1>4
  <1>6. (ms >= pl) = l
    BY <1>4, <1>5
  <1>7. (IF ms >= pl THEN pl ELSE ms) = a
    BY <1>2, <1>4, <1>5
  <1> QED BY <1>3, <1>4, <1>5, <1>6, <1>7, Zenon DEF Size

(* Nothing is sent in this round. *)
LEMMA DataGathered ==
  ASSUME NEW q, NEW r, NEW nx, NEW at, NEW pcv, NEW o0, NEW b, NEW w, NEW cs, NEW ms, NEW pl,
         NEW tf, NEW sv, Core(q, r, nx, at, pcv, o0, b, w, cs, ms, pl, tf, sv), pcv = "data",
         NEW b2, NEW w2, b2 = More(b, w), w2 = Left(w, Fits(b, w)),
         ~(r[at].tse /\ Len(b2) >= Size(ms, pl)), ~r[at].eop, NEW pc2, pc2 # "data"
  PROVE  w2 = <<>> /\ Core(q, r, nx, Tx!NextIndex(at), pc2, o0, b2, w2, cs, ms, pl, tf, sv)
  <1>a. CanLoop(q, r, nx, at, o0, b, w, b2, w2, cs, ms, pl, tf, sv)
    BY CoreLoops
  <1>1. PICK n \in Nat, s \in Nat, m \in Nat, d \in Nat, m2 \in Nat : \E st, ex, c, f, k, p, e0 :
        /\ Looping(q, r, nx, at, o0, b, w, cs, ms, pl, tf, sv, n, s, m, st, ex, c, f, k, p, e0)
        /\ Turn(r[at], b, b2, w2, cs, s, m, f, k, p, d, m2)
    BY <1>a, Zenon DEF CanLoop
  <1>2. PICK st, ex, c, f, k, p, e0 :
        /\ Looping(q, r, nx, at, o0, b, w, cs, ms, pl, tf, sv, n, s, m, st, ex, c, f, k, p, e0)
        /\ Turn(r[at], b, b2, w2, cs, s, m, f, k, p, d, m2)
    BY <1>1, Zenon
  <1>3. /\ Where(q, r, nx, at, n, st, ex, c, f, k, p, e0)
        /\ o0 = Sent(e0, f, p, s)
        /\ Copying(f, p, k, s, m, b, w, cs, ms, pl, tf, sv)
    BY <1>2, Zenon DEF Looping
  <1>4. /\ f \in Nat /\ GuestPacket(p) /\ k \in Nat /\ k = Contexts(p) + d /\ d < Len(p.cuts)
        /\ Count(p) = Contexts(p) + Len(p.cuts) /\ Contexts(p) \in Nat /\ Len(p.cuts) \in Nat
        /\ d + 1 # Len(p.cuts)
    BY <1>2 DEF Turn
  <1>5. Round(f, p, s, d, m, m2, b2, w2)
    BY <1>2, Zenon DEF Turn
  <1>6. NoneYet(p, s, b2)
    <2> SUFFICES ASSUME p.kind = "tse" PROVE ~(1 + Share(p, s) <= Len(b2))
      BY DEF NoneYet
    <2>1. Going(f, p, s, m, b, cs) /\ r[at].tse
      BY <1>2 DEF Turn
    <2>2. PICK lb \in Nat : lb = Len(b2)
      BY <1>4, <1>5, <2>1, RoundLength
    <2>3. s < Frames(p) /\ SegmentsSet(p, s, ms, pl, tf, sv)
      BY <1>3 DEF Copying, Going
    <2>4. PICK z : z = Size(ms, pl) /\ z = 1 + Share(p, s)
      BY <1>4, <2>3, SizeIs
    <2>5. PICK a \in Nat : a = Share(p, s)
      BY <1>4, <2>3, PartIs
    <2>6. ~(lb >= z)
      BY <2>1, <2>2, <2>4
    <2>7. ~(1 + a <= lb)
      BY <2>4, <2>5, <2>6
    <2> QED BY <2>2, <2>5, <2>7
  <1>7. w2 = <<>> /\ Gathered(f, p, k + 1, s, m2, b2, cs, ms, pl, tf, sv)
    <2>1. OnData(f, p, k, s, m, d, m2)
      BY <1>4 DEF OnData
    <2>2. Copying(f, p, k, s, m, b, w, cs, ms, pl, tf, sv)
      BY <1>3, Zenon
    <2>3. NothingFull(f, p, k, s, m2, b2, w2, cs, ms, pl, tf, sv)
      BY <2>1, <2>2, <1>5, <1>6, NotFullWith, Zenon
    <2> QED BY <2>3, Zenon DEF NothingFull
  <1>8. k + 1 < Count(p)
    BY <1>4
  <1>9. Core(q, r, nx, Tx!NextIndex(at), pc2, o0, b2, w2, cs, ms, pl, tf, sv)
    BY <1>3, <1>7, <1>8, CoreOn
  <1> QED BY <1>7, <1>9

(* When the size of the packet in the buffer matters: one that ends is     *)
(* complete there, and only the last one has its end there.                *)
LEMMA FullOrEnd ==
  ASSUME NEW g \in Nat, NEW p, GuestPacket(p), p.kind = "tse", NEW s \in Nat, NEW m \in Nat,
         NEW b, NEW cs, Going(g, p, s, m, b, cs),
         NEW d \in Nat, d < Len(p.cuts), NEW m2 \in Nat, NEW b2, NEW w2,
         Round(g, p, s, d, m, m2, b2, w2), Len(b2) >= 1 + Share(p, s) \/ d + 1 = Len(p.cuts)
  PROVE  /\ 1 + Share(p, s) <= Len(b2)
         /\ LastOne(p, s) <=> d + 1 = Len(p.cuts)
  <1>1. PICK lb \in Nat : lb = Len(b2)
    BY RoundLength
  <1>2. Rounded(p, s, d, m, m2, lb)
    BY <1>1 DEF Round
  <1>3. /\ d + 1 = Len(p.cuts) => LastOne(p, s) /\ 1 + Share(p, s) <= lb
        /\ d + 1 # Len(p.cuts) /\ 1 + Share(p, s) <= lb => ~LastOne(p, s)
    BY <1>2, FullWhen
  <1>4. PICK a \in Nat : a = Share(p, s)
    BY PartIs DEF Going
  <1>5. 1 + a <= lb
    BY <1>1, <1>3, <1>4
  <1> QED BY <1>1, <1>3, <1>4, <1>5

(* What a round that completes a frame does, packet by packet *)
Completes(p, s, d, ms, pl, b2) ==
    /\ p.kind = "tse" /\ p.sum = TRUE
    /\ (ms >= pl) = LastOne(p, s) /\ (s + 1 = Frames(p) <=> ms >= pl)
    /\ (IF ms >= pl THEN pl ELSE ms) = Share(p, s)
    /\ Len(b2) >= Size(ms, pl) /\ 1 + Share(p, s) <= Len(b2)
    /\ LastOne(p, s) <=> d + 1 = Len(p.cuts)

LEMMA TurnFull ==
  ASSUME NEW x, NEW b, NEW b2, NEW w2, NEW cs, NEW s \in Nat, NEW m \in Nat, NEW f, NEW k, NEW p,
         NEW d \in Nat, NEW m2 \in Nat, Turn(x, b, b2, w2, cs, s, m, f, k, p, d, m2), x.tse,
         NEW ms, NEW pl, NEW tf, NEW sv, SegmentsSet(p, s, ms, pl, tf, sv),
         Len(b2) >= Size(ms, pl) \/ x.eop
  PROVE  Completes(p, s, d, ms, pl, b2)
  <1>1. /\ f \in Nat /\ GuestPacket(p) /\ d < Len(p.cuts) /\ Going(f, p, s, m, b, cs)
        /\ Round(f, p, s, d, m, m2, b2, w2)
        /\ p.kind = "tse" /\ (x.eop <=> d + 1 = Len(p.cuts))
    BY DEF Turn
  <1>2. s < Frames(p)
    BY <1>1 DEF Going
  <1>3. PICK z : z = Size(ms, pl) /\ z = 1 + Share(p, s)
    BY <1>1, <1>2, SizeIs
  <1>4. Len(b2) >= 1 + Share(p, s) \/ d + 1 = Len(p.cuts)
    BY <1>1, <1>3
  <1>5. 1 + Share(p, s) <= Len(b2) /\ (LastOne(p, s) <=> d + 1 = Len(p.cuts))
    BY <1>1, <1>4, FullOrEnd
  <1>6. PICK lb \in Nat, a \in Nat : lb = Len(b2) /\ a = Share(p, s)
    BY <1>1, <1>2, RoundLength, PartIs
  <1>7. Len(b2) >= Size(ms, pl)
    BY <1>3, <1>5, <1>6
  <1>8. p.sum = TRUE
    BY <1>1 DEF GuestPacket
  <1>9. /\ (ms >= pl) = LastOne(p, s) /\ (s + 1 = Frames(p) <=> ms >= pl)
        /\ (IF ms >= pl THEN pl ELSE ms) = Share(p, s)
    BY <1>1, <1>2, SizeIs
  <1> QED BY <1>1, <1>5, <1>7, <1>8, <1>9 DEF Completes

LEMMA TurnSent ==
  ASSUME NEW x, NEW b, NEW b2, NEW w2, NEW cs, NEW s \in Nat, NEW m \in Nat, NEW f, NEW k, NEW p,
         NEW d \in Nat, NEW m2 \in Nat, Turn(x, b, b2, w2, cs, s, m, f, k, p, d, m2),
         p.kind = "tse", 1 + Share(p, s) <= Len(b2),
         NEW fin, fin = LastOne(p, s), NEW a, a = Share(p, s),
         NEW c, c = Tx!Checksum(SetTo(b2[1], a, b2[1].fin /\ fin))
  PROVE  /\ c = Header(f, p, s, a, fin) /\ Passed(c, b2, a) = Part(f, p, s)
         /\ b2[1] = FirstCell(f, p, s)
  <1>1. /\ f \in Nat /\ GuestPacket(p) /\ d < Len(p.cuts) /\ Going(f, p, s, m, b, cs)
        /\ End(p, d) <= m /\ Round(f, p, s, d, m, m2, b2, w2)
    BY DEF Turn
  <1> QED BY <1>1, SegmentSent

LEMMA TurnNext ==
  ASSUME NEW x, NEW b, NEW w, NEW b2, NEW w2, NEW cs, NEW s \in Nat, NEW m \in Nat, NEW f, NEW k, NEW p,
         NEW d \in Nat, NEW m2 \in Nat, Turn(x, b, b2, w2, cs, s, m, f, k, p, d, m2),
         p.kind = "tse", 1 + Share(p, s) <= Len(b2),
         NEW ms, NEW pl, NEW tf, NEW sv, Copying(f, p, k, s, m, b, w, cs, ms, pl, tf, sv),
         NEW c, NEW s1, NEW b3, NEW nt, NEW pl2,
         NextState(f, p, s, c, b2, ms, pl, tf, sv, b3, pl2, nt, s1)
  PROVE  /\ b3 # <<>>
         /\ w2 = <<>> => Gathered(f, p, k + 1, s + 1, m2, b3, cs, ms, pl2, nt, s1)
         /\ w2 # <<>> => Copying(f, p, k, s + 1, m2, b3, w2, cs, ms, pl2, nt, s1)
  <1>1. /\ f \in Nat /\ GuestPacket(p) /\ k \in Nat /\ k = Contexts(p) + d /\ d < Len(p.cuts)
        /\ Round(f, p, s, d, m, m2, b2, w2)
    BY DEF Turn
  <1> QED BY <1>1, NextSegment

LEMMA TurnEnds ==
  ASSUME NEW x, NEW b, NEW w, NEW b2, NEW w2, NEW cs, NEW s \in Nat, NEW m \in Nat, NEW f, NEW k, NEW p,
         NEW d \in Nat, NEW m2 \in Nat, Turn(x, b, b2, w2, cs, s, m, f, k, p, d, m2),
         ~x.tse, x.eop,
         NEW ms, NEW pl, NEW tf, NEW sv, Copying(f, p, k, s, m, b, w, cs, ms, pl, tf, sv)
  PROVE  /\ s = 0 /\ Passed(Plain(p, b2[1]), b2, Len(b2) - 1) = Part(f, p, s)
         /\ p.kind # "tse" /\ d + 1 = Len(p.cuts)
  <1>1. /\ f \in Nat /\ GuestPacket(p) /\ k \in Nat /\ k = Contexts(p) + d /\ d < Len(p.cuts)
        /\ Round(f, p, s, d, m, m2, b2, w2) /\ p.kind # "tse" /\ d + 1 = Len(p.cuts)
    BY DEF Turn
  <1> QED BY <1>1, DataEnds

(* The frame that a turn completes is what is expected next. *)
LEMMA SentMore ==
  ASSUME NEW g \in Nat, NEW p, GuestPacket(p), NEW e0 \in Seq(Seq(TxCell)),
         NEW s \in Nat, s < Frames(p), NEW s2, s2 = s + 1
  PROVE  Append(Sent(e0, g, p, s), Part(g, p, s)) = Sent(e0, g, p, s2)
  BY SentOne

(* A segment that is not the last one *)
Enough(b2, ms, pl) == Len(b2) >= Size(ms, pl)

FrameReady(x, b2, ms, pl) == x.tse /\ (Len(b2) >= Size(ms, pl) \/ x.eop)

SegmentOut(o0, b2, ms, pl, tf, sv, c0, o2, b3, pl2, nt, s1) ==
    /\ ~(ms >= pl)
    /\ c0 = Tx!Checksum(SetTo(b2[1], ms, b2[1].fin /\ (ms >= pl)))
    /\ s1 = IF tf THEN SavedFrom(b2[1]) ELSE sv
    /\ b3 = Framed(Resumed(c0, s1, ms), Tx!Shift(b2, ms + 1))
    /\ pl2 = pl - ms /\ nt = FALSE
    /\ o2 = Append(o0, Passed(c0, b2, ms))

Segmented(q, r, nx, at, o2, b2, b3, w2, cs, ms, pl, pl2, nt, s1) ==
    /\ Enough(b2, ms, pl) /\ cs = Raised /\ b3 # <<>>
    /\ \A on : on # "data" /\ w2 = <<>> => Core(q, r, nx, Tx!NextIndex(at), on, o2, b3, w2, cs, ms, pl2, nt, s1)
    /\ \A on : on = "data" /\ w2 # <<>> => Core(q, r, nx, at, on, o2, b3, w2, cs, ms, pl2, nt, s1)

LEMMA SegmentCore ==
  ASSUME NEW q, NEW r, NEW nx, NEW at, NEW o0, NEW b, NEW w, NEW b2, NEW w2, NEW cs, NEW ms, NEW pl,
         NEW tf, NEW sv, CanLoop(q, r, nx, at, o0, b, w, b2, w2, cs, ms, pl, tf, sv),
         FrameReady(r[at], b2, ms, pl), NEW c0, NEW s1, NEW b3, NEW pl2, NEW nt, NEW o2,
         SegmentOut(o0, b2, ms, pl, tf, sv, c0, o2, b3, pl2, nt, s1)
  PROVE  Segmented(q, r, nx, at, o2, b2, b3, w2, cs, ms, pl, pl2, nt, s1)
  <1> DEFINE fin == (ms >= pl)
  <1>0. /\ r[at].tse /\ (Len(b2) >= Size(ms, pl) \/ r[at].eop) /\ ~(ms >= pl)
        /\ fin = (ms >= pl) /\ c0 = Tx!Checksum(SetTo(b2[1], ms, b2[1].fin /\ fin))
        /\ s1 = IF tf THEN SavedFrom(b2[1]) ELSE sv
        /\ b3 = Framed(Resumed(c0, s1, ms), Tx!Shift(b2, ms + 1))
        /\ pl2 = pl - ms /\ nt = FALSE
        /\ o2 = Append(o0, Passed(c0, b2, ms))
    BY Zenon DEF FrameReady, SegmentOut
  <1> HIDE DEF fin
  <1>1. PICK n \in Nat, s \in Nat, m \in Nat, d \in Nat, m2 \in Nat : \E st, ex, c, f, k, p, e0 :
        /\ Looping(q, r, nx, at, o0, b, w, cs, ms, pl, tf, sv, n, s, m, st, ex, c, f, k, p, e0)
        /\ Turn(r[at], b, b2, w2, cs, s, m, f, k, p, d, m2)
    BY Zenon DEF CanLoop
  <1>2. PICK st, ex, c, f, k, p, e0 :
        /\ Looping(q, r, nx, at, o0, b, w, cs, ms, pl, tf, sv, n, s, m, st, ex, c, f, k, p, e0)
        /\ Turn(r[at], b, b2, w2, cs, s, m, f, k, p, d, m2)
    BY <1>1, Zenon
  <1>3. /\ Where(q, r, nx, at, n, st, ex, c, f, k, p, e0)
        /\ o0 = Sent(e0, f, p, s)
        /\ Copying(f, p, k, s, m, b, w, cs, ms, pl, tf, sv)
    BY <1>2, Zenon DEF Looping
  <1>4. /\ f \in Nat /\ GuestPacket(p) /\ k \in Nat /\ k = Contexts(p) + d /\ d < Len(p.cuts)
        /\ Count(p) = Contexts(p) + Len(p.cuts) /\ Contexts(p) \in Nat /\ Len(p.cuts) \in Nat
        /\ Going(f, p, s, m, b, cs) /\ cs = p.sum /\ End(p, d) <= m
    BY <1>2 DEF Turn
  <1>5. Round(f, p, s, d, m, m2, b2, w2)
    BY <1>2, Zenon DEF Turn
  <1>6. PICK x, a : x = r[at] /\ a = Share(p, s)
    OBVIOUS
  <1>7. Turn(x, b, b2, w2, cs, s, m, f, k, p, d, m2) /\ x.tse /\ (Len(b2) >= Size(ms, pl) \/ x.eop)
    BY <1>0, <1>2, <1>6, Zenon
  <1>8. s < Frames(p) /\ SegmentsSet(p, s, ms, pl, tf, sv)
    BY <1>3 DEF Copying, Going
  <1>c. Completes(p, s, d, ms, pl, b2)
    BY <1>7, <1>8, TurnFull
  <1>9. /\ p.kind = "tse" /\ p.sum = TRUE
        /\ Len(b2) >= Size(ms, pl) /\ 1 + Share(p, s) <= Len(b2)
        /\ LastOne(p, s) <=> d + 1 = Len(p.cuts)
    BY <1>c DEF Completes
  <1>10. fin = LastOne(p, s) /\ ms = a /\ LastOne(p, s) = FALSE
    <2>1. (ms >= pl) = LastOne(p, s) /\ (IF ms >= pl THEN pl ELSE ms) = Share(p, s)
      BY <1>c DEF Completes
    <2>2. ms = a
      BY <1>0, <1>6, <2>1
    <2>3. (ms >= pl) = FALSE
      BY <1>0
    <2> QED BY <1>0, <2>1, <2>2, <2>3, Zenon
  <1>11. d + 1 # Len(p.cuts)
    BY <1>9, <1>10
  <1>12. c0 = Tx!Checksum(SetTo(b2[1], a, b2[1].fin /\ fin))
    BY <1>0, <1>10, Zenon
  <1>13. /\ c0 = Header(f, p, s, a, fin) /\ Passed(c0, b2, a) = Part(f, p, s)
         /\ b2[1] = FirstCell(f, p, s)
    BY <1>6, <1>7, <1>9, <1>10, <1>12, TurnSent
  <1>14. NextState(f, p, s, c0, b2, ms, pl, tf, sv, b3, pl2, nt, s1)
    BY <1>0, <1>6, <1>10, <1>13, Zenon DEF NextState
  <1>15. /\ b3 # <<>>
         /\ w2 = <<>> => Gathered(f, p, k + 1, s + 1, m2, b3, cs, ms, pl2, nt, s1)
         /\ w2 # <<>> => Copying(f, p, k, s + 1, m2, b3, w2, cs, ms, pl2, nt, s1)
    BY <1>3, <1>7, <1>9, <1>14, TurnNext
  <1>16. PICK s2 \in Nat : s2 = s + 1
    OBVIOUS
  <1>17. o2 = Sent(e0, f, p, s2)
    <2>1. e0 \in Seq(Seq(TxCell))
      BY <1>3 DEF Where
    <2>2. Append(Sent(e0, f, p, s), Part(f, p, s)) = Sent(e0, f, p, s2)
      BY <1>4, <1>8, <1>16, <2>1, SentMore
    <2>3. Passed(c0, b2, ms) = Part(f, p, s)
      BY <1>10, <1>13, Zenon
    <2> QED BY <1>0, <1>3, <2>2, <2>3, Zenon
  <1>18. k + 1 < Count(p)
    BY <1>4, <1>11
  <1>19. ASSUME NEW on, on # "data", w2 = <<>>
         PROVE  Core(q, r, nx, Tx!NextIndex(at), on, o2, b3, w2, cs, ms, pl2, nt, s1)
    <2>1. Gathered(f, p, k + 1, s2, m2, b3, cs, ms, pl2, nt, s1)
      BY <1>15, <1>16, <1>19
    <2>2. PICK wx : wx = w2
      OBVIOUS
    <2>3. Core(q, r, nx, Tx!NextIndex(at), on, o2, b3, wx, cs, ms, pl2, nt, s1)
      BY <1>3, <1>17, <1>18, <1>19, <2>1, CoreOn
    <2> QED BY <2>2, <2>3, Zenon
  <1>20. ASSUME NEW on, on = "data", w2 # <<>>
         PROVE  Core(q, r, nx, at, on, o2, b3, w2, cs, ms, pl2, nt, s1)
    <2>1. Copying(f, p, k, s2, m2, b3, w2, cs, ms, pl2, nt, s1)
      BY <1>15, <1>16, <1>20
    <2> QED BY <1>3, <1>17, <1>20, <2>1, CoreStays
  <1>21. Enough(b2, ms, pl) /\ cs = Raised
    BY <1>4, <1>9 DEF Raised, Enough
  <1> QED BY <1>15, <1>19, <1>20, <1>21, Zenon DEF Segmented

(* The last segment *)
LastOut(o0, b2, ms, pl, c0, o2) ==
    /\ ms >= pl
    /\ c0 = Tx!Checksum(SetTo(b2[1], pl, b2[1].fin /\ (ms >= pl)))
    /\ o2 = Append(o0, Passed(c0, b2, pl))

Ended(q, r, nx, at, o2) ==
    \A on, b3, wx, cs, ms, pl, tf, sv :
        on # "data" /\ b3 = <<>> => Core(q, r, nx, Tx!NextIndex(at), on, o2, b3, wx, cs, ms, pl, tf, sv)

LEMMA LastCore ==
  ASSUME NEW q, NEW r, NEW nx, NEW at, NEW o0, NEW b, NEW w, NEW b2, NEW w2, NEW cs, NEW ms, NEW pl,
         NEW tf, NEW sv, CanLoop(q, r, nx, at, o0, b, w, b2, w2, cs, ms, pl, tf, sv),
         FrameReady(r[at], b2, ms, pl), NEW c0, NEW o2, LastOut(o0, b2, ms, pl, c0, o2)
  PROVE  cs = Raised /\ Ended(q, r, nx, at, o2)
  <1> DEFINE fin == (ms >= pl)
  <1>0. /\ r[at].tse /\ (Len(b2) >= Size(ms, pl) \/ r[at].eop) /\ ms >= pl
        /\ fin = (ms >= pl) /\ c0 = Tx!Checksum(SetTo(b2[1], pl, b2[1].fin /\ fin))
        /\ o2 = Append(o0, Passed(c0, b2, pl))
    BY Zenon DEF FrameReady, LastOut
  <1> HIDE DEF fin
  <1>1. PICK n \in Nat, s \in Nat, m \in Nat, d \in Nat, m2 \in Nat : \E st, ex, c, f, k, p, e0 :
        /\ Looping(q, r, nx, at, o0, b, w, cs, ms, pl, tf, sv, n, s, m, st, ex, c, f, k, p, e0)
        /\ Turn(r[at], b, b2, w2, cs, s, m, f, k, p, d, m2)
    BY Zenon DEF CanLoop
  <1>2. PICK st, ex, c, f, k, p, e0 :
        /\ Looping(q, r, nx, at, o0, b, w, cs, ms, pl, tf, sv, n, s, m, st, ex, c, f, k, p, e0)
        /\ Turn(r[at], b, b2, w2, cs, s, m, f, k, p, d, m2)
    BY <1>1, Zenon
  <1>3. /\ Where(q, r, nx, at, n, st, ex, c, f, k, p, e0)
        /\ o0 = Sent(e0, f, p, s)
        /\ Copying(f, p, k, s, m, b, w, cs, ms, pl, tf, sv)
    BY <1>2, Zenon DEF Looping
  <1>4. /\ f \in Nat /\ GuestPacket(p) /\ k \in Nat /\ k = Contexts(p) + d /\ d < Len(p.cuts)
        /\ Count(p) = Contexts(p) + Len(p.cuts) /\ Contexts(p) \in Nat /\ Len(p.cuts) \in Nat
        /\ Going(f, p, s, m, b, cs) /\ cs = p.sum /\ End(p, d) <= m
    BY <1>2 DEF Turn
  <1>5. Round(f, p, s, d, m, m2, b2, w2)
    BY <1>2, Zenon DEF Turn
  <1>6. PICK x, a : x = r[at] /\ a = Share(p, s)
    OBVIOUS
  <1>7. Turn(x, b, b2, w2, cs, s, m, f, k, p, d, m2) /\ x.tse /\ (Len(b2) >= Size(ms, pl) \/ x.eop)
    BY <1>0, <1>2, <1>6, Zenon
  <1>8. SegmentsSet(p, s, ms, pl, tf, sv)
    BY <1>3 DEF Copying
  <1>c. Completes(p, s, d, ms, pl, b2)
    BY <1>7, <1>8, TurnFull
  <1>10. /\ p.kind = "tse" /\ p.sum = TRUE /\ 1 + Share(p, s) <= Len(b2)
         /\ LastOne(p, s) <=> d + 1 = Len(p.cuts)
    BY <1>c DEF Completes
  <1>9. fin = LastOne(p, s) /\ LastOne(p, s) /\ pl = a /\ s + 1 = Frames(p)
    <2>1. (ms >= pl) = LastOne(p, s) /\ (IF ms >= pl THEN pl ELSE ms) = Share(p, s)
      BY <1>c DEF Completes
    <2>2. pl = a /\ LastOne(p, s)
      BY <1>0, <1>6, <2>1
    <2>3. s + 1 = Frames(p)
      BY <1>0, <1>c DEF Completes
    <2> QED BY <1>0, <2>1, <2>2, <2>3, Zenon
  <1>11. d + 1 = Len(p.cuts)
    BY <1>9, <1>10
  <1>12. c0 = Tx!Checksum(SetTo(b2[1], a, b2[1].fin /\ fin))
    BY <1>0, <1>9, Zenon
  <1>13. Passed(c0, b2, a) = Part(f, p, s)
    <2>1. fin = LastOne(p, s) /\ a = Share(p, s)
      BY <1>6, <1>9
    <2>2. p.kind = "tse" /\ 1 + Share(p, s) <= Len(b2)
      BY <1>10
    <2>3. Turn(x, b, b2, w2, cs, s, m, f, k, p, d, m2)
      BY <1>7
    <2> QED BY <1>12, <2>1, <2>2, <2>3, TurnSent
  <1>14. o2 = Append(Sent(e0, f, p, s), Part(f, p, s))
    BY <1>0, <1>3, <1>9, <1>13, Zenon
  <1>15. k + 1 = Count(p)
    BY <1>4, <1>11
  <1>16. ASSUME NEW on, NEW b3, NEW wx, NEW cs2, NEW ms2, NEW pl2, NEW tf2, NEW sv2, on # "data", b3 = <<>>
         PROVE  Core(q, r, nx, Tx!NextIndex(at), on, o2, b3, wx, cs2, ms2, pl2, tf2, sv2)
    BY <1>3, <1>9, <1>14, <1>15, <1>16, CoreSent
  <1>17. cs = Raised
    BY <1>4, <1>10 DEF Raised
  <1> QED BY <1>16, <1>17, Zenon DEF Ended

(* The end of a packet without TSE *)
LEMMA WholeCore ==
  ASSUME NEW q, NEW r, NEW nx, NEW at, NEW pcv, NEW o0, NEW b, NEW w, NEW cs, NEW ms, NEW pl,
         NEW tf, NEW sv, Core(q, r, nx, at, pcv, o0, b, w, cs, ms, pl, tf, sv), pcv = "data",
         NEW b2, NEW w2, b2 = More(b, w), w2 = Left(w, Fits(b, w)),
         ~r[at].tse, r[at].eop,
         NEW c0, c0 = (IF cs THEN Tx!Checksum(b2[1]) ELSE b2[1]),
         NEW z, z = Len(b2) - 1, NEW b3, b3 = <<>>, NEW wx, NEW tf2, NEW sv2,
         NEW o2, o2 = Append(o0, Passed(c0, b2, z)),
         NEW on, on # "data"
  PROVE  Core(q, r, nx, Tx!NextIndex(at), on, o2, b3, wx, cs, ms, pl, tf2, sv2)
  <1>a. CanLoop(q, r, nx, at, o0, b, w, b2, w2, cs, ms, pl, tf, sv)
    BY CoreLoops
  <1>1. PICK n \in Nat, s \in Nat, m \in Nat, d \in Nat, m2 \in Nat : \E st, ex, c, f, k, p, e0 :
        /\ Looping(q, r, nx, at, o0, b, w, cs, ms, pl, tf, sv, n, s, m, st, ex, c, f, k, p, e0)
        /\ Turn(r[at], b, b2, w2, cs, s, m, f, k, p, d, m2)
    BY <1>a, Zenon DEF CanLoop
  <1>2. PICK st, ex, c, f, k, p, e0 :
        /\ Looping(q, r, nx, at, o0, b, w, cs, ms, pl, tf, sv, n, s, m, st, ex, c, f, k, p, e0)
        /\ Turn(r[at], b, b2, w2, cs, s, m, f, k, p, d, m2)
    BY <1>1, Zenon
  <1>3. /\ Where(q, r, nx, at, n, st, ex, c, f, k, p, e0)
        /\ o0 = Sent(e0, f, p, s)
        /\ Copying(f, p, k, s, m, b, w, cs, ms, pl, tf, sv)
    BY <1>2, Zenon DEF Looping
  <1>4. /\ f \in Nat /\ GuestPacket(p) /\ k \in Nat /\ k = Contexts(p) + d /\ d < Len(p.cuts)
        /\ Count(p) = Contexts(p) + Len(p.cuts) /\ Contexts(p) \in Nat /\ Len(p.cuts) \in Nat
        /\ Going(f, p, s, m, b, cs) /\ cs = p.sum /\ End(p, d) <= m
    BY <1>2 DEF Turn
  <1>5. Round(f, p, s, d, m, m2, b2, w2)
    BY <1>2, Zenon DEF Turn
  <1>5x. PICK x : x = r[at]
    OBVIOUS
  <1>6x. Turn(x, b, b2, w2, cs, s, m, f, k, p, d, m2) /\ ~x.tse /\ x.eop
    BY <1>2, <1>5x, Zenon
  <1>7. /\ s = 0 /\ Passed(Plain(p, b2[1]), b2, Len(b2) - 1) = Part(f, p, s)
        /\ p.kind # "tse" /\ d + 1 = Len(p.cuts)
    BY <1>3, <1>6x, TurnEnds
  <1>8. c0 = Plain(p, b2[1])
    BY <1>4, Zenon DEF Plain
  <1>9. o2 = Append(Sent(e0, f, p, s), Part(f, p, s))
    BY <1>3, <1>7, <1>8, Zenon
  <1>10. k + 1 = Count(p)
    BY <1>4, <1>7
  <1>11. s + 1 = Frames(p)
    BY <1>7 DEF Frames
  <1> QED BY <1>3, <1>9, <1>10, <1>11, CoreSent

-----------------------------------------------------------------------------
(* The guest queues a packet while the driver is not in process_tdesc(). *)
LEMMA SumAround ==
  ASSUME NEW n \in Nat \ {0}, NEW a \in Nat, NEW b \in Nat
  PROVE  ((a % n) + b) % n = (a + b) % n
  <1>1. PICK qa \in Int, ra \in 0 .. n - 1 : a = n * qa + ra /\ ra = a % n
    <2>1. a = n * (a \div n) + (a % n) /\ a % n \in 0 .. n - 1 /\ a \div n \in Int
      OBVIOUS
    <2> QED BY <2>1
  <1>2. PICK x \in Int : x = ra + b
    OBVIOUS
  <1>3. PICK qx \in Int, rx \in 0 .. n - 1 : x = n * qx + rx /\ rx = x % n
    <2>1. x = n * (x \div n) + (x % n) /\ x % n \in 0 .. n - 1 /\ x \div n \in Int
      OBVIOUS
    <2> QED BY <2>1
  <1>4. a + b = n * (qa + qx) + rx
    <2>1. n * (qa + qx) = n * qa + n * qx
      OBVIOUS
    <2>2. n * qa \in Int /\ n * qx \in Int
      OBVIOUS
    <2> QED BY <1>1, <1>2, <1>3, <2>1, <2>2
  <1>5. (n * (qa + qx) + rx) % n = rx
    <2>1. qa + qx \in Int
      OBVIOUS
    <2> QED BY <2>1, Remainder
  <1> QED BY <1>1, <1>2, <1>3, <1>4, <1>5

LEMMA LaterEnd ==
  ASSUME NEW a \in Nat, NEW l \in Nat
  PROVE  Wrap(a + l) = (Wrap(a) + l) % RingLen
  BY TxRingSize, SumAround DEF Wrap

LEMMA ExtendIs ==
  ASSUME NEW fn, NEW n \in Nat, NEW v, NEW e, e = Extend(fn, n, v)
  PROVE  e[n + 1] = v /\ \A g \in 0 .. n : e[g] = fn[g]
  <1>1. e[n + 1] = v
    <2>1. n + 1 \in 0 .. n + 1
      OBVIOUS
    <2> QED BY <2>1 DEF Extend
  <1>2. ASSUME NEW g \in 0 .. n PROVE e[g] = fn[g]
    <2>1. g \in 0 .. n + 1 /\ g # n + 1
      OBVIOUS
    <2> QED BY <2>1 DEF Extend
  <1> QED BY <1>1, <1>2

Queueing(q, r, nx, at, p, q2, r2, nx2) ==
    /\ GuestPacket(p)
    /\ q2[Len(q) + 1] = p /\ Len(q2) = Len(q) + 1 /\ \A g \in 1 .. Len(q) : q2[g] = q[g]
    /\ ((nx - at) % RingLen) + Len(Tx!Descriptors(Len(q) + 1, p)) < RingLen
    /\ r2 = Placed(r, nx, Tx!Descriptors(Len(q) + 1, p))
    /\ nx2 = (nx + Len(Tx!Descriptors(Len(q) + 1, p))) % RingLen

LEMMA LocatedQueued ==
  ASSUME NEW q, NEW n \in Nat, NEW r, NEW nx, NEW at, NEW st, NEW ex, NEW c, NEW f, NEW k,
         Located(q, n, r, nx, at, st, ex, c, f, k),
         NEW p, NEW q2, NEW r2, NEW nx2, Queueing(q, r, nx, at, p, q2, r2, nx2)
  PROVE  \E n2 \in Nat : \E st2, ex2 :
           /\ n2 = n + 1 /\ Located(q2, n2, r2, nx2, at, st2, ex2, c, f, k)
           /\ \A g \in 0 .. n : ex2[g] = ex[g]
  <1>1. n = Len(q) /\ Hist(q, n, st, ex) /\ Walk(q, n, st, r, c, f, k) /\ at = Wrap(c) /\ nx = Wrap(st[n])
    BY DEF Located
  <1>2. PICK ds : ds = Tx!Descriptors(n + 1, p)
    OBVIOUS
  <1>3. /\ GuestPacket(p) /\ q2[n + 1] = p /\ Len(q2) = n + 1 /\ \A g \in 1 .. n : q2[g] = q[g]
        /\ ((nx - at) % RingLen) + Len(ds) < RingLen
        /\ r2 = Placed(r, nx, ds) /\ nx2 = (nx + Len(ds)) % RingLen
    BY <1>1, <1>2 DEF Queueing
  <1>4. ((Wrap(st[n]) - Wrap(c)) % RingLen) + Len(Tx!Descriptors(n + 1, p)) < RingLen
    BY <1>1, <1>2, <1>3
  <1>5. PICK s2, e2, x, y : /\ s2 = Extend(st, n, x) /\ x = st[n] + Count(p)
                            /\ e2 = Extend(ex, n, y) /\ y = ex[n] \o Tx!Expected(n + 1, p)
    OBVIOUS
  <1>6. Hist(q2, n + 1, s2, e2)
    <2>1. Hist(q2, n + 1, Extend(st, n, st[n] + Count(p)), Extend(ex, n, ex[n] \o Tx!Expected(n + 1, p)))
      BY <1>1, <1>3, HistMore
    <2> QED BY <1>5, <2>1
  <1>7. Walk(q2, n + 1, s2, r2, c, f, k) /\ Len(ds) = Count(p)
    <2>1. /\ Walk(q2, n + 1, Extend(st, n, st[n] + Count(p)),
                  Placed(r, Wrap(st[n]), Tx!Descriptors(n + 1, p)), c, f, k)
          /\ Len(Tx!Descriptors(n + 1, p)) = Count(p)
      BY <1>1, <1>3, <1>4, WalkQueued
    <2>2. Placed(r, Wrap(st[n]), Tx!Descriptors(n + 1, p)) = r2
      BY <1>1, <1>2, <1>3, Zenon
    <2>3. Extend(st, n, st[n] + Count(p)) = s2
      BY <1>5, Zenon
    <2> QED BY <1>2, <2>1, <2>2, <2>3, Zenon
  <1>8. nx2 = Wrap(s2[n + 1])
    <2>1. PICK a \in Nat, l \in Nat : a = st[n] /\ l = Count(p)
      BY <1>1, <1>3, HistIs, CountIs
    <2>2. s2[n + 1] = a + l
      BY <1>5, <2>1, ExtendIs
    <2>3. nx2 = (Wrap(a) + l) % RingLen
      BY <1>1, <1>3, <1>7, <2>1
    <2> QED BY <2>1, <2>2, <2>3, LaterEnd
  <1>9. \A g \in 0 .. n : e2[g] = ex[g]
    BY <1>5, ExtendIs
  <1>10. PICK n2 \in Nat : n2 = n + 1
    OBVIOUS
  <1>11. n2 = Len(q2) /\ nx2 = Wrap(s2[n2]) /\ Hist(q2, n2, s2, e2) /\ Walk(q2, n2, s2, r2, c, f, k)
    BY <1>3, <1>6, <1>7, <1>8, <1>10
  <1>12. Located(q2, n2, r2, nx2, at, s2, e2, c, f, k)
    BY <1>1, <1>11 DEF Located
  <1> QED BY <1>9, <1>10, <1>12

LEMMA QueueCore ==
  ASSUME NEW q, NEW r, NEW nx, NEW at, NEW pcv, pcv # "data", NEW o0, NEW b, NEW w, NEW cs, NEW ms, NEW pl,
         NEW tf, NEW sv, Core(q, r, nx, at, pcv, o0, b, w, cs, ms, pl, tf, sv),
         NEW p, NEW q2, NEW r2, NEW nx2, Queueing(q, r, nx, at, p, q2, r2, nx2)
  PROVE  Core(q2, r2, nx2, at, pcv, o0, b, w, cs, ms, pl, tf, sv)
  <1>1. PICK n \in Nat, s \in Nat, m \in Nat : \E st, ex, c, f, k :
           /\ Located(q, n, r, nx, at, st, ex, c, f, k)
           /\ Spot(q, n, ex, f, k, s, m, pcv, o0, b, w, cs, ms, pl, tf, sv)
    BY DEF Core
  <1>2. PICK st, ex, c, f, k :
           /\ Located(q, n, r, nx, at, st, ex, c, f, k)
           /\ Spot(q, n, ex, f, k, s, m, pcv, o0, b, w, cs, ms, pl, tf, sv)
    BY <1>1
  <1>q. PICK n2 \in Nat : \E st2, ex2 :
           /\ n2 = n + 1 /\ Located(q2, n2, r2, nx2, at, st2, ex2, c, f, k)
           /\ \A g \in 0 .. n : ex2[g] = ex[g]
    BY <1>2, LocatedQueued
  <1>3. PICK st2, ex2 :
           /\ n2 = n + 1 /\ Located(q2, n2, r2, nx2, at, st2, ex2, c, f, k)
           /\ \A g \in 0 .. n : ex2[g] = ex[g]
    BY <1>q
  <1>4. Hist(q, n, st, ex) /\ Walk(q, n, st, r, c, f, k)
    BY <1>2 DEF Located
  <1>5. CASE f = n + 1
    <2>1. k = 0
      BY <1>4, <1>5 DEF Walk
    <2>2. b = <<>> /\ o0 = ex[n]
      BY <1>2, <1>5 DEF Spot
    <2>3. o0 = ex2[f - 1]
      <3>1. f - 1 = n /\ n \in 0 .. n
        BY <1>5
      <3> QED BY <1>3, <2>2, <3>1
    <2> QED BY <1>3, <2>1, <2>2, <2>3, CoreBetween
  <1>6. CASE f # n + 1
    <2>1. f \in 1 .. n
      BY <1>4, <1>6, WalkBounds
    <2>2. f - 1 \in 0 .. n /\ f # n2 + 1
      BY <1>3, <2>1
    <2>3. q2[f] = q[f]
      <3>1. n = Len(q)
        BY <1>2 DEF Located
      <3> QED BY <2>1, <3>1 DEF Queueing
    <2>4. ex2[f - 1] = ex[f - 1]
      BY <1>3, <2>2
    <2>5. /\ o0 = Sent(ex[f - 1], f, q[f], s)
          /\ pcv # "data" => Gathered(f, q[f], k, s, m, b, cs, ms, pl, tf, sv)
          /\ pcv = "data" => Copying(f, q[f], k, s, m, b, w, cs, ms, pl, tf, sv)
      BY <1>2, <1>6, Zenon DEF Spot
    <2>6. Spot(q2, n2, ex2, f, k, s, m, pcv, o0, b, w, cs, ms, pl, tf, sv)
      BY <2>2, <2>3, <2>4, <2>5, Zenon DEF Spot
    <2> QED BY <1>3, <2>6, Zenon DEF Core
  <1> QED BY <1>5, <1>6

-----------------------------------------------------------------------------
(* The invariant of module GuestTx, and the steps that keep it *)
GtInv ==
    /\ queued \in Seq(Packet) /\ txpc \in {"idle", "fetch", "data"}
    /\ txpc # "idle" => txtail = next
    /\ Core(queued, ring, next, IF txpc = "idle" THEN txhead ELSE i, txpc, txout, buf, rest,
            csum, mss, paylen, tse_first, saved)

LEMMA CoreElse ==
  ASSUME NEW q, NEW r, NEW nx, NEW at, NEW pcv, pcv # "data", NEW o0, NEW b, NEW w, NEW cs, NEW ms, NEW pl,
         NEW tf, NEW sv, Core(q, r, nx, at, pcv, o0, b, w, cs, ms, pl, tf, sv),
         NEW pc2, pc2 # "data", NEW w2
  PROVE  Core(q, r, nx, at, pc2, o0, b, w2, cs, ms, pl, tf, sv)
  <1>1. PICK n \in Nat, s \in Nat, m \in Nat : \E st, ex, c, f, k :
           /\ Located(q, n, r, nx, at, st, ex, c, f, k)
           /\ Spot(q, n, ex, f, k, s, m, pcv, o0, b, w, cs, ms, pl, tf, sv)
    BY DEF Core
  <1>2. PICK st, ex, c, f, k :
           /\ Located(q, n, r, nx, at, st, ex, c, f, k)
           /\ Spot(q, n, ex, f, k, s, m, pcv, o0, b, w, cs, ms, pl, tf, sv)
    BY <1>1
  <1>3. Spot(q, n, ex, f, k, s, m, pc2, o0, b, w2, cs, ms, pl, tf, sv)
    BY <1>2, Zenon DEF Spot
  <1> QED BY <1>2, <1>3, Zenon DEF Core

LEMMA GtInit ==
  ASSUME Tx!Init
  PROVE  GtInv
  <1>1. /\ queued = <<>> /\ next = 0 /\ txhead = 0 /\ txpc = "idle" /\ buf = <<>> /\ txout = <<>>
    BY DEF Tx!Init
  <1>2. PICK n \in Nat : n = 0
    OBVIOUS
  <1>3. PICK st, ex, c, f, k : /\ st = [g \in 0 .. n |-> 0] /\ ex = [g \in 0 .. n |-> <<>>]
                              /\ c = 0 /\ f = n + 1 /\ k = 0
    OBVIOUS
  <1>4. Hist(queued, n, st, ex)
    <2>1. <<>> \in Seq(Seq(TxCell)) /\ n \in 0 .. n /\ 1 .. n = {} /\ 0 = n
      BY <1>2
    <2>2. st[0] = 0 /\ ex[0] = <<>>
      BY <1>3, <2>1
    <2> QED BY <1>3, <2>1, <2>2 DEF Hist
  <1>5. Walk(queued, n, st, ring, c, f, k)
    <2>1. /\ f \in 1 .. n + 1 /\ k \in Nat /\ f - 1 = n /\ f - 1 \in 0 .. n
          /\ 1 .. n = {} /\ n \in 0 .. n
      BY <1>2, <1>3
    <2>2. st[f - 1] = 0 /\ st[n] = 0
      BY <1>3, <2>1
    <2>3. Described(queued, n, st, ring, c)
      BY <2>1 DEF Described
    <2>4. c = st[f - 1] + k /\ st[n] - c < RingLen
      BY <1>3, <2>2, TxRingSize
    <2> QED BY <1>3, <2>1, <2>3, <2>4 DEF Walk
  <1>6. Wrap(c) = 0 /\ Wrap(st[n]) = 0 /\ ex[f - 1] = <<>>
    <2>1. n \in 0 .. n /\ f - 1 = n
      BY <1>2, <1>3
    <2>2. st[n] = 0 /\ ex[f - 1] = <<>>
      BY <1>3, <2>1
    <2>3. 0 % RingLen = 0
      <3>1. 0 \in 0 .. RingLen - 1
        BY TxRingSize
      <3> QED BY <3>1, TxRingSize, SmallRemainder
    <2> QED BY <1>3, <2>2, <2>3 DEF Wrap
  <1>7. Located(queued, n, ring, next, txhead, st, ex, c, f, k)
    <2>1. n = Len(queued)
      BY <1>1, <1>2
    <2> QED BY <1>1, <1>4, <1>5, <1>6, <2>1 DEF Located
  <1>8. txout = ex[f - 1] /\ txpc # "data"
    BY <1>1, <1>6
  <1>9. Core(queued, ring, next, txhead, txpc, txout, buf, rest, csum, mss, paylen, tse_first, saved)
    BY <1>1, <1>3, <1>7, <1>8, CoreBetween
  <1>10. queued \in Seq(Packet)
    BY <1>1
  <1> QED BY <1>1, <1>9, <1>10 DEF GtInv

LEMMA GtEnable ==
  ASSUME GtInv, Tx!Enable
  PROVE  GtInv'
  <1>1. /\ txhead' = txhead /\ txtail' = txtail /\ txpc' = txpc /\ i' = i
        /\ queued' = queued /\ ring' = ring /\ next' = next
    BY DEF Tx!Enable
  <1>2. /\ txout' = txout /\ buf' = buf /\ rest' = rest /\ csum' = csum
        /\ mss' = mss /\ paylen' = paylen /\ tse_first' = tse_first /\ saved' = saved
    BY DEF Tx!Enable, Tx!tse
  <1> QED BY <1>1, <1>2 DEF GtInv

LEMMA GtWriteTail ==
  ASSUME GtInv, Tx!WriteTail
  PROVE  GtInv'
  <1>1. /\ txpc = "idle" /\ txtail' = next /\ i' = txhead /\ txpc' \in {"idle", "fetch"} /\ txhead' = txhead
        /\ queued' = queued /\ ring' = ring /\ next' = next
    BY DEF Tx!WriteTail, Tx!guest
  <1>2. /\ txout' = txout /\ buf' = buf /\ rest' = rest /\ csum' = csum
        /\ mss' = mss /\ paylen' = paylen /\ tse_first' = tse_first /\ saved' = saved
    BY DEF Tx!WriteTail, Tx!tse
  <1>3. Core(queued, ring, next, txhead, txpc, txout, buf, rest, csum, mss, paylen, tse_first, saved)
    BY <1>1 DEF GtInv
  <1>4. PICK old, new : old = txpc /\ new = txpc' /\ old # "data" /\ new # "data"
    BY <1>1
  <1>5. Core(queued, ring, next, txhead, new, txout, buf, rest, csum, mss, paylen, tse_first, saved)
    BY <1>3, <1>4, CoreElse
  <1>6. (IF txpc' = "idle" THEN txhead' ELSE i') = txhead
    BY <1>1
  <1>7. queued \in Seq(Packet)
    BY DEF GtInv
  <1> QED BY <1>1, <1>2, <1>4, <1>5, <1>6, <1>7 DEF GtInv

LEMMA GtFinish ==
  ASSUME GtInv, Tx!Finish
  PROVE  GtInv'
  <1>1. /\ txpc = "fetch" /\ txpc' = "idle" /\ txhead' = i /\ i' = i
        /\ queued' = queued /\ ring' = ring /\ next' = next
    BY DEF Tx!Finish, Tx!guest
  <1>2. /\ txout' = txout /\ buf' = buf /\ rest' = rest /\ csum' = csum
        /\ mss' = mss /\ paylen' = paylen /\ tse_first' = tse_first /\ saved' = saved
    BY DEF Tx!Finish, Tx!tse
  <1>3. Core(queued, ring, next, i, txpc, txout, buf, rest, csum, mss, paylen, tse_first, saved)
    BY <1>1 DEF GtInv
  <1>4. PICK old, new : old = txpc /\ new = txpc' /\ old # "data" /\ new # "data"
    BY <1>1
  <1>5. Core(queued, ring, next, i, new, txout, buf, rest, csum, mss, paylen, tse_first, saved)
    BY <1>3, <1>4, CoreElse
  <1>6. (IF txpc' = "idle" THEN txhead' ELSE i') = i
    BY <1>1
  <1>7. queued \in Seq(Packet)
    BY DEF GtInv
  <1> QED BY <1>1, <1>2, <1>4, <1>5, <1>6, <1>7 DEF GtInv

LEMMA GtQueue ==
  ASSUME GtInv, NEW p \in Packet, Tidy(p), Tx!Queue(p)
  PROVE  GtInv'
  <1>1. PICK ds : /\ ds = Tx!Descriptors(Len(queued) + 1, p)
                  /\ txpc = "idle" /\ ((next - txhead) % RingLen) + Len(ds) < RingLen
                  /\ ring' = Placed(ring, next, ds) /\ next' = (next + Len(ds)) % RingLen
                  /\ queued' = Append(queued, p)
    BY Zenon DEF Tx!Queue, Placed
  <1>2. /\ txhead' = txhead /\ txpc' = txpc /\ txout' = txout /\ buf' = buf /\ rest' = rest /\ csum' = csum
        /\ mss' = mss /\ paylen' = paylen /\ tse_first' = tse_first /\ saved' = saved
    BY DEF Tx!Queue, Tx!tse
  <1>3. PICK q : q = queued /\ q \in Seq(Packet)
    BY DEF GtInv
  <1>4. PICK q2, r2, nx2 : q2 = queued' /\ r2 = ring' /\ nx2 = next'
    OBVIOUS
  <1>5. PICK l \in Nat : l = Len(q)
    BY <1>3
  <1>6. q2 \in Seq(Packet) /\ q2[l + 1] = p /\ Len(q2) = l + 1 /\ \A g \in 1 .. l : q2[g] = q[g]
    BY <1>1, <1>3, <1>4, <1>5
  <1>7. Queueing(q, ring, next, txhead, p, q2, r2, nx2)
    BY <1>1, <1>3, <1>4, <1>5, <1>6, GuestPackets, Zenon DEF Queueing
  <1>8. Core(q, ring, next, txhead, txpc, txout, buf, rest, csum, mss, paylen, tse_first, saved)
    BY <1>1, <1>3 DEF GtInv
  <1>9. PICK pcv : pcv = txpc /\ pcv # "data" /\ pcv = "idle"
    BY <1>1
  <1>10. Core(q2, r2, nx2, txhead, pcv, txout, buf, rest, csum, mss, paylen, tse_first, saved)
    BY <1>7, <1>8, <1>9, QueueCore
  <1>11. (IF txpc' = "idle" THEN txhead' ELSE i') = txhead
    BY <1>1, <1>2
  <1> QED BY <1>1, <1>2, <1>4, <1>6, <1>9, <1>10, <1>11 DEF GtInv

(* The state in process_tdesc() *)
LEMMA GtCore ==
  ASSUME GtInv, txpc # "idle"
  PROVE  /\ queued \in Seq(Packet) /\ txtail = next
         /\ Core(queued, ring, next, i, txpc, txout, buf, rest, csum, mss, paylen, tse_first, saved)
  BY DEF GtInv

LEMMA GtContext ==
  ASSUME GtInv, Tx!Context
  PROVE  GtInv'
  <1>1. /\ txpc = "fetch" /\ i # txtail /\ ring[i].type = "context"
        /\ mss' = ring[i].mss /\ paylen' = ring[i].paylen /\ tse_first' = TRUE
        /\ i' = Tx!NextIndex(i) /\ txpc' = txpc /\ txtail' = txtail
    BY DEF Tx!Context, Tx!IsType
  <1>2. /\ queued' = queued /\ ring' = ring /\ next' = next /\ txout' = txout /\ buf' = buf
        /\ rest' = rest /\ csum' = csum /\ saved' = saved
    BY DEF Tx!Context, Tx!guest
  <1>3. /\ queued \in Seq(Packet) /\ txtail = next
        /\ Core(queued, ring, next, i, txpc, txout, buf, rest, csum, mss, paylen, tse_first, saved)
    BY <1>1, GtCore
  <1>4. PICK tr, ms2, pl2, at2 : /\ tr = TRUE /\ tr = tse_first' /\ ms2 = mss' /\ pl2 = paylen' /\ at2 = i'
    BY <1>1
  <1>5. Core(queued, ring, next, Tx!NextIndex(i), txpc, txout, buf, rest, csum,
             ring[i].mss, ring[i].paylen, tr, saved)
    <2>1. i # next /\ txpc = "fetch" /\ ring[i].type = "context" /\ tr = TRUE
      BY <1>1, <1>3, <1>4
    <2> QED BY <1>3, <2>1, ContextCore
  <1>6. Core(queued, ring, next, at2, txpc, txout, buf, rest, csum, ms2, pl2, tr, saved)
    BY <1>1, <1>4, <1>5, Zenon
  <1>7. (IF txpc' = "idle" THEN txhead' ELSE i') = at2
    BY <1>1, <1>4
  <1> QED BY <1>1, <1>2, <1>3, <1>4, <1>6, <1>7 DEF GtInv

LEMMA GtLegacy ==
  ASSUME GtInv, Tx!Legacy
  PROVE  GtInv'
  <1>1. /\ txpc = "fetch" /\ i # txtail /\ ring[i].type = "legacy"
        /\ i' = Tx!NextIndex(i) /\ txpc' = txpc /\ txtail' = txtail
    BY DEF Tx!Legacy, Tx!IsType
  <1>2. /\ queued' = queued /\ ring' = ring /\ next' = next
        /\ rest' = rest /\ csum' = csum
        /\ mss' = mss /\ paylen' = paylen /\ tse_first' = tse_first /\ saved' = saved
    BY DEF Tx!Legacy, Tx!guest, Tx!tse
  <1>3. /\ queued \in Seq(Packet) /\ txtail = next
        /\ Core(queued, ring, next, i, txpc, txout, buf, rest, csum, mss, paylen, tse_first, saved)
    BY <1>1, GtCore
  <1>4. PICK b2 : b2 = More(buf, ring[i].cells)
    OBVIOUS
  <1>5. IF ring[i].eop THEN txout' = Append(txout, b2) /\ buf' = <<>>
                       ELSE buf' = b2 /\ txout' = txout
    BY <1>4, Zenon DEF Tx!Legacy, Tx!Copied, More, Fits
  <1>6. /\ ring[i].eop => Core(queued, ring, next, Tx!NextIndex(i), txpc, Append(txout, b2), <<>>, rest, csum, mss, paylen, tse_first, saved)
        /\ ~ring[i].eop => Core(queued, ring, next, Tx!NextIndex(i), txpc, txout, b2, rest, csum, mss, paylen, tse_first, saved)
    <2>1. i # next
      BY <1>1, <1>3
    <2> QED BY <1>1, <1>3, <1>4, <2>1, LegacyCore
  <1>7. PICK at2, o2, b3 : at2 = i' /\ o2 = txout' /\ b3 = buf'
    OBVIOUS
  <1>8. Core(queued, ring, next, at2, txpc, o2, b3, rest, csum, mss, paylen, tse_first, saved)
    <2>1. CASE ring[i].eop
      BY <1>1, <1>5, <1>6, <1>7, <2>1, Zenon
    <2>2. CASE ~ring[i].eop
      BY <1>1, <1>5, <1>6, <1>7, <2>2, Zenon
    <2> QED BY <2>1, <2>2
  <1>9. (IF txpc' = "idle" THEN txhead' ELSE i') = at2
    BY <1>1, <1>7
  <1> QED BY <1>1, <1>2, <1>3, <1>7, <1>8, <1>9 DEF GtInv

LEMMA GtDataStart ==
  ASSUME GtInv, Tx!DataStart
  PROVE  GtInv'
  <1>1. /\ txpc = "fetch" /\ i # txtail /\ ring[i].type = "data"
        /\ csum' = (IF buf = <<>> THEN ring[i].sum ELSE csum) /\ rest' = ring[i].cells
        /\ i' = i /\ txpc' = "data" /\ txtail' = txtail
    BY DEF Tx!DataStart, Tx!IsType
  <1>2. /\ queued' = queued /\ ring' = ring /\ next' = next /\ txout' = txout /\ buf' = buf
        /\ mss' = mss /\ paylen' = paylen /\ tse_first' = tse_first /\ saved' = saved
    BY DEF Tx!DataStart, Tx!guest, Tx!tse
  <1>3. /\ queued \in Seq(Packet) /\ txtail = next
        /\ Core(queued, ring, next, i, txpc, txout, buf, rest, csum, mss, paylen, tse_first, saved)
    BY <1>1, GtCore
  <1>4. PICK pc2, w2, cs2 : pc2 = txpc' /\ w2 = rest' /\ cs2 = csum'
    OBVIOUS
  <1>5. /\ i # next /\ w2 = ring[i].cells /\ pc2 = "data"
        /\ cs2 = (IF buf = <<>> THEN ring[i].sum ELSE csum)
    BY <1>1, <1>3, <1>4
  <1>6. Core(queued, ring, next, i, pc2, txout, buf, w2, cs2, mss, paylen, tse_first, saved)
    BY <1>1, <1>3, <1>5, DataStartCore
  <1>7. (IF txpc' = "idle" THEN txhead' ELSE i') = i
    BY <1>1
  <1> QED BY <1>1, <1>2, <1>3, <1>4, <1>6, <1>7 DEF GtInv

(* The sizes that the loop computes with *)
LEMMA SizeNumber ==
  ASSUME NEW q, NEW r, NEW nx, NEW at, NEW pcv, NEW o0, NEW b, NEW w, NEW cs, NEW ms, NEW pl,
         NEW tf, NEW sv, Core(q, r, nx, at, pcv, o0, b, w, cs, ms, pl, tf, sv), pcv = "data",
         NEW b2, NEW w2, b2 = More(b, w), w2 = Left(w, Fits(b, w)),
         r[at].tse, Len(b2) >= Size(ms, pl) \/ r[at].eop
  PROVE  (IF ms >= pl THEN pl ELSE ms) \in Nat
  <1>a. CanLoop(q, r, nx, at, o0, b, w, b2, w2, cs, ms, pl, tf, sv)
    BY CoreLoops
  <1>1. PICK n \in Nat, s \in Nat, m \in Nat, d \in Nat, m2 \in Nat : \E st, ex, c, f, k, p, e0 :
        /\ Looping(q, r, nx, at, o0, b, w, cs, ms, pl, tf, sv, n, s, m, st, ex, c, f, k, p, e0)
        /\ Turn(r[at], b, b2, w2, cs, s, m, f, k, p, d, m2)
    BY <1>a, Zenon DEF CanLoop
  <1>2. PICK st, ex, c, f, k, p, e0 :
        /\ Looping(q, r, nx, at, o0, b, w, cs, ms, pl, tf, sv, n, s, m, st, ex, c, f, k, p, e0)
        /\ Turn(r[at], b, b2, w2, cs, s, m, f, k, p, d, m2)
    BY <1>1, Zenon
  <1>3. /\ Where(q, r, nx, at, n, st, ex, c, f, k, p, e0)
        /\ o0 = Sent(e0, f, p, s)
        /\ Copying(f, p, k, s, m, b, w, cs, ms, pl, tf, sv)
    BY <1>2, Zenon DEF Looping
  <1>4. /\ f \in Nat /\ GuestPacket(p) /\ k \in Nat /\ k = Contexts(p) + d /\ d < Len(p.cuts)
        /\ Count(p) = Contexts(p) + Len(p.cuts) /\ Contexts(p) \in Nat /\ Len(p.cuts) \in Nat
        /\ Going(f, p, s, m, b, cs) /\ cs = p.sum /\ End(p, d) <= m
    BY <1>2 DEF Turn
  <1>5. Round(f, p, s, d, m, m2, b2, w2)
    BY <1>2, Zenon DEF Turn
  <1>6. PICK x : x = r[at]
    OBVIOUS
  <1>7. Turn(x, b, b2, w2, cs, s, m, f, k, p, d, m2) /\ x.tse /\ (Len(b2) >= Size(ms, pl) \/ x.eop)
    BY <1>2, <1>6, Zenon
  <1>8. s < Frames(p) /\ SegmentsSet(p, s, ms, pl, tf, sv)
    BY <1>3 DEF Copying, Going
  <1>9. Completes(p, s, d, ms, pl, b2)
    BY <1>7, <1>8, TurnFull
  <1>10. (IF ms >= pl THEN pl ELSE ms) = Share(p, s)
    BY <1>9 DEF Completes
  <1>11. Share(p, s) \in Nat
    BY <1>4, <1>8, PartIs
  <1> QED BY <1>10, <1>11

(* DataLoop in these terms *)
LEMMA LoopParts ==
  ASSUME Tx!DataLoop, NEW x, x = ring[i], NEW b2, b2 = More(buf, rest),
         NEW w2, w2 = Left(rest, Fits(buf, rest)), NEW full, full = (x.tse /\ Len(b2) >= Size(mss, paylen))
  PROVE  /\ txpc = "data" /\ rest' = w2
         /\ IF full \/ x.eop
            THEN Tx!Send(b2, x.tse, full, IF x.tse THEN Size(mss, paylen) ELSE Len(b2))
            ELSE buf' = b2 /\ UNCHANGED <<Tx!tse, txout>>
         /\ IF rest' # <<>> /\ buf' # <<>>
            THEN UNCHANGED <<txpc, i>>
            ELSE txpc' = "fetch" /\ i' = Tx!NextIndex(i)
         /\ UNCHANGED <<Tx!guest, txhead, txtail, csum>>
  BY Zenon DEF Tx!DataLoop, More, Left, Fits, Tx!Copied, Size, Tx!dextsize, Tx!dextlast

LEMMA SendParts ==
  ASSUME NEW b2, NEW istse, NEW full, NEW size, Tx!Send(b2, istse, full, size),
         NEW h1, h1 = (IF istse THEN SetTo(b2[1], IF mss >= paylen THEN paylen ELSE mss, b2[1].fin /\ (mss >= paylen))
                                ELSE b2[1]),
         NEW h2, h2 = (IF csum THEN Tx!Checksum(h1) ELSE h1),
         NEW s1, s1 = (IF full /\ tse_first THEN SavedFrom(b2[1]) ELSE saved)
  PROVE  /\ txout' = Append(txout, Passed(h2, b2, size - 1))
         /\ saved' = s1 /\ tse_first' = (tse_first /\ ~full) /\ mss' = mss
         /\ IF istse /\ ~(mss >= paylen)
            THEN buf' = Framed(Resumed(h2, s1, mss), Tx!Shift(b2, size)) /\ paylen' = paylen - mss
            ELSE buf' = <<>> /\ paylen' = paylen
  BY Zenon DEF Tx!Send, Tx!SetHeader, Tx!SaveHeader, Tx!NextHeader, Tx!dextlast, SetTo, SavedFrom,
               Passed, After, Framed, Resumed, Restored

LEMMA GtLoopSame ==
  ASSUME Tx!DataLoop
  PROVE  /\ txpc = "data" /\ queued' = queued /\ ring' = ring /\ next' = next
         /\ txhead' = txhead /\ txtail' = txtail /\ csum' = csum
  BY DEF Tx!DataLoop, Tx!guest

(* What the step leaves, on the next descriptor or on this one *)
Passing(moved) ==
    /\ IF moved THEN txpc' = "fetch" /\ i' = Tx!NextIndex(i) ELSE txpc' = txpc /\ i' = i
    /\ Core(queued, ring, next, IF moved THEN Tx!NextIndex(i) ELSE i, txpc', txout', buf', rest',
            csum, mss', paylen', tse_first', saved')

LEMMA GtPassing ==
  ASSUME GtInv, Tx!DataLoop, NEW moved, Passing(moved)
  PROVE  GtInv'
  <1>1. /\ txpc = "data" /\ queued' = queued /\ ring' = ring /\ next' = next
        /\ txhead' = txhead /\ txtail' = txtail /\ csum' = csum
    BY GtLoopSame
  <1>2. queued \in Seq(Packet) /\ txtail = next
    BY <1>1, GtCore
  <1>3. PICK at2 : at2 = IF moved THEN Tx!NextIndex(i) ELSE i
    OBVIOUS
  <1>4. at2 = i' /\ txpc' \in {"fetch", "data"} /\ (txpc' = "fetch" \/ txpc' = "data")
    BY <1>1, <1>3 DEF Passing
  <1>5. Core(queued, ring, next, at2, txpc', txout', buf', rest', csum, mss', paylen', tse_first', saved')
    BY <1>3, Zenon DEF Passing
  <1>6. (IF txpc' = "idle" THEN txhead' ELSE i') = at2 /\ txpc' \in {"idle", "fetch", "data"}
    BY <1>4
  <1>7. Core(queued', ring', next', IF txpc' = "idle" THEN txhead' ELSE i', txpc', txout', buf', rest',
             csum', mss', paylen', tse_first', saved')
    BY <1>1, <1>5, <1>6, Zenon
  <1>8. queued' \in Seq(Packet) /\ txtail' = next'
    BY <1>1, <1>2
  <1> QED BY <1>6, <1>7, <1>8, Zenon DEF GtInv

LEMMA GtDataLoop ==
  ASSUME GtInv, Tx!DataLoop
  PROVE  GtInv'
  <1>1. txpc = "data"
    BY GtLoopSame
  <1>2. Core(queued, ring, next, i, txpc, txout, buf, rest, csum, mss, paylen, tse_first, saved)
    BY <1>1, GtCore
  <1>3. PICK x, b2, w2 : x = ring[i] /\ b2 = More(buf, rest) /\ w2 = Left(rest, Fits(buf, rest))
    OBVIOUS
  <1>l. CanLoop(queued, ring, next, i, txout, buf, rest, b2, w2, csum, mss, paylen, tse_first, saved)
    BY <1>1, <1>2, <1>3, CoreLoops
  <1>4. PICK full : full = (x.tse /\ Len(b2) >= Size(mss, paylen))
    OBVIOUS
  <1>5. /\ rest' = w2
        /\ IF full \/ x.eop
           THEN Tx!Send(b2, x.tse, full, IF x.tse THEN Size(mss, paylen) ELSE Len(b2))
           ELSE buf' = b2 /\ UNCHANGED <<Tx!tse, txout>>
        /\ IF rest' # <<>> /\ buf' # <<>>
           THEN UNCHANGED <<txpc, i>>
           ELSE txpc' = "fetch" /\ i' = Tx!NextIndex(i)
    BY <1>3, <1>4, LoopParts
  <1>s. PICK size, on : /\ size = (IF x.tse THEN Size(mss, paylen) ELSE Len(b2))
                        /\ on = "fetch"
    OBVIOUS
  <1>6. /\ size = (IF x.tse THEN Size(mss, paylen) ELSE Len(b2))
        /\ on = "fetch" /\ on # "data"
    BY <1>s
  <1>7. CASE ~(full \/ x.eop)
    <2>1. /\ buf' = b2 /\ txout' = txout /\ mss' = mss /\ paylen' = paylen
          /\ tse_first' = tse_first /\ saved' = saved
      BY <1>5, <1>7 DEF Tx!tse
    <2>2. ~(ring[i].tse /\ Len(b2) >= Size(mss, paylen)) /\ ~ring[i].eop
      BY <1>3, <1>4, <1>7
    <2>3. w2 = <<>> /\ Core(queued, ring, next, Tx!NextIndex(i), on, txout, b2, w2, csum, mss, paylen, tse_first, saved)
      BY <1>1, <1>2, <1>3, <1>6, <2>2, DataGathered
    <2>4. txpc' = on /\ i' = Tx!NextIndex(i)
      BY <1>5, <1>6, <2>3
    <2>5. Core(queued, ring, next, Tx!NextIndex(i), txpc', txout', buf', rest', csum, mss', paylen', tse_first', saved')
      BY <1>5, <2>1, <2>3, <2>4, Zenon
    <2>6. Passing(TRUE)
      BY <1>6, <2>4, <2>5 DEF Passing
    <2> QED BY <2>6, GtPassing, Zenon
  <1>8. PICK n : n = (IF mss >= paylen THEN paylen ELSE mss)
    OBVIOUS
  <1>9. PICK h1, h2, s1 :
           /\ h1 = (IF x.tse THEN SetTo(b2[1], n, b2[1].fin /\ (mss >= paylen)) ELSE b2[1])
           /\ h2 = (IF csum THEN Tx!Checksum(h1) ELSE h1)
           /\ s1 = (IF full /\ tse_first THEN SavedFrom(b2[1]) ELSE saved)
    OBVIOUS
  <1>10. ASSUME full \/ x.eop
         PROVE  /\ txout' = Append(txout, Passed(h2, b2, size - 1))
                /\ saved' = s1 /\ tse_first' = (tse_first /\ ~full) /\ mss' = mss
                /\ IF x.tse /\ ~(mss >= paylen)
                   THEN buf' = Framed(Resumed(h2, s1, mss), Tx!Shift(b2, size)) /\ paylen' = paylen - mss
                   ELSE buf' = <<>> /\ paylen' = paylen
    <2>1. Tx!Send(b2, x.tse, full, size)
      BY <1>5, <1>6, <1>10
    <2>2. h1 = (IF x.tse THEN SetTo(b2[1], IF mss >= paylen THEN paylen ELSE mss, b2[1].fin /\ (mss >= paylen))
                         ELSE b2[1])
      BY <1>8, <1>9
    <2> QED BY <1>9, <2>1, <2>2, SendParts
  <1>11. ASSUME full \/ x.eop, x.tse
         PROVE  size - 1 = n /\ size = n + 1
    <2>1. ring[i].tse /\ (Len(b2) >= Size(mss, paylen) \/ ring[i].eop)
      BY <1>3, <1>4, <1>11
    <2>2. n \in Nat
      BY <1>1, <1>2, <1>3, <1>8, <2>1, SizeNumber
    <2>3. size = 1 + n
      BY <1>6, <1>8, <1>11 DEF Size
    <2> QED BY <2>2, <2>3
  <1>12. CASE (full \/ x.eop) /\ x.tse /\ ~(mss >= paylen)
    <2>1. ring[i].tse /\ (Len(b2) >= Size(mss, paylen) \/ ring[i].eop)
      BY <1>3, <1>4, <1>12
    <2>2. n = mss
      BY <1>8, <1>12
    <2>3. PICK fin, c0, s2, b3, o2, pl2, nt :
             /\ fin = (mss >= paylen) /\ c0 = Tx!Checksum(SetTo(b2[1], mss, b2[1].fin /\ fin))
             /\ s2 = (IF tse_first THEN SavedFrom(b2[1]) ELSE saved)
             /\ b3 = Framed(Resumed(c0, s2, mss), Tx!Shift(b2, mss + 1))
             /\ o2 = Append(txout, Passed(c0, b2, mss))
             /\ pl2 = paylen - mss /\ nt = FALSE
      OBVIOUS
    <2>c. Segmented(queued, ring, next, i, o2, b2, b3, w2, csum, mss, paylen, pl2, nt, s2)
      <3>1. FrameReady(ring[i], b2, mss, paylen)
        BY <2>1, Zenon DEF FrameReady
      <3>2. SegmentOut(txout, b2, mss, paylen, tse_first, saved, c0, o2, b3, pl2, nt, s2)
        BY <1>12, <2>3, Zenon DEF SegmentOut
      <3> QED BY <1>l, <3>1, <3>2, SegmentCore
    <2>4. /\ Enough(b2, mss, paylen) /\ csum = Raised /\ b3 # <<>>
          /\ w2 = <<>> => Core(queued, ring, next, Tx!NextIndex(i), on, o2, b3, w2, csum, mss, pl2, nt, s2)
          /\ w2 # <<>> => Core(queued, ring, next, i, txpc, o2, b3, w2, csum, mss, pl2, nt, s2)
      BY <1>1, <1>6, <2>c, Zenon DEF Segmented
    <2>5. full = TRUE
      BY <1>4, <1>12, <2>4 DEF Enough
    <2>6. h2 = c0 /\ s1 = s2
      <3>1. h1 = SetTo(b2[1], mss, b2[1].fin /\ fin)
        BY <1>9, <1>12, <2>2, <2>3, Zenon
      <3>2. h2 = Tx!Checksum(h1)
        BY <1>9, <2>4 DEF Raised
      <3>3. s1 = s2
        BY <1>9, <2>3, <2>5, Zenon
      <3> QED BY <2>3, <3>1, <3>2, <3>3, Zenon
    <2>7. /\ txout' = Append(txout, Passed(h2, b2, size - 1))
          /\ saved' = s1 /\ tse_first' = (tse_first /\ ~full) /\ mss' = mss
          /\ buf' = Framed(Resumed(h2, s1, mss), Tx!Shift(b2, size)) /\ paylen' = paylen - mss
      BY <1>10, <1>12
    <2>8. size - 1 = mss /\ size = mss + 1
      BY <1>11, <1>12, <2>2
    <2>9. txout' = o2 /\ buf' = b3 /\ saved' = s2 /\ paylen' = pl2 /\ mss' = mss
      BY <2>3, <2>6, <2>7, <2>8, Zenon
    <2>10. tse_first' = nt
      BY <2>3, <2>5, <2>7
    <2>11. CASE w2 = <<>>
      <3>1. txpc' = on /\ i' = Tx!NextIndex(i)
        BY <1>5, <1>6, <2>11
      <3>2. Core(queued, ring, next, Tx!NextIndex(i), txpc', txout', buf', rest', csum, mss', paylen', tse_first', saved')
        BY <1>5, <2>4, <2>9, <2>10, <2>11, <3>1, Zenon
      <3>3. Passing(TRUE)
        BY <1>6, <3>1, <3>2 DEF Passing
      <3> QED BY <3>3, GtPassing, Zenon
    <2>12. CASE w2 # <<>>
      <3>1. txpc' = txpc /\ i' = i
        BY <1>5, <2>4, <2>9, <2>12
      <3>2. Core(queued, ring, next, i, txpc', txout', buf', rest', csum, mss', paylen', tse_first', saved')
        BY <1>5, <2>4, <2>9, <2>10, <2>12, <3>1, Zenon
      <3>3. Passing(FALSE)
        BY <3>1, <3>2 DEF Passing
      <3> QED BY <3>3, GtPassing, Zenon
    <2> QED BY <2>11, <2>12
  <1>13. ASSUME (full \/ x.eop) /\ ~(x.tse /\ ~(mss >= paylen)),
                Core(queued, ring, next, Tx!NextIndex(i), on, txout', <<>>, w2, csum, mss, paylen, tse_first', s1)
         PROVE  GtInv'
    <2>1. saved' = s1 /\ mss' = mss /\ buf' = <<>> /\ paylen' = paylen
      BY <1>10, <1>13
    <2>2. txpc' = on /\ i' = Tx!NextIndex(i)
      BY <1>5, <1>6, <2>1
    <2>3. Core(queued, ring, next, Tx!NextIndex(i), txpc', txout', buf', rest', csum, mss', paylen', tse_first', saved')
      BY <1>5, <1>13, <2>1, <2>2, Zenon
    <2>4. Passing(TRUE)
      BY <1>6, <2>2, <2>3 DEF Passing
    <2> QED BY <2>4, GtPassing, Zenon
  <1>14. PICK b0, t2, ox : b0 = <<>> /\ t2 = tse_first' /\ ox = txout'
    OBVIOUS
  <1>15. CASE (full \/ x.eop) /\ x.tse /\ mss >= paylen
    <2>1. ring[i].tse /\ (Len(b2) >= Size(mss, paylen) \/ ring[i].eop)
      BY <1>3, <1>4, <1>15
    <2>2. n = paylen
      BY <1>8, <1>15
    <2>3. PICK fin, c0, o2 :
             /\ fin = (mss >= paylen) /\ c0 = Tx!Checksum(SetTo(b2[1], paylen, b2[1].fin /\ fin))
             /\ o2 = Append(txout, Passed(c0, b2, paylen))
      OBVIOUS
    <2>4. csum = Raised /\ Core(queued, ring, next, Tx!NextIndex(i), on, o2, b0, w2, csum, mss, paylen, t2, s1)
      <3>1. FrameReady(ring[i], b2, mss, paylen)
        BY <2>1, Zenon DEF FrameReady
      <3>2. LastOut(txout, b2, mss, paylen, c0, o2)
        BY <1>15, <2>3, Zenon DEF LastOut
      <3>3. csum = Raised /\ Ended(queued, ring, next, i, o2)
        BY <1>l, <3>1, <3>2, LastCore
      <3> QED BY <1>6, <1>14, <3>3, Zenon DEF Ended
    <2>5. h2 = c0
      <3>1. h1 = SetTo(b2[1], paylen, b2[1].fin /\ fin)
        BY <1>9, <1>15, <2>2, <2>3, Zenon
      <3>2. h2 = Tx!Checksum(h1)
        BY <1>9, <2>4 DEF Raised
      <3> QED BY <2>3, <3>1, <3>2, Zenon
    <2>6. txout' = o2
      <3>1. size - 1 = paylen
        BY <1>11, <1>15, <2>2
      <3>2. txout' = Append(txout, Passed(h2, b2, size - 1))
        BY <1>10, <1>15
      <3> QED BY <2>3, <2>5, <3>1, <3>2, Zenon
    <2>7. Core(queued, ring, next, Tx!NextIndex(i), on, txout', <<>>, w2, csum, mss, paylen, tse_first', s1)
      BY <1>14, <2>4, <2>6, Zenon
    <2> QED BY <1>13, <1>15, <2>7
  <1>16. CASE (full \/ x.eop) /\ ~x.tse
    <2>1. ~ring[i].tse /\ ring[i].eop
      BY <1>3, <1>4, <1>16
    <2>2. PICK z, c0, o2 : /\ z = Len(b2) - 1 /\ c0 = (IF csum THEN Tx!Checksum(b2[1]) ELSE b2[1])
                           /\ o2 = Append(txout, Passed(c0, b2, z))
      OBVIOUS
    <2>3. Core(queued, ring, next, Tx!NextIndex(i), on, o2, b0, w2, csum, mss, paylen, t2, s1)
      BY <1>1, <1>2, <1>3, <1>6, <1>14, <2>1, <2>2, WholeCore, Zenon
    <2>4. txout' = o2
      <3>1. size - 1 = z
        BY <1>6, <1>16, <2>2
      <3>2. txout' = Append(txout, Passed(h2, b2, size - 1))
        BY <1>10, <1>16
      <3>3. h2 = c0
        BY <1>9, <1>16, <2>2, Zenon
      <3> QED BY <2>2, <3>1, <3>2, <3>3, Zenon
    <2>5. Core(queued, ring, next, Tx!NextIndex(i), on, txout', <<>>, w2, csum, mss, paylen, tse_first', s1)
      BY <1>14, <2>3, <2>4, Zenon
    <2> QED BY <1>13, <1>16, <2>5
  <1> QED BY <1>7, <1>12, <1>15, <1>16

-----------------------------------------------------------------------------
(* What is expected of the packets queued is what the history says. *)
LEMMA ExpectedUptoIs ==
  ASSUME NEW q, NEW n \in Nat, n = Len(q), NEW st, NEW ex, Hist(q, n, st, ex)
  PROVE  Tx!ExpectedUpto(q)[n] = ex[n]
  <1> DEFINE F(g) == [k \in 0 .. n |-> IF k = 0 THEN <<>> ELSE g[k - 1] \o Tx!Expected(k, q[k])]
             all0 == CHOOSE g : g = F(g)
  <1>1. ex[0] = <<>> /\ \A k \in 1 .. n : ex[k] = ex[k - 1] \o Tx!Expected(k, q[k])
    BY DEF Hist
  <1>2. ex = F(ex)
    <2>1. \A k \in 0 .. n : k # 0 => k \in 1 .. n
      OBVIOUS
    <2>2. \A k \in 0 .. n : ex[k] = IF k = 0 THEN <<>> ELSE ex[k - 1] \o Tx!Expected(k, q[k])
      BY <1>1, <2>1
    <2>3. ex = [k \in 0 .. n |-> ex[k]]
      BY DEF Hist
    <2> QED BY <2>2, <2>3
  <1>3. all0 = F(all0)
    <2> HIDE DEF F
    <2> QED BY <1>2
  <1>4. Tx!ExpectedUpto(q) = all0
    BY DEF Tx!ExpectedUpto
  <1> HIDE DEF all0
  <1>5. PICK e : e = Tx!ExpectedUpto(q) /\ e = F(e)
    <2> HIDE DEF F
    <2> QED BY <1>3, <1>4
  <1>6. e[0] = <<>> /\ \A k \in 1 .. n : e[k] = e[k - 1] \o Tx!Expected(k, q[k])
    <2>1. \A k \in 1 .. n : k \in 0 .. n /\ k # 0
      OBVIOUS
    <2>2. 0 \in 0 .. n
      OBVIOUS
    <2>3. \A k \in 0 .. n : e[k] = IF k = 0 THEN <<>> ELSE e[k - 1] \o Tx!Expected(k, q[k])
      BY <1>5
    <2> HIDE DEF F
    <2> QED BY <2>1, <2>2, <2>3
  <1> HIDE DEF F
  <1> DEFINE B == {k \in 0 .. n : e[k] # ex[k]}
  <1>7. B = {}
    <2> SUFFICES ASSUME B # {} PROVE FALSE
      OBVIOUS
    <2>1. B \in SUBSET Nat
      OBVIOUS
    <2>2. PICK x \in B : \A y \in B : x <= y
      <3> HIDE DEF B
      <3> QED BY <2>1, HasLeast
    <2>3. x \in 0 .. n /\ e[x] # ex[x]
      OBVIOUS
    <2>4. x # 0
      BY <1>1, <1>6, <2>3
    <2>5. x \in 1 .. n /\ x - 1 \in 0 .. n /\ ~(x <= x - 1)
      BY <2>3, <2>4
    <2>6. e[x - 1] = ex[x - 1]
      BY <2>2, <2>5
    <2> QED BY <1>1, <1>6, <2>3, <2>5, <2>6, Zenon
  <1> QED BY <1>5, <1>7

Starts(u, v) == \E y \in Seq(Seq(TxCell)) : v = u \o y

LEMMA Associated ==
  \A x, y, z \in Seq(Seq(TxCell)) : (x \o y) \o z = x \o (y \o z)
  BY ConcatAssociative

LEMMA NothingMore ==
  ASSUME NEW S, NEW x \in Seq(S)
  PROVE  x \o <<>> = x
  OBVIOUS

LEMMA StartsOn ==
  ASSUME NEW u \in Seq(Seq(TxCell)), NEW v \in Seq(Seq(TxCell)), NEW w, Starts(u, v), Starts(v, w)
  PROVE  Starts(u, w)
  <1>1. PICK y \in Seq(Seq(TxCell)) : v = u \o y
    BY DEF Starts
  <1>2. PICK x \in Seq(Seq(TxCell)) : w = v \o x
    BY DEF Starts
  <1>3. y \o x \in Seq(Seq(TxCell)) /\ (u \o y) \o x = u \o (y \o x)
    <2>1. y \o x \in Seq(Seq(TxCell))
      OBVIOUS
    <2>2. (u \o y) \o x = u \o (y \o x)
      BY Associated
    <2> QED BY <2>1, <2>2, Zenon
  <1>4. w = u \o (y \o x)
    BY <1>1, <1>2, <1>3, Zenon
  <1> QED BY <1>3, <1>4, Zenon DEF Starts

LEMMA StartsIs ==
  ASSUME NEW u \in Seq(Seq(TxCell)), NEW v, Starts(u, v)
  PROVE  Begins(u, v)
  BY BeginsWith DEF Starts

LEMMA HistStarts ==
  ASSUME NEW n \in Nat, NEW q, NEW st, NEW ex, Hist(q, n, st, ex), NEW a \in 0 .. n
  PROVE  Starts(ex[a], ex[n])
  <1>1. \A g \in 0 .. n : ex[g] \in Seq(Seq(TxCell))
    BY HistTypes
  <1>2. <<>> \in Seq(Seq(TxCell))
    OBVIOUS
  <1>3. \A g \in 0 .. n : Starts(ex[g], ex[g])
    <2> SUFFICES ASSUME NEW g \in 0 .. n PROVE Starts(ex[g], ex[g])
      OBVIOUS
    <2>1. ex[g] = ex[g] \o <<>>
      BY <1>1, <1>2, NothingMore
    <2> QED BY <1>2, <2>1 DEF Starts
  <1> DEFINE B == {k \in a .. n : ~Starts(ex[a], ex[k])}
  <1>4. B = {}
    <2> SUFFICES ASSUME B # {} PROVE FALSE
      OBVIOUS
    <2>1. B \in SUBSET Nat
      OBVIOUS
    <2>2. PICK x \in B : \A y \in B : x <= y
      <3> HIDE DEF B
      <3> QED BY <2>1, HasLeast
    <2>3. x \in a .. n /\ ~Starts(ex[a], ex[x])
      OBVIOUS
    <2>4. x # a
      BY <1>3, <2>3
    <2>5. x \in 1 .. n /\ x - 1 \in a .. n /\ x - 1 \in 0 .. n /\ x \in Nat /\ x \in 0 .. n /\ ~(x <= x - 1)
      BY <2>3, <2>4
    <2>6. Starts(ex[a], ex[x - 1])
      BY <2>2, <2>5
    <2>7. Starts(ex[x - 1], ex[x])
      <3>1. ex[x] = ex[x - 1] \o Tx!Expected(x, q[x]) /\ GuestPacket(q[x])
        BY <2>5 DEF Hist
      <3>2. Tx!Expected(x, q[x]) \in Seq(Seq(TxCell))
        BY <2>5, <3>1, ExpectedIs
      <3> QED BY <3>1, <3>2 DEF Starts
    <2>8. Starts(ex[a], ex[x])
      BY <1>1, <2>5, <2>6, <2>7, StartsOn
    <2> QED BY <2>3, <2>8
  <1>5. n \in a .. n
    OBVIOUS
  <1> QED BY <1>4, <1>5

LEMMA CutOff ==
  ASSUME NEW S, NEW v \in Seq(S), NEW s \in Nat, s <= Len(v)
  PROVE  /\ SubSeq(v, 1, s) \in Seq(S) /\ SubSeq(v, s + 1, Len(v)) \in Seq(S)
         /\ v = SubSeq(v, 1, s) \o SubSeq(v, s + 1, Len(v))
  <1>1. SubSeq(v, 1, s) \in Seq(S) /\ Len(SubSeq(v, 1, s)) = s
        /\ \A k \in 1 .. s : SubSeq(v, 1, s)[k] = v[k]
    OBVIOUS
  <1>2. SubSeq(v, s + 1, Len(v)) \in Seq(S) /\ Len(SubSeq(v, s + 1, Len(v))) = Len(v) - s
        /\ \A k \in 1 .. Len(v) - s : SubSeq(v, s + 1, Len(v))[k] = v[s + k]
    OBVIOUS
  <1>3. PICK x \in Seq(S) : x = SubSeq(v, 1, s) /\ Len(x) = s /\ \A k \in 1 .. s : x[k] = v[k]
    BY <1>1
  <1>4. PICK y \in Seq(S) : y = SubSeq(v, s + 1, Len(v)) /\ Len(y) = Len(v) - s
                            /\ \A k \in 1 .. Len(v) - s : y[k] = v[s + k]
    BY <1>2
  <1>5. x \o y \in Seq(S) /\ Len(x \o y) = Len(v)
    <2>1. x \o y \in Seq(S) /\ Len(x \o y) = Len(x) + Len(y)
      OBVIOUS
    <2>2. Len(v) \in Nat
      OBVIOUS
    <2>3. s + (Len(v) - s) = Len(v)
      BY <2>2
    <2> QED BY <1>3, <1>4, <2>1, <2>3
  <1>6. \A k \in 1 .. Len(v) : (x \o y)[k] = v[k]
    <2> SUFFICES ASSUME NEW k \in 1 .. Len(v) PROVE (x \o y)[k] = v[k]
      OBVIOUS
    <2>0. Len(v) \in Nat /\ Len(x) = s /\ Len(y) = Len(v) - s /\ k \in Nat
      BY <1>3, <1>4
    <2>1. CASE k \in 1 .. s
      <3>1. k \in 1 .. Len(x)
        BY <2>0, <2>1
      <3>2. (x \o y)[k] = x[k]
        BY <3>1
      <3> QED BY <1>3, <2>1, <3>2
    <2>2. CASE ~(k \in 1 .. s)
      <3>1. k - s \in 1 .. Len(v) - s /\ s + (k - s) = k
        BY <2>2
      <3>2. y[k - s] = v[k]
        BY <1>4, <3>1
      <3>3. (x \o y)[k] = y[k - s]
        <4>1. k \in Len(x) + 1 .. Len(x) + Len(y)
          BY <2>0, <2>2
        <4>2. (x \o y)[k] = y[k - Len(x)]
          BY <4>1
        <4> QED BY <2>0, <4>2
      <3> QED BY <3>2, <3>3
    <2> QED BY <2>1, <2>2
  <1>7. x \o y = v
    <2>1. PICK u \in Seq(S) : u = x \o y
      BY <1>5
    <2>2. Len(u) = Len(v) /\ \A k \in 1 .. Len(v) : u[k] = v[k]
      BY <1>5, <1>6, <2>1
    <2>3. u = v
      BY <2>2
    <2> QED BY <2>1, <2>3
  <1> QED BY <1>1, <1>2, <1>3, <1>4, <1>7

LEMMA SentStarts ==
  ASSUME NEW g \in Nat, NEW p, GuestPacket(p), NEW e0 \in Seq(Seq(TxCell)), NEW s \in Nat, s < Frames(p)
  PROVE  Sent(e0, g, p, s) \in Seq(Seq(TxCell)) /\ Starts(Sent(e0, g, p, s), e0 \o Tx!Expected(g, p))
  <1>1. PICK v \in Seq(Seq(TxCell)) : v = Tx!Expected(g, p) /\ s <= Len(v)
    <2>1. Tx!Expected(g, p) \in Seq(Seq(TxCell)) /\ Len(Tx!Expected(g, p)) = Frames(p) /\ Frames(p) \in Nat
      BY ExpectedIs, FramesAre
    <2>2. s <= Frames(p)
      BY <2>1
    <2> QED BY <2>1, <2>2
  <1>2. PICK x \in Seq(Seq(TxCell)) : x = SubSeq(v, 1, s)
    BY <1>1, CutOff
  <1>3. PICK y \in Seq(Seq(TxCell)) : v = x \o y
    <2>1. /\ SubSeq(v, s + 1, Len(v)) \in Seq(Seq(TxCell))
          /\ v = SubSeq(v, 1, s) \o SubSeq(v, s + 1, Len(v))
      BY <1>1, CutOff
    <2>2. PICK y \in Seq(Seq(TxCell)) : y = SubSeq(v, s + 1, Len(v))
      BY <2>1
    <2>3. v = x \o y
      BY <1>2, <2>1, <2>2, Zenon
    <2> QED BY <2>3, Zenon
  <1>4. e0 \o x \in Seq(Seq(TxCell)) /\ (e0 \o x) \o y = e0 \o (x \o y)
    <2>1. e0 \o x \in Seq(Seq(TxCell))
      OBVIOUS
    <2>2. (e0 \o x) \o y = e0 \o (x \o y)
      BY Associated
    <2> QED BY <2>1, <2>2, Zenon
  <1>5. Sent(e0, g, p, s) = e0 \o x
    BY <1>1, <1>2, Zenon DEF Sent
  <1>6. e0 \o Tx!Expected(g, p) = (e0 \o x) \o y
    BY <1>1, <1>3, <1>4, Zenon
  <1> QED BY <1>4, <1>5, <1>6, Zenon DEF Starts

-----------------------------------------------------------------------------
(* What the invariant says of the packets sent *)
LEMMA SpotStarts ==
  ASSUME NEW q, NEW n \in Nat, NEW s \in Nat, NEW m \in Nat, NEW st, NEW ex, Hist(q, n, st, ex),
         NEW f \in 1 .. n + 1, NEW k, NEW pcv, NEW o0, NEW b, NEW w, NEW cs, NEW ms, NEW pl, NEW tf, NEW sv,
         Spot(q, n, ex, f, k, s, m, pcv, o0, b, w, cs, ms, pl, tf, sv)
  PROVE  Begins(o0, ex[n])
  <1>1. CASE f = n + 1
    <2>1. n \in 0 .. n /\ o0 = ex[n]
      BY <1>1 DEF Spot
    <2>2. Starts(ex[n], ex[n]) /\ ex[n] \in Seq(Seq(TxCell))
      BY <2>1, HistStarts, HistTypes
    <2> QED BY <2>1, <2>2, StartsIs
  <1>2. CASE f # n + 1
    <2>1. f \in 1 .. n /\ f \in Nat /\ f \in 0 .. n /\ f - 1 \in 0 .. n /\ n \in 0 .. n
      BY <1>2
    <2>2. PICK p, e0 : p = q[f] /\ e0 = ex[f - 1]
      OBVIOUS
    <2>3. GuestPacket(p) /\ ex[f] = e0 \o Tx!Expected(f, p)
      BY <2>1, <2>2 DEF Hist
    <2>4. e0 \in Seq(Seq(TxCell)) /\ ex[f] \in Seq(Seq(TxCell))
      BY <2>1, <2>2, HistTypes
    <2>5. o0 = Sent(e0, f, p, s) /\ s < Frames(p)
      BY <1>2, <2>2, Zenon DEF Spot, Gathered, Copying, Going
    <2>6. o0 \in Seq(Seq(TxCell)) /\ Starts(o0, ex[f])
      BY <2>1, <2>3, <2>4, <2>5, SentStarts
    <2>7. Starts(ex[f], ex[n])
      BY <2>1, HistStarts
    <2>8. Starts(o0, ex[n])
      BY <2>4, <2>6, <2>7, StartsOn
    <2> QED BY <2>6, <2>8, StartsIs
  <1> QED BY <1>1, <1>2

LEMMA GtSafe ==
  ASSUME GtInv
  PROVE  EveryFrameSent
  <1>1. PICK at : at = IF txpc = "idle" THEN txhead ELSE i
    OBVIOUS
  <1>2. Core(queued, ring, next, at, txpc, txout, buf, rest, csum, mss, paylen, tse_first, saved)
    BY <1>1 DEF GtInv
  <1>3. PICK n \in Nat, s \in Nat, m \in Nat : \E st, ex, c, f, k :
           /\ Located(queued, n, ring, next, at, st, ex, c, f, k)
           /\ Spot(queued, n, ex, f, k, s, m, txpc, txout, buf, rest, csum, mss, paylen, tse_first, saved)
    BY <1>2 DEF Core
  <1>4. PICK st, ex, c, f, k :
           /\ Located(queued, n, ring, next, at, st, ex, c, f, k)
           /\ Spot(queued, n, ex, f, k, s, m, txpc, txout, buf, rest, csum, mss, paylen, tse_first, saved)
    BY <1>3
  <1>5. /\ n = Len(queued) /\ Hist(queued, n, st, ex) /\ Walk(queued, n, st, ring, c, f, k)
        /\ at = Wrap(c) /\ next = Wrap(st[n])
    BY <1>4 DEF Located
  <1>6. f \in 1 .. n + 1
    BY <1>5 DEF Walk
  <1>7. Tx!AllExpected = ex[n]
    <2>1. Tx!ExpectedUpto(queued)[n] = ex[n]
      BY <1>5, ExpectedUptoIs
    <2> QED BY <1>5, <2>1 DEF Tx!AllExpected
  <1>8. Begins(txout, ex[n])
    BY <1>4, <1>5, <1>6, SpotStarts
  <1>9. ASSUME txpc = "idle", txhead = next
        PROVE  txout = ex[n] /\ buf = <<>>
    <2>1. Wrap(c) = Wrap(st[n])
      BY <1>1, <1>5, <1>9
    <2>2. f = n + 1
      BY <1>5, <2>1, WalkHere
    <2> QED BY <1>4, <2>2 DEF Spot
  <1> QED BY <1>7, <1>8, <1>9 DEF EveryFrameSent, Tx!EveryFrameSent, Begins

LEMMA GtStep ==
  ASSUME \A p \in Packet : Tidy(p), GtInv, [Tx!Next]_(Tx!vars)
  PROVE  GtInv'
  <1>1. CASE \E p \in Packet : Tx!Queue(p)
    BY <1>1, GtQueue
  <1>2. CASE Tx!Enable
    BY <1>2, GtEnable
  <1>3. CASE Tx!WriteTail
    BY <1>3, GtWriteTail
  <1>4. CASE Tx!Finish
    BY <1>4, GtFinish
  <1>5. CASE Tx!Context
    BY <1>5, GtContext
  <1>6. CASE Tx!Legacy
    BY <1>6, GtLegacy
  <1>7. CASE Tx!DataStart
    BY <1>7, GtDataStart
  <1>8. CASE Tx!DataLoop
    BY <1>8, GtDataLoop
  <1>9. CASE UNCHANGED Tx!vars
    <2>1. /\ txhead' = txhead /\ txtail' = txtail /\ txpc' = txpc /\ i' = i
          /\ queued' = queued /\ ring' = ring /\ next' = next
      BY <1>9 DEF Tx!vars, Tx!guest
    <2>2. /\ txout' = txout /\ buf' = buf /\ rest' = rest /\ csum' = csum
          /\ mss' = mss /\ paylen' = paylen /\ tse_first' = tse_first /\ saved' = saved
      BY <1>9 DEF Tx!vars, Tx!tse
    <2> QED BY <2>1, <2>2 DEF GtInv
  <1> QED BY <1>1, <1>2, <1>3, <1>4, <1>5, <1>6, <1>7, <1>8, <1>9 DEF Tx!Next

(***************************************************************************)
(* What the guest sends goes out, packet by packet or, cut by the driver   *)
(* into TCP segments (guest_is_transmitting and process_tdesc), segment by *)
(* segment, each with the header that belongs to it, in order and nothing  *)
(* twice; when the driver has processed all descriptors nothing is left in *)
(* d2->buf.  It holds for rings, buffers, packets and layouts of           *)
(* descriptors of every size, if the last descriptor of a packet to be     *)
(* segmented brings cells of its last segment only and the buffer does not *)
(* hold two segments.                                                      *)
(***************************************************************************)
THEOREM GuestFramesSent ==
  ASSUME \A p \in Packet : Tidy(p)
  PROVE  Tx!Spec => []EveryFrameSent
  <1>1. Tx!Init => GtInv
    BY GtInit
  <1>2. GtInv /\ [Tx!Next]_(Tx!vars) => GtInv'
    BY GtStep
  <1>3. GtInv => EveryFrameSent
    BY GtSafe
  <1> QED BY <1>1, <1>2, <1>3, PTL DEF Tx!Spec

-----------------------------------------------------------------------------
(* Each round of the loop copies something. *)
LEMMA RoundCopies ==
  ASSUME NEW g \in Nat, NEW p, GuestPacket(p), NEW s \in Nat, NEW m \in Nat, NEW b, NEW w, NEW cs,
         NEW ms, NEW pl, NEW tf, NEW sv, NEW k \in Nat, NEW d \in Nat, k = Contexts(p) + d,
         d < Len(p.cuts), Copying(g, p, k, s, m, b, w, cs, ms, pl, tf, sv)
  PROVE  Len(Left(w, Fits(b, w))) < Len(w)
  <1>1. Going(g, p, s, m, b, cs) /\ m < End(p, d + 1) /\ Uncopied(w, g, p, m, End(p, d + 1))
    BY CopyingIs
  <1>2. PICK z \in Nat : z = End(p, d + 1) /\ m < z /\ z <= p.pay + 1
    BY <1>1, EndIs
  <1>3. w \in Seq(TxCell) /\ Len(w) = z - m
    <2>1. Uncopied(w, g, p, m, z) /\ m <= z
      BY <1>1, <1>2
    <2> QED BY <1>2, <2>1, UncopiedIs
  <1>4. PICK l \in Nat, a \in Nat : l = Len(b) /\ a = BUFSIZE /\ l < a
    <2>1. /\ Len(b) \in Nat /\ Len(b) = m - Offset(p, s) /\ BUFSIZE \in Nat
          /\ p.kind = "tse" => p.mss \in Nat /\ p.mss < BUFSIZE /\ Len(b) <= p.mss
      BY <1>1, InBufLength, TxRingSize
    <2>2. p.kind # "tse" => Offset(p, s) = 0 /\ p.pay < BUFSIZE
      BY <1>1, InBufLength
    <2>3. p.pay \in Nat
      BY DEF GuestPacket
    <2>4. ASSUME p.kind = "tse" PROVE Len(b) < BUFSIZE
      BY <2>1, <2>4
    <2>5. ASSUME p.kind # "tse" PROVE Len(b) < BUFSIZE
      <3>1. PICK y \in Nat : y = p.pay /\ y < BUFSIZE
        BY <2>2, <2>3, <2>5
      <3>2. Len(b) = m
        BY <2>1, <2>2, <2>5
      <3> QED BY <1>2, <2>1, <3>1, <3>2
    <2> QED BY <2>1, <2>4, <2>5
  <1>5. PICK x \in Nat : x = Fits(b, w) /\ x > 0 /\ x <= Len(w)
    <2>1. Fits(b, w) = IF a - l < z - m THEN a - l ELSE z - m
      BY <1>3, <1>4 DEF Fits
    <2> QED BY <1>2, <1>3, <1>4, <2>1
  <1>6. Len(SubSeq(w, x + 1, Len(w))) = Len(w) - x
    BY <1>3, <1>5
  <1>7. Len(w) \in Nat
    BY <1>3
  <1> QED BY <1>5, <1>6, <1>7 DEF Left

LEMMA GtCopies ==
  ASSUME GtInv, Tx!DataLoop
  PROVE  Len(rest') < Len(rest)
  <1>1. txpc = "data"
    BY GtLoopSame
  <1>2. Core(queued, ring, next, i, txpc, txout, buf, rest, csum, mss, paylen, tse_first, saved)
    BY <1>1, GtCore
  <1>3. PICK x, b2, w2, full :
            /\ x = ring[i] /\ b2 = More(buf, rest) /\ w2 = Left(rest, Fits(buf, rest))
            /\ full = (x.tse /\ Len(b2) >= Size(mss, paylen))
    OBVIOUS
  <1>4. rest' = w2
    BY <1>3, LoopParts
  <1>5. CanLoop(queued, ring, next, i, txout, buf, rest, b2, w2, csum, mss, paylen, tse_first, saved)
    BY <1>1, <1>2, <1>3, CoreLoops
  <1>6. PICK n \in Nat, s \in Nat, m \in Nat, d \in Nat, m2 \in Nat : \E st, ex, c, f, k, p, e0 :
          /\ Looping(queued, ring, next, i, txout, buf, rest, csum, mss, paylen, tse_first, saved,
                     n, s, m, st, ex, c, f, k, p, e0)
          /\ Turn(ring[i], buf, b2, w2, csum, s, m, f, k, p, d, m2)
    BY <1>5 DEF CanLoop
  <1>7. PICK st, ex, c, f, k, p, e0 :
          /\ Looping(queued, ring, next, i, txout, buf, rest, csum, mss, paylen, tse_first, saved,
                     n, s, m, st, ex, c, f, k, p, e0)
          /\ Turn(ring[i], buf, b2, w2, csum, s, m, f, k, p, d, m2)
    BY <1>6
  <1>8. /\ f \in Nat /\ GuestPacket(p) /\ k \in Nat /\ k = Contexts(p) + d /\ d < Len(p.cuts)
        /\ Copying(f, p, k, s, m, buf, rest, csum, mss, paylen, tse_first, saved)
    BY <1>7, Zenon DEF Looping, Turn
  <1>9. Len(Left(rest, Fits(buf, rest))) < Len(rest)
    BY <1>8, RoundCopies
  <1> QED BY <1>3, <1>4, <1>9, Zenon

(***************************************************************************)
(* `goto loop' in process_tdesc() cannot spin: each round takes something  *)
(* out of the descriptor, so that d2->buf, which the round has to have     *)
(* room in, never stays full.  A descriptor is thus left after as many     *)
(* rounds as it has cells, whatever its length, and the processor returns  *)
(* from the guest's register write.                                        *)
(***************************************************************************)
THEOREM EachRoundCopies ==
  ASSUME \A p \in Packet : Tidy(p)
  PROVE  Tx!Spec => [][Tx!DataLoop => Len(rest') < Len(rest)]_(Tx!vars)
  <1>1. Tx!Init => GtInv
    BY GtInit
  <1>2. GtInv /\ [Tx!Next]_(Tx!vars) => GtInv'
    BY GtStep
  <1>3. GtInv => [Tx!DataLoop => Len(rest') < Len(rest)]_(Tx!vars)
    BY GtCopies
  <1> QED BY <1>1, <1>2, <1>3, PTL DEF Tx!Spec
=============================================================================
