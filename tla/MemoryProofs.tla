---------------------------- MODULE MemoryProofs ----------------------------
(***************************************************************************)
(* Proofs for the allocators of core/mm.c: small objects (module           *)
(* AllocList), for every number of pages, sizes and slots, and pages       *)
(* (module PageAlloc), for every number of processors, pages and sizes.    *)
(***************************************************************************)
EXTENDS MCMemory, Lemmas, FiniteSetTheorems

-----------------------------------------------------------------------------
(***************************************************************************)
(* Small objects.  Membership in a list is one thing with a page's size    *)
(* and its full mark; the bits of a page are one thing with its objects.   *)
(***************************************************************************)
Slots(n) == 0 .. DataBit[n] - 1
Mine(p) == {o[2] : o \in {x \in objects : x[1] = p}}

SmallType ==
    /\ alloclist \in [SmallSize -> Seq(SmallPage)]
    /\ pn \in [SmallPage -> SmallSize \cup {-1}]
    /\ full \in [SmallPage -> BOOLEAN]
    /\ data \in [SmallPage -> SUBSET Nat]
    /\ objects \subseteq SmallPage \X Nat

Listed ==
    \A n \in SmallSize :
        /\ IsInjective(alloclist[n])
        /\ \A p \in SmallPage : p \in Range(alloclist[n]) <=> pn[p] = n /\ ~full[p]

Bits ==
    \A p \in SmallPage : pn[p] # -1 =>
        /\ data[p] \subseteq Slots(pn[p])
        /\ data[p] = Small!Header(pn[p]) \cup Mine(p)

FullPages ==
    \A p \in SmallPage : full[p] => pn[p] # -1 /\ Slots(pn[p]) \subseteq data[p]

Objects ==
    \A o \in objects : pn[o[1]] # -1 /\ o[2] \notin Small!Header(pn[o[1]])

SmallInv == SmallType /\ Listed /\ Bits /\ FullPages /\ Objects

LEMMA SizeFacts ==
  ASSUME NEW n \in SmallSize
  PROVE  /\ n \in Nat /\ n # -1 /\ DataBit[n] \in Nat /\ HeaderBits[n] \in Nat
         /\ HeaderBits[n] < DataBit[n] /\ HeaderBits[n] \in Slots(n)
         /\ Small!Header(n) \subseteq Slots(n) /\ HeaderBits[n] \notin Small!Header(n)
  <1>1. /\ n \in Nat /\ DataBit[n] \in Nat /\ HeaderBits[n] \in Nat /\ HeaderBits[n] < DataBit[n]
    BY SlotAssumption
  <1> QED BY <1>1 DEF Slots, Small!Header

LEMMA UnusedIs ==
  ASSUME NEW p, NEW n
  PROVE  Small!Unused(p, n) = Slots(n) \ data[p]
  BY DEF Small!Unused, Slots

LEMMA SameCardinality == \A S : Small!Cardinality(S) = Cardinality(S)
  BY Zenon DEF Small!Cardinality, Cardinality

(* The pages that alloc() passes over are the first d of the list. *)
LEMMA DroppedIs ==
  ASSUME SmallType, NEW n \in SmallSize
  PROVE  \E d \in 0 .. Len(alloclist[n]) :
            /\ Small!Dropped(n) = 1 .. d
            /\ Cardinality(Small!Dropped(n)) = d
            /\ \A k \in 1 .. d : Small!Unused(alloclist[n][k], n) = {}
            /\ d < Len(alloclist[n]) => Small!Unused(alloclist[n][d + 1], n) # {}
  <1> DEFINE l == alloclist[n]
             U(k) == Small!Unused(l[k], n)
             S == {k \in 1 .. Len(l) : U(k) # {}}
  <1>1. l \in Seq(SmallPage)
    BY DEF SmallType
  <1>2. Len(l) \in Nat
    BY <1>1
  <1>3. Small!Dropped(n) = {k \in 1 .. Len(l) : \A m \in 1 .. k : U(m) = {}}
    BY DEF Small!Dropped
  <1> HIDE DEF l, U
  <1>4. \A d \in 0 .. Len(l) : Cardinality(1 .. d) = d
    <2> TAKE d \in 0 .. Len(l)
    <2>1. d \in Nat /\ 1 \in Int /\ d \in Int
      BY <1>2
    <2>2. Cardinality(1 .. d) = IF 1 > d THEN 0 ELSE d - 1 + 1
      BY <2>1, FS_Interval
    <2> QED BY <2>1, <2>2
  <1>5. \E d \in 0 .. Len(l) :
           /\ Small!Dropped(n) = 1 .. d
           /\ \A k \in 1 .. d : U(k) = {}
           /\ d < Len(l) => U(d + 1) # {}
    <2>1. CASE S = {}
      <3>1. \A k \in 1 .. Len(l) : U(k) = {}
        BY <2>1
      <3>2. Small!Dropped(n) = 1 .. Len(l)
        <4>1. \A k \in 1 .. Len(l) : \A m \in 1 .. k : m \in 1 .. Len(l)
          BY <1>2
        <4> QED BY <1>3, <3>1, <4>1
      <3> QED BY <1>2, <3>1, <3>2
    <2>2. CASE S # {}
      <3>1. S \in SUBSET Nat
        BY <1>2
      <3>2. PICK x \in S : \A y \in S : x <= y
        BY <2>2, <3>1, HasLeast
      <3>3. x \in 1 .. Len(l) /\ U(x) # {}
        BY <3>2
      <3>4. \A k \in 1 .. x - 1 : U(k) = {}
        <4> SUFFICES ASSUME NEW k \in 1 .. x - 1, U(k) # {} PROVE FALSE
          OBVIOUS
        <4>1. k \in S
          BY <1>2, <3>3
        <4> QED BY <1>2, <3>2, <3>3, <4>1
      <3>5. Small!Dropped(n) = 1 .. x - 1
        <4>1. ASSUME NEW k \in Small!Dropped(n) PROVE k \in 1 .. x - 1
          <5>1. k \in 1 .. Len(l) /\ \A m \in 1 .. k : U(m) = {}
            BY <1>3, <4>1
          <5>2. ~(x \in 1 .. k)
            BY <3>3, <5>1
          <5> QED BY <1>2, <3>3, <5>1, <5>2
        <4>2. ASSUME NEW k \in 1 .. x - 1 PROVE k \in Small!Dropped(n)
          <5>1. k \in 1 .. Len(l) /\ \A m \in 1 .. k : m \in 1 .. x - 1
            BY <1>2, <3>3
          <5> QED BY <1>3, <3>4, <5>1
        <4> QED BY <4>1, <4>2
      <3>6. x - 1 \in 0 .. Len(l) /\ (x - 1) + 1 = x
        BY <1>2, <3>3
      <3> QED BY <3>3, <3>4, <3>5, <3>6
    <2> QED BY <2>1, <2>2
  <1>6. PICK d \in 0 .. Len(l) :
           /\ Small!Dropped(n) = 1 .. d
           /\ \A k \in 1 .. d : U(k) = {}
           /\ d < Len(l) => U(d + 1) # {}
    BY <1>5
  <1>7. Cardinality(Small!Dropped(n)) = d
    BY <1>4, <1>6
  <1> QED BY <1>6, <1>7 DEF l, U

(* What alloc() keeps of a list, and which pages it marks *)
Keeps(n, d, r) ==
    /\ d \in 0 .. Len(alloclist[n]) /\ Small!Dropped(n) = 1 .. d
    /\ r \in Seq(SmallPage) /\ r = Small!Rest(n) /\ Len(r) = Len(alloclist[n]) - d
    /\ \A k \in 1 .. Len(r) : d + k \in 1 .. Len(alloclist[n]) /\ r[k] = alloclist[n][d + k]
    /\ \A k \in 1 .. d : Small!Unused(alloclist[n][k], n) = {}
    /\ r # <<>> => Small!Unused(Head(r), n) # {}

LEMMA RestIs ==
  ASSUME SmallType, NEW n \in SmallSize
  PROVE  \E d, r : Keeps(n, d, r)
  <1> DEFINE l == alloclist[n]
             r == Small!Rest(n)
  <1>1. l \in Seq(SmallPage) /\ Len(l) \in Nat
    BY DEF SmallType
  <1>2. PICK d \in 0 .. Len(l) :
            /\ Small!Dropped(n) = 1 .. d
            /\ Cardinality(Small!Dropped(n)) = d
            /\ \A k \in 1 .. d : Small!Unused(l[k], n) = {}
            /\ d < Len(l) => Small!Unused(l[d + 1], n) # {}
    BY DroppedIs
  <1>3. r = SubSeq(l, d + 1, Len(l))
    BY <1>2, SameCardinality, Zenon DEF Small!Rest
  <1> HIDE DEF l, r
  <1>4. r \in Seq(SmallPage) /\ Len(r) = Len(l) - d
    BY <1>1, <1>2, <1>3
  <1>5. \A k \in 1 .. Len(r) : d + k \in 1 .. Len(l) /\ r[k] = l[d + k]
    BY <1>1, <1>2, <1>3, <1>4
  <1>6. r # <<>> => Small!Unused(Head(r), n) # {}
    <2> SUFFICES ASSUME r # <<>> PROVE Small!Unused(Head(r), n) # {}
      OBVIOUS
    <2>1. Len(r) \in Nat /\ Len(r) # 0 /\ Head(r) = r[1]
      BY <1>4
    <2>2. d < Len(l) /\ 1 \in 1 .. Len(r)
      BY <1>1, <1>2, <1>4, <2>1
    <2>3. r[1] = l[d + 1]
      BY <1>5, <2>2
    <2> QED BY <1>2, <2>1, <2>2, <2>3
  <1>7. Keeps(n, d, r)
    BY <1>2, <1>4, <1>5, <1>6 DEF Keeps, l, r
  <1> QED BY <1>7

LEMMA SmallInit == Small!Init => SmallInv
  <1> SUFFICES ASSUME Small!Init PROVE SmallInv
    OBVIOUS
  <1>1. SmallType
    BY DEF Small!Init, SmallType
  <1>2. Listed
    <2> SUFFICES ASSUME NEW n \in SmallSize
                 PROVE  /\ IsInjective(alloclist[n])
                        /\ \A p \in SmallPage : p \in Range(alloclist[n]) <=> pn[p] = n /\ ~full[p]
      BY DEF Listed
    <2>1. alloclist[n] = <<>> /\ DOMAIN <<>> = {}
      BY DEF Small!Init
    <2>2. \A p \in SmallPage : pn[p] = -1
      BY DEF Small!Init
    <2>3. n # -1
      BY SizeFacts
    <2> QED BY <2>1, <2>2, <2>3 DEF IsInjective, Range
  <1>3. Bits /\ FullPages /\ Objects
    BY DEF Small!Init, Bits, FullPages, Objects
  <1> QED BY <1>1, <1>2, <1>3 DEF SmallInv

(* The state after alloc(n) has passed over full pages: they are marked. *)
LEMMA MarksFull ==
  ASSUME SmallInv, NEW n \in SmallSize, NEW d, NEW r, Keeps(n, d, r)
  PROVE  /\ Small!MarkFull(n) \in [SmallPage -> BOOLEAN]
         /\ IsInjective(r) /\ Range(r) \subseteq SmallPage
         /\ \A p \in SmallPage : p \in Range(r) <=> pn[p] = n /\ ~Small!MarkFull(n)[p]
         /\ \A p \in SmallPage : full[p] => Small!MarkFull(n)[p]
         /\ \A p \in SmallPage : Small!MarkFull(n)[p] /\ ~full[p] =>
                 pn[p] = n /\ Slots(n) \subseteq data[p]
  <1> DEFINE l == alloclist[n]
             mf == Small!MarkFull(n)
  <1>1. l \in Seq(SmallPage) /\ Len(l) \in Nat /\ l \in [1 .. Len(l) -> SmallPage]
    BY DEF SmallInv, SmallType
  <1>2. /\ d \in 0 .. Len(l) /\ r \in Seq(SmallPage) /\ Len(r) = Len(l) - d
        /\ \A k \in 1 .. Len(r) : d + k \in 1 .. Len(l) /\ r[k] = l[d + k]
        /\ \A k \in 1 .. d : Small!Unused(l[k], n) = {}
        /\ Small!Dropped(n) = 1 .. d
    BY DEF Keeps
  <1>3. r \in [1 .. Len(r) -> SmallPage] /\ Len(r) \in Nat
    BY <1>1, <1>2
  <1>4. \A a, b \in 1 .. Len(l) : l[a] = l[b] => a = b
    BY <1>1 DEF SmallInv, Listed, IsInjective
  <1>5. \A p \in SmallPage : (\E k \in 1 .. Len(l) : p = l[k]) <=> pn[p] = n /\ ~full[p]
    BY <1>1 DEF SmallInv, Listed, Range
  <1>6. mf = [p \in SmallPage |-> full[p] \/ \E k \in 1 .. d : l[k] = p]
    BY <1>2 DEF Small!MarkFull
  <1>7. full \in [SmallPage -> BOOLEAN]
    BY DEF SmallInv, SmallType
  <1>8. \A p, k : Small!Unused(p, k) = Slots(k) \ data[p]
    BY UnusedIs
  <1> HIDE DEF l, mf
  <1>9. mf \in [SmallPage -> BOOLEAN] /\ \A p \in SmallPage : full[p] => mf[p]
    BY <1>6, <1>7
  <1>10. \A p \in SmallPage : mf[p] <=> full[p] \/ \E k \in 1 .. d : l[k] = p
    BY <1>6, <1>7
  <1>11. IsInjective(r)
    <2> SUFFICES ASSUME NEW a \in 1 .. Len(r), NEW b \in 1 .. Len(r), r[a] = r[b] PROVE a = b
      BY <1>3 DEF IsInjective
    <2>1. d + a = d + b
      BY <1>2, <1>4
    <2> QED BY <1>1, <1>2, <1>3, <2>1
  <1>12. Range(r) \subseteq SmallPage
    BY <1>3 DEF Range
  <1>13. ASSUME NEW p \in SmallPage PROVE p \in Range(r) <=> pn[p] = n /\ ~mf[p]
    <2>1. ASSUME p \in Range(r) PROVE pn[p] = n /\ ~mf[p]
      <3>1. PICK k \in 1 .. Len(r) : p = r[k]
        BY <1>3, <2>1 DEF Range
      <3>2. d + k \in 1 .. Len(l) /\ p = l[d + k]
        BY <1>2, <3>1
      <3>3. pn[p] = n /\ ~full[p]
        BY <1>5, <3>2
      <3>4. \A m \in 1 .. d : l[m] # p
        <4> SUFFICES ASSUME NEW m \in 1 .. d, l[m] = p PROVE FALSE
          OBVIOUS
        <4>1. m \in 1 .. Len(l)
          BY <1>1, <1>2
        <4>2. m = d + k
          BY <1>4, <3>2, <4>1
        <4> QED BY <1>1, <1>2, <1>3, <4>2
      <3> QED BY <1>10, <3>3, <3>4
    <2>2. ASSUME pn[p] = n, ~mf[p] PROVE p \in Range(r)
      <3>1. ~full[p] /\ \A m \in 1 .. d : l[m] # p
        BY <1>10, <2>2
      <3>2. PICK k \in 1 .. Len(l) : p = l[k]
        BY <1>5, <2>2, <3>1
      <3>3. ~(k \in 1 .. d)
        BY <3>1, <3>2
      <3>4. k - d \in 1 .. Len(r) /\ d + (k - d) = k
        BY <1>1, <1>2, <3>2, <3>3
      <3>5. r[k - d] = p
        BY <1>2, <3>2, <3>4
      <3> QED BY <1>3, <3>4, <3>5 DEF Range
    <2> QED BY <2>1, <2>2
  <1>14. ASSUME NEW p \in SmallPage, mf[p], ~full[p] PROVE pn[p] = n /\ Slots(n) \subseteq data[p]
    <2>1. PICK k \in 1 .. d : l[k] = p
      BY <1>10, <1>14
    <2>2. k \in 1 .. Len(l)
      BY <1>1, <1>2
    <2>3. pn[p] = n
      BY <1>5, <2>1, <2>2
    <2>4. Slots(n) \ data[p] = {}
      BY <1>2, <1>8, <2>1
    <2> QED BY <2>3, <2>4
  <1> QED BY <1>9, <1>11, <1>12, <1>13, <1>14 DEF mf

(* A page taken out of a list and put back at its front *)
LEMMA PopPush ==
  ASSUME NEW S, NEW r \in Seq(S), r # <<>>
  PROVE  LIST1_PUSH(LIST1_POP(r), Head(r)) = r
  <1>1. Len(r) \in Nat /\ Len(r) > 0 /\ Head(r) = r[1] /\ Head(r) \in S
    OBVIOUS
  <1> DEFINE m == Len(r) - 1
             t == [j \in 1 .. m |-> IF j < 1 THEN r[j] ELSE r[j + 1]]
  <1>2. t = LIST1_POP(r)
    BY DEF LIST1_POP, DeleteAt
  <1>3. m \in Nat /\ \A j \in 1 .. m : j + 1 \in 1 .. Len(r) /\ ~(j < 1)
    BY <1>1
  <1>4. t \in [1 .. m -> S] /\ \A j \in 1 .. m : t[j] = r[j + 1]
    BY <1>1, <1>3
  <1> HIDE DEF t, m
  <1>5. t \in Seq(S) /\ Len(t) = m
    BY <1>3, <1>4, SequenceOf
  <1>6. /\ <<Head(r)>> \in Seq(S) /\ Len(<<Head(r)>>) = 1 /\ <<Head(r)>>[1] = r[1]
    BY <1>1
  <1>7. PICK h \in Seq(S) : h = <<Head(r)>>
    BY <1>6
  <1>8. /\ h \o t \in Seq(S) /\ Len(h \o t) = 1 + m
        /\ (h \o t)[1] = r[1]
        /\ \A j \in 1 .. m : (h \o t)[1 + j] = t[j]
    BY <1>5, <1>6, <1>7, Concatenation
  <1>9. Len(h \o t) = Len(r)
    BY <1>1, <1>8 DEF m
  <1>10. \A k \in 1 .. Len(r) : (h \o t)[k] = r[k]
    <2> SUFFICES ASSUME NEW k \in 1 .. Len(r) PROVE (h \o t)[k] = r[k]
      OBVIOUS
    <2>1. CASE k = 1
      BY <1>8, <2>1
    <2>2. CASE k # 1
      <3>1. k - 1 \in 1 .. m /\ 1 + (k - 1) = k /\ (k - 1) + 1 = k
        BY <1>1, <2>2 DEF m
      <3> QED BY <1>4, <1>8, <3>1
    <2> QED BY <2>1, <2>2
  <1>11. h \o t = r
    <2>1. PICK u \in Seq(S) : u = h \o t
      BY <1>8
    <2>2. Len(u) = Len(r) /\ \A k \in 1 .. Len(r) : u[k] = r[k]
      BY <1>9, <1>10, <2>1
    <2>3. u = r
      BY <2>2
    <2> QED BY <2>1, <2>3
  <1> QED BY <1>2, <1>7, <1>11 DEF LIST1_PUSH

LEMMA SameLists ==
  /\ \A l, e : Small!LIST1_PUSH(l, e) = LIST1_PUSH(l, e)
  /\ \A l : Small!LIST1_POP(l) = LIST1_POP(l)
  BY Zenon DEF Small!LIST1_PUSH, Small!LIST1_POP, Small!DeleteAt,
               LIST1_PUSH, LIST1_POP, DeleteAt

SlotsOf(A) == {o[2] : o \in A}
OneMore(A, p, j) == SlotsOf(A \cup {<<p, j>>}) = SlotsOf(A) \cup {j}

LEMMA OneSlotMore ==
  ASSUME NEW A, NEW p, NEW j
  PROVE  OneMore(A, p, j) /\ SlotsOf({<<p, j>>}) = {j}
  <1>1. <<p, j>>[2] = j
    OBVIOUS
  <1>2. PICK u : u = <<p, j>>
    OBVIOUS
  <1>3. {o[2] : o \in A \cup {u}} = {o[2] : o \in A} \cup {u[2]} /\ {o[2] : o \in {u}} = {u[2]}
    BY Zenon
  <1> QED BY <1>1, <1>2, <1>3 DEF SlotsOf, OneMore

(* alloc() from a page that has a free slot *)
LEMMA AllocFromStep == ASSUME SmallInv, NEW n \in SmallSize, Small!AllocFrom(n) PROVE SmallInv'
  <1>0. SmallType /\ Listed /\ Bits /\ FullPages /\ Objects
    BY DEF SmallInv
  <1>1. PICK d, r : Keeps(n, d, r)
    BY <1>0, RestIs
  <1> DEFINE p == Head(r)
             j == Small!FirstUnused(p, n)
             mf == Small!MarkFull(n)
  <1>2. r = Small!Rest(n) /\ r \in Seq(SmallPage)
    BY <1>1 DEF Keeps
  <1>3. /\ r # <<>> /\ full' = mf
        /\ alloclist' = [alloclist EXCEPT ![n] = LIST1_PUSH(LIST1_POP(r), p)]
        /\ data' = [data EXCEPT ![p] = @ \cup {j}]
        /\ objects' = objects \cup {<<p, j>>}
        /\ pn' = pn
    BY <1>2, SameLists, Zenon DEF Small!AllocFrom
  <1>4. alloclist' = [alloclist EXCEPT ![n] = r]
    BY <1>2, <1>3, PopPush
  <1>5. p \in SmallPage /\ p \in Range(r)
    <2>1. Len(r) \in Nat /\ Len(r) > 0 /\ p = r[1] /\ p \in SmallPage
      BY <1>2, <1>3
    <2>2. 1 \in DOMAIN r
      BY <1>2, <2>1
    <2> QED BY <2>1, <2>2 DEF Range
  <1>6. Small!Unused(p, n) # {} /\ Small!Unused(p, n) = Slots(n) \ data[p]
    <2>1. Small!Unused(p, n) # {}
      BY <1>1, <1>3 DEF Keeps
    <2> QED BY <2>1, UnusedIs
  <1> HIDE DEF p
  <1>7. j \in Slots(n) /\ j \notin data[p] /\ j \in Nat
    <2>1. Small!Unused(p, n) \in SUBSET Nat
      BY <1>6, SizeFacts DEF Slots
    <2>2. \E x \in Small!Unused(p, n) : \A k \in Small!Unused(p, n) : x <= k
      BY <1>6, <2>1, HasLeast
    <2>3. j \in Small!Unused(p, n)
      BY <2>2 DEF Small!FirstUnused
    <2> QED BY <1>6, <2>1, <2>3
  <1> HIDE DEF j, mf
  <1>8. /\ mf \in [SmallPage -> BOOLEAN] /\ IsInjective(r)
        /\ \A q \in SmallPage : q \in Range(r) <=> pn[q] = n /\ ~mf[q]
        /\ \A q \in SmallPage : full[q] => mf[q]
        /\ \A q \in SmallPage : mf[q] /\ ~full[q] => pn[q] = n /\ Slots(n) \subseteq data[q]
    BY <1>1, MarksFull DEF mf
  <1>9. pn[p] = n /\ ~mf[p]
    BY <1>5, <1>8
  <1>10. n # -1 /\ Small!Header(n) \subseteq Slots(n)
    BY SizeFacts
  <1>11. SmallType'
    <2>1. data' \in [SmallPage -> SUBSET Nat]
      BY <1>0, <1>3, <1>5, <1>7 DEF SmallType
    <2>2. objects' \subseteq SmallPage \X Nat
      BY <1>0, <1>3, <1>5, <1>7 DEF SmallType
    <2>3. alloclist' \in [SmallSize -> Seq(SmallPage)]
      BY <1>0, <1>2, <1>4 DEF SmallType
    <2> QED BY <1>0, <1>3, <1>8, <2>1, <2>2, <2>3 DEF SmallType
  <1>12. Listed'
    <2> SUFFICES ASSUME NEW m \in SmallSize
                 PROVE  /\ IsInjective(alloclist'[m])
                        /\ \A q \in SmallPage : q \in Range(alloclist'[m]) <=> pn[q] = m /\ ~mf[q]
      BY <1>3 DEF Listed, IsInjective, Range
    <2>1. CASE m = n
      <3>1. alloclist'[m] = r
        BY <1>0, <1>4, <2>1 DEF SmallType
      <3> QED BY <1>8, <2>1, <3>1
    <2>2. CASE m # n
      <3>1. alloclist'[m] = alloclist[m]
        BY <1>0, <1>4, <2>2 DEF SmallType
      <3>2. IsInjective(alloclist[m])
        BY <1>0 DEF Listed
      <3>3. \A q \in SmallPage : q \in Range(alloclist[m]) <=> pn[q] = m /\ ~full[q]
        BY <1>0 DEF Listed
      <3>4. \A q \in SmallPage : pn[q] = m => (mf[q] <=> full[q])
        BY <1>0, <1>8, <2>2 DEF SmallType
      <3> QED BY <3>1, <3>2, <3>3, <3>4
    <2> QED BY <2>1, <2>2
  <1>13. \A q \in SmallPage : data'[q] = IF q = p THEN data[p] \cup {j} ELSE data[q]
    BY <1>0, <1>3, <1>5 DEF SmallType
  <1>14. \A q \in SmallPage : Mine(q)' = IF q = p THEN Mine(p) \cup {j} ELSE Mine(q)
    <2> SUFFICES ASSUME NEW q \in SmallPage
                 PROVE  {o[2] : o \in {x \in objects' : x[1] = q}}
                           = IF q = p THEN Mine(p) \cup {j} ELSE Mine(q)
      BY DEF Mine
    <2>1. objects' = objects \cup {<<p, j>>}
      BY <1>3
    <2>2. CASE q = p
      <3>1. {x \in objects' : x[1] = q} = {x \in objects : x[1] = q} \cup {<<p, j>>}
        BY <2>1, <2>2
      <3>2. PICK A : A = {x \in objects : x[1] = q}
        OBVIOUS
      <3>3. OneMore(A, p, j)
        BY OneSlotMore
      <3> QED BY <2>2, <3>1, <3>2, <3>3 DEF Mine, SlotsOf, OneMore
    <2>3. CASE q # p
      <3>1. {x \in objects' : x[1] = q} = {x \in objects : x[1] = q}
        BY <2>1, <2>3
      <3> QED BY <2>3, <3>1 DEF Mine
    <2> QED BY <2>2, <2>3
  <1>15. Bits'
    <2> SUFFICES ASSUME NEW q \in SmallPage, pn[q] # -1
                 PROVE  /\ data'[q] \subseteq Slots(pn[q])
                        /\ data'[q] = Small!Header(pn[q]) \cup Mine(q)'
      BY <1>3 DEF Bits, Slots, Small!Header
    <2>1. data[q] \subseteq Slots(pn[q]) /\ data[q] = Small!Header(pn[q]) \cup Mine(q)
      BY <1>0 DEF Bits
    <2>2. CASE q = p
      BY <1>7, <1>9, <1>13, <1>14, <2>1, <2>2
    <2>3. CASE q # p
      BY <1>13, <1>14, <2>1, <2>3
    <2> QED BY <2>2, <2>3
  <1>16. FullPages'
    <2> SUFFICES ASSUME NEW q \in SmallPage, mf[q]
                 PROVE  pn[q] # -1 /\ Slots(pn[q]) \subseteq data'[q]
      BY <1>3 DEF FullPages, Slots
    <2>1. q # p
      BY <1>9
    <2>2. pn[q] # -1 /\ Slots(pn[q]) \subseteq data[q]
      BY <1>0, <1>8, <1>10 DEF FullPages
    <2> QED BY <1>13, <2>1, <2>2
  <1>17. Objects'
    <2> SUFFICES ASSUME NEW o \in objects'
                 PROVE  pn[o[1]] # -1 /\ o[2] \notin Small!Header(pn[o[1]])
      BY <1>3 DEF Objects, Small!Header
    <2>1. CASE o \in objects
      BY <1>0, <2>1 DEF Objects
    <2>2. CASE o = <<p, j>>
      <3>1. j \notin Small!Header(n)
        BY <1>0, <1>5, <1>7, <1>9, <1>10 DEF Bits
      <3> QED BY <1>9, <1>10, <2>2, <3>1
    <2> QED BY <1>3, <2>1, <2>2
  <1> QED BY <1>11, <1>12, <1>15, <1>16, <1>17 DEF SmallInv

(* alloc() with a new page *)
LEMMA AllocNewStep == ASSUME SmallInv, NEW n \in SmallSize, Small!AllocNew(n) PROVE SmallInv'
  <1>0. SmallType /\ Listed /\ Bits /\ FullPages /\ Objects
    BY DEF SmallInv
  <1>1. PICK d, r : Keeps(n, d, r)
    BY <1>0, RestIs
  <1> DEFINE mf == Small!MarkFull(n)
             hs == HeaderBits[n]
  <1>2. r = Small!Rest(n)
    BY <1>1 DEF Keeps
  <1>3. PICK p \in SmallPage :
        /\ r = <<>> /\ pn[p] = -1 /\ full' = mf
        /\ pn' = [pn EXCEPT ![p] = n]
        /\ alloclist' = [alloclist EXCEPT ![n] = <<p>>]
        /\ data' = [data EXCEPT ![p] = Small!Header(n) \cup {hs}]
        /\ objects' = objects \cup {<<p, hs>>}
    BY <1>2, Zenon DEF Small!AllocNew
  <1>4. /\ n # -1 /\ hs \in Nat /\ hs \in Slots(n) /\ Small!Header(n) \subseteq Slots(n)
        /\ hs \notin Small!Header(n) /\ Slots(n) \subseteq Nat
    BY SizeFacts DEF Slots
  <1> HIDE DEF mf, hs
  <1>5. /\ mf \in [SmallPage -> BOOLEAN]
        /\ \A q \in SmallPage : q \in Range(r) <=> pn[q] = n /\ ~mf[q]
        /\ \A q \in SmallPage : full[q] => mf[q]
        /\ \A q \in SmallPage : mf[q] /\ ~full[q] => pn[q] = n /\ Slots(n) \subseteq data[q]
    BY <1>1, MarksFull DEF mf
  <1>6. \A q \in SmallPage : pn[q] = n => mf[q]
    <2>1. Range(r) = {}
      BY <1>3 DEF Range
    <2> QED BY <1>5, <2>1
  <1>7. ~mf[p]
    BY <1>0, <1>3, <1>4, <1>5 DEF FullPages
  <1>8. \A q \in SmallPage : pn'[q] = IF q = p THEN n ELSE pn[q]
    BY <1>0, <1>3 DEF SmallType
  <1>9. \A q \in SmallPage : data'[q] = IF q = p THEN Small!Header(n) \cup {hs} ELSE data[q]
    BY <1>0, <1>3 DEF SmallType
  <1>10. SmallType'
    <2>1. data' \in [SmallPage -> SUBSET Nat]
      BY <1>0, <1>3, <1>4 DEF SmallType
    <2>2. objects' \subseteq SmallPage \X Nat
      BY <1>0, <1>3, <1>4 DEF SmallType
    <2>3. alloclist' \in [SmallSize -> Seq(SmallPage)]
      BY <1>0, <1>3 DEF SmallType
    <2>4. pn' \in [SmallPage -> SmallSize \cup {-1}]
      BY <1>0, <1>3 DEF SmallType
    <2> QED BY <1>3, <1>5, <2>1, <2>2, <2>3, <2>4 DEF SmallType
  <1>11. Listed'
    <2> SUFFICES ASSUME NEW m \in SmallSize
                 PROVE  /\ IsInjective(alloclist'[m])
                        /\ \A q \in SmallPage : q \in Range(alloclist'[m]) <=> pn'[q] = m /\ ~mf[q]
      BY <1>3 DEF Listed, IsInjective, Range
    <2>1. CASE m = n
      <3>1. alloclist'[m] = <<p>> /\ DOMAIN <<p>> = {1} /\ <<p>>[1] = p
        BY <1>0, <1>3, <2>1 DEF SmallType
      <3>2. IsInjective(<<p>>) /\ Range(<<p>>) = {p}
        BY <3>1 DEF IsInjective, Range
      <3>3. \A q \in SmallPage : q \in {p} <=> pn'[q] = n /\ ~mf[q]
        BY <1>6, <1>7, <1>8
      <3> QED BY <2>1, <3>1, <3>2, <3>3
    <2>2. CASE m # n
      <3>1. alloclist'[m] = alloclist[m]
        BY <1>0, <1>3, <2>2 DEF SmallType
      <3>2. IsInjective(alloclist[m])
        BY <1>0 DEF Listed
      <3>3. \A q \in SmallPage : q \in Range(alloclist[m]) <=> pn[q] = m /\ ~full[q]
        BY <1>0 DEF Listed
      <3>4. \A q \in SmallPage : pn[q] = m => (mf[q] <=> full[q])
        BY <1>0, <1>5, <2>2 DEF SmallType
      <3>5. m # -1
        BY SizeFacts
      <3>6. \A q \in SmallPage : pn'[q] = m <=> pn[q] = m
        BY <1>3, <1>8, <2>2, <3>5
      <3> QED BY <3>1, <3>2, <3>3, <3>4, <3>6
    <2> QED BY <2>1, <2>2
  <1>12. \A q \in SmallPage : Mine(q)' = IF q = p THEN {hs} ELSE Mine(q)
    <2> SUFFICES ASSUME NEW q \in SmallPage
                 PROVE  {o[2] : o \in {x \in objects' : x[1] = q}}
                           = IF q = p THEN {hs} ELSE Mine(q)
      BY DEF Mine
    <2>1. objects' = objects \cup {<<p, hs>>}
      BY <1>3
    <2>2. CASE q = p
      <3>1. \A x \in objects : x[1] # p
        BY <1>0, <1>3 DEF Objects
      <3>2. {x \in objects' : x[1] = q} = {<<p, hs>>}
        BY <2>1, <2>2, <3>1
      <3>3. SlotsOf({<<p, hs>>}) = {hs}
        BY OneSlotMore
      <3> QED BY <2>2, <3>2, <3>3 DEF SlotsOf
    <2>3. CASE q # p
      <3>1. {x \in objects' : x[1] = q} = {x \in objects : x[1] = q}
        BY <2>1, <2>3
      <3> QED BY <2>3, <3>1 DEF Mine
    <2> QED BY <2>2, <2>3
  <1>13. Bits'
    <2> SUFFICES ASSUME NEW q \in SmallPage, pn'[q] # -1
                 PROVE  /\ data'[q] \subseteq Slots(pn'[q])
                        /\ data'[q] = Small!Header(pn'[q]) \cup Mine(q)'
      BY DEF Bits, Slots, Small!Header
    <2>1. CASE q = p
      BY <1>4, <1>8, <1>9, <1>12, <2>1
    <2>2. CASE q # p
      <3>1. pn'[q] = pn[q] /\ data'[q] = data[q] /\ Mine(q)' = Mine(q)
        BY <1>8, <1>9, <1>12, <2>2
      <3> QED BY <1>0, <3>1 DEF Bits
    <2> QED BY <2>1, <2>2
  <1>14. FullPages'
    <2> SUFFICES ASSUME NEW q \in SmallPage, mf[q]
                 PROVE  pn'[q] # -1 /\ Slots(pn'[q]) \subseteq data'[q]
      BY <1>3 DEF FullPages, Slots
    <2>1. q # p
      BY <1>7
    <2>2. pn[q] # -1 /\ Slots(pn[q]) \subseteq data[q]
      BY <1>0, <1>4, <1>5 DEF FullPages
    <2> QED BY <1>8, <1>9, <2>1, <2>2
  <1>15. Objects'
    <2> SUFFICES ASSUME NEW o \in objects'
                 PROVE  pn'[o[1]] # -1 /\ o[2] \notin Small!Header(pn'[o[1]])
      BY DEF Objects, Small!Header
    <2>1. CASE o \in objects
      <3>1. pn[o[1]] # -1 /\ o[2] \notin Small!Header(pn[o[1]]) /\ o[1] \in SmallPage
        BY <1>0, <2>1 DEF Objects, SmallType
      <3>2. pn'[o[1]] = pn[o[1]]
        BY <1>3, <1>8, <3>1
      <3> QED BY <3>1, <3>2
    <2>2. CASE o = <<p, hs>>
      BY <1>4, <1>8, <2>2
    <2> QED BY <1>3, <2>1, <2>2
  <1> QED BY <1>10, <1>11, <1>13, <1>14, <1>15 DEF SmallInv

(* A page put in front of a list that it is not in *)
LEMMA PushProperties ==
  ASSUME NEW S, NEW l \in Seq(S), NEW e \in S, e \notin Range(l), IsInjective(l)
  PROVE  /\ LIST1_PUSH(l, e) \in Seq(S)
         /\ IsInjective(LIST1_PUSH(l, e))
         /\ Range(LIST1_PUSH(l, e)) = Range(l) \cup {e}
  <1>0. <<e>> \in Seq(S) /\ Len(<<e>>) = 1 /\ <<e>>[1] = e
    OBVIOUS
  <1>1. PICK h \in Seq(S) : h = <<e>> /\ Len(h) = 1 /\ h[1] = e
    BY <1>0, Zenon
  <1> DEFINE m == h \o l
  <1>2. Len(l) \in Nat /\ DOMAIN l = 1 .. Len(l)
    OBVIOUS
  <1>3. /\ m \in Seq(S) /\ Len(m) = 1 + Len(l) /\ m[1] = e
        /\ \A k \in 1 .. Len(l) : m[1 + k] = l[k]
    BY <1>1, Concatenation
  <1> HIDE DEF m
  <1>4. DOMAIN m = 1 .. 1 + Len(l)
    BY <1>2, <1>3
  <1>5. \A k \in 1 .. 1 + Len(l) : k = 1 \/ (k - 1 \in 1 .. Len(l) /\ m[k] = l[k - 1])
    <2> SUFFICES ASSUME NEW k \in 1 .. 1 + Len(l), k # 1
                 PROVE  k - 1 \in 1 .. Len(l) /\ m[k] = l[k - 1]
      OBVIOUS
    <2>1. k - 1 \in 1 .. Len(l) /\ 1 + (k - 1) = k
      BY <1>2
    <2> QED BY <1>3, <2>1
  <1>6. \A k \in 1 .. Len(l) : l[k] # e
    BY <1>2 DEF Range
  <1>7. IsInjective(m)
    <2> SUFFICES ASSUME NEW a \in 1 .. 1 + Len(l), NEW b \in 1 .. 1 + Len(l), m[a] = m[b]
                 PROVE  a = b
      BY <1>4 DEF IsInjective
    <2>1. CASE a = 1
      BY <1>3, <1>5, <1>6, <2>1
    <2>2. CASE b = 1
      BY <1>3, <1>5, <1>6, <2>2
    <2>3. CASE a # 1 /\ b # 1
      <3>1. a - 1 \in 1 .. Len(l) /\ b - 1 \in 1 .. Len(l) /\ l[a - 1] = l[b - 1]
        BY <1>5, <2>3
      <3>2. a - 1 = b - 1
        BY <1>2, <3>1 DEF IsInjective
      <3> QED BY <1>2, <3>2
    <2> QED BY <2>1, <2>2, <2>3
  <1>8. Range(m) = Range(l) \cup {e}
    <2>1. ASSUME NEW x \in Range(m) PROVE x \in Range(l) \cup {e}
      <3>1. PICK k \in 1 .. 1 + Len(l) : x = m[k]
        BY <1>4 DEF Range
      <3> QED BY <1>2, <1>3, <1>5, <3>1 DEF Range
    <2>2. ASSUME NEW x \in Range(l) PROVE x \in Range(m)
      <3>1. PICK k \in 1 .. Len(l) : x = l[k]
        BY <1>2 DEF Range
      <3>2. 1 + k \in 1 .. 1 + Len(l)
        BY <1>2
      <3> QED BY <1>3, <1>4, <3>1, <3>2 DEF Range
    <2>3. e \in Range(m)
      <3>1. 1 \in 1 .. 1 + Len(l)
        BY <1>2
      <3> QED BY <1>3, <1>4, <3>1 DEF Range
    <2> QED BY <2>1, <2>2, <2>3
  <1>9. LIST1_PUSH(l, e) = m
    BY <1>1 DEF LIST1_PUSH, m
  <1> QED BY <1>3, <1>7, <1>8, <1>9

LEMMA FreeStep == ASSUME SmallInv, Small!free PROVE SmallInv'
  <1>0. SmallType /\ Listed /\ Bits /\ FullPages /\ Objects
    BY DEF SmallInv
  <1>1. PICK o \in objects :
          /\ Small!Relink(o[1])
          /\ data' = [data EXCEPT ![o[1]] = Small!ClearBit(o[1], o[2])]
          /\ objects' = objects \ {o}
          /\ pn' = pn
    BY DEF Small!free
  <1> DEFINE p == o[1]
             j == o[2]
             n == pn[p]
  <1>2. p \in SmallPage /\ j \in Nat /\ o = <<p, j>>
    BY <1>0 DEF SmallType
  <1>3. n # -1 /\ n \in SmallSize /\ j \notin Small!Header(n)
    BY <1>0, <1>1, <1>2 DEF Objects, SmallType
  <1>4. data' = [data EXCEPT ![p] = data[p] \ {j}]
    BY <1>1 DEF Small!ClearBit
  <1>5. IF full[p]
        THEN /\ alloclist' = [alloclist EXCEPT ![n] = LIST1_PUSH(alloclist[n], p)]
             /\ full' = [full EXCEPT ![p] = FALSE]
        ELSE alloclist' = alloclist /\ full' = full
    BY <1>1, SameLists DEF Small!Relink
  <1> HIDE DEF p, j, n
  <1>6. \A q \in SmallPage : full'[q] = (q # p /\ full[q])
    BY <1>0, <1>2, <1>5 DEF SmallType
  <1>7. \A q \in SmallPage : data'[q] = IF q = p THEN data[p] \ {j} ELSE data[q]
    BY <1>0, <1>2, <1>4 DEF SmallType
  <1>8. /\ IsInjective(alloclist[n]) /\ alloclist[n] \in Seq(SmallPage)
        /\ \A q \in SmallPage : q \in Range(alloclist[n]) <=> pn[q] = n /\ ~full[q]
    BY <1>0, <1>3 DEF Listed, SmallType
  <1>9. full[p] => /\ LIST1_PUSH(alloclist[n], p) \in Seq(SmallPage)
                   /\ IsInjective(LIST1_PUSH(alloclist[n], p))
                   /\ Range(LIST1_PUSH(alloclist[n], p)) = Range(alloclist[n]) \cup {p}
    <2> SUFFICES ASSUME full[p]
                 PROVE  /\ LIST1_PUSH(alloclist[n], p) \in Seq(SmallPage)
                        /\ IsInjective(LIST1_PUSH(alloclist[n], p))
                        /\ Range(LIST1_PUSH(alloclist[n], p)) = Range(alloclist[n]) \cup {p}
      OBVIOUS
    <2>1. p \notin Range(alloclist[n])
      BY <1>2, <1>8
    <2>2. PICK l \in Seq(SmallPage) : l = alloclist[n]
      BY <1>8
    <2>3. /\ LIST1_PUSH(l, p) \in Seq(SmallPage)
          /\ IsInjective(LIST1_PUSH(l, p))
          /\ Range(LIST1_PUSH(l, p)) = Range(l) \cup {p}
      BY <1>2, <1>8, <2>1, <2>2, PushProperties
    <2> QED BY <2>2, <2>3
  <1>10. SmallType'
    <2>1. data' \in [SmallPage -> SUBSET Nat]
      BY <1>0, <1>2, <1>4 DEF SmallType
    <2>2. objects' \subseteq SmallPage \X Nat
      BY <1>0, <1>1 DEF SmallType
    <2>3. alloclist' \in [SmallSize -> Seq(SmallPage)]
      BY <1>0, <1>3, <1>5, <1>9 DEF SmallType
    <2>4. full' \in [SmallPage -> BOOLEAN]
      BY <1>0, <1>2, <1>5 DEF SmallType
    <2> QED BY <1>0, <1>1, <2>1, <2>2, <2>3, <2>4 DEF SmallType
  <1>11. Listed'
    <2> SUFFICES ASSUME NEW m \in SmallSize
                 PROVE  /\ IsInjective(alloclist'[m])
                        /\ \A q \in SmallPage : q \in Range(alloclist'[m]) <=> pn[q] = m /\ ~full'[q]
      BY <1>1 DEF Listed, IsInjective, Range
    <2>1. /\ IsInjective(alloclist[m])
          /\ \A q \in SmallPage : q \in Range(alloclist[m]) <=> pn[q] = m /\ ~full[q]
      BY <1>0 DEF Listed
    <2>2. CASE ~full[p]
      BY <1>5, <2>1, <2>2
    <2>3. CASE full[p] /\ m # n
      <3>1. alloclist'[m] = alloclist[m]
        BY <1>0, <1>5, <2>3 DEF SmallType
      <3>2. \A q \in SmallPage : pn[q] = m => full'[q] = full[q]
        BY <1>0, <1>6, <2>3 DEF n, SmallType
      <3> QED BY <2>1, <3>1, <3>2
    <2>4. CASE full[p] /\ m = n
      <3>1. alloclist'[m] = LIST1_PUSH(alloclist[n], p)
        BY <1>0, <1>5, <2>4 DEF SmallType
      <3>2. IsInjective(alloclist'[m])
        BY <1>9, <2>4, <3>1
      <3>3. Range(alloclist'[m]) = Range(alloclist[n]) \cup {p}
        BY <1>9, <2>4, <3>1
      <3>4. \A q \in SmallPage :
               q \in Range(alloclist[n]) \cup {p} <=> pn[q] = n /\ ~full'[q]
        BY <1>6, <1>8 DEF n
      <3> QED BY <2>4, <3>2, <3>3, <3>4
    <2> QED BY <2>2, <2>3, <2>4
  <1>12. \A q \in SmallPage : Mine(q)' = IF q = p THEN Mine(p) \ {j} ELSE Mine(q)
    <2> SUFFICES ASSUME NEW q \in SmallPage
                 PROVE  {y[2] : y \in {x \in objects' : x[1] = q}}
                           = IF q = p THEN Mine(p) \ {j} ELSE Mine(q)
      BY DEF Mine
    <2>1. objects' = objects \ {o}
      BY <1>1
    <2>2. CASE q = p
      <3>1. ASSUME NEW y \in objects', y[1] = p PROVE y[2] # j
        <4>1. y \in SmallPage \X Nat /\ y # o
          BY <1>0, <2>1, <3>1 DEF SmallType
        <4>2. y = <<y[1], y[2]>>
          BY <4>1
        <4> QED BY <1>2, <3>1, <4>1, <4>2
      <3>2. ASSUME NEW y \in objects, y[1] = p, y[2] # j PROVE y \in objects'
        BY <2>1, <3>2 DEF j
      <3>3. \A y \in objects' : y \in objects
        BY <2>1
      <3>4. {y[2] : y \in {x \in objects' : x[1] = p}}
               = {y[2] : y \in {x \in objects : x[1] = p}} \ {j}
        BY <3>1, <3>2, <3>3
      <3> QED BY <2>2, <3>4 DEF Mine
    <2>3. CASE q # p
      <3>1. {x \in objects' : x[1] = q} = {x \in objects : x[1] = q}
        BY <2>1, <2>3 DEF p
      <3> QED BY <2>3, <3>1 DEF Mine
    <2> QED BY <2>2, <2>3
  <1>13. Bits'
    <2> SUFFICES ASSUME NEW q \in SmallPage, pn[q] # -1
                 PROVE  /\ data'[q] \subseteq Slots(pn[q])
                        /\ data'[q] = Small!Header(pn[q]) \cup Mine(q)'
      BY <1>1 DEF Bits, Slots, Small!Header
    <2>1. data[q] \subseteq Slots(pn[q]) /\ data[q] = Small!Header(pn[q]) \cup Mine(q)
      BY <1>0 DEF Bits
    <2>2. CASE q = p
      <3>1. pn[q] = n
        BY <2>2 DEF n
      <3> QED BY <1>3, <1>7, <1>12, <2>1, <2>2, <3>1
    <2>3. CASE q # p
      BY <1>7, <1>12, <2>1, <2>3
    <2> QED BY <2>2, <2>3
  <1>14. FullPages'
    <2> SUFFICES ASSUME NEW q \in SmallPage, full'[q]
                 PROVE  pn[q] # -1 /\ Slots(pn[q]) \subseteq data'[q]
      BY <1>1 DEF FullPages, Slots
    <2>1. q # p /\ full[q]
      BY <1>6
    <2> QED BY <1>0, <1>7, <2>1 DEF FullPages
  <1>15. Objects'
    BY <1>0, <1>1 DEF Objects, Small!Header
  <1> QED BY <1>10, <1>11, <1>13, <1>14, <1>15 DEF SmallInv

LEMMA SmallStep == SmallInv /\ [Small!Next]_smallvars => SmallInv'
  <1> SUFFICES ASSUME SmallInv, [Small!Next]_smallvars PROVE SmallInv'
    OBVIOUS
  <1>1. ASSUME NEW n \in SmallSize, Small!AllocFrom(n) PROVE SmallInv'
    BY <1>1, AllocFromStep
  <1>2. ASSUME NEW n \in SmallSize, Small!AllocNew(n) PROVE SmallInv'
    BY <1>2, AllocNewStep
  <1>3. CASE Small!free
    BY <1>3, FreeStep
  <1>4. CASE UNCHANGED smallvars
    BY <1>4 DEF smallvars, SmallInv, SmallType, Listed, Bits, FullPages, Objects, Mine,
                Slots, Small!Header, IsInjective, Range
  <1> QED BY <1>1, <1>2, <1>3, <1>4 DEF Small!Next

LEMMA SmallSafe == SmallInv => SlotsAccounted
  <1> SUFFICES ASSUME SmallInv, NEW p \in SmallPage, pn[p] # -1
               PROVE  /\ data[p] = Small!Header(pn[p]) \cup Mine(p)
                      /\ Small!Cardinality({k \in 1 .. Len(alloclist[pn[p]]) : alloclist[pn[p]][k] = p})
                            = IF full[p] THEN 0 ELSE 1
                      /\ full[p] => Small!Unused(p, pn[p]) = {}
    BY DEF SlotsAccounted, Small!SlotsAccounted, Mine
  <1>1. data[p] = Small!Header(pn[p]) \cup Mine(p)
    BY DEF SmallInv, Bits
  <1>2. full[p] => Small!Unused(p, pn[p]) = {}
    <2>1. Small!Unused(p, pn[p]) = Slots(pn[p]) \ data[p]
      BY UnusedIs
    <2> QED BY <2>1 DEF SmallInv, FullPages
  <1> DEFINE l == alloclist[pn[p]]
             S == {k \in 1 .. Len(l) : l[k] = p}
  <1>3. /\ IsInjective(l) /\ DOMAIN l = 1 .. Len(l)
        /\ p \in Range(l) <=> ~full[p]
    <2>1. pn[p] \in SmallSize
      BY DEF SmallInv, SmallType
    <2> QED BY <2>1 DEF SmallInv, SmallType, Listed
  <1> HIDE DEF l
  <1>4. Cardinality(S) = IF full[p] THEN 0 ELSE 1
    <2>1. CASE full[p]
      <3>1. S = {}
        BY <1>3, <2>1 DEF Range
      <3> QED BY <2>1, <3>1, FS_EmptySet
    <2>2. CASE ~full[p]
      <3>1. PICK k \in 1 .. Len(l) : l[k] = p
        BY <1>3, <2>2 DEF Range
      <3>2. S = {k}
        BY <1>3, <3>1 DEF IsInjective
      <3>3. Cardinality({k}) = 1
        BY FS_Singleton
      <3> QED BY <2>2, <3>2, <3>3
    <2> QED BY <2>1, <2>2
  <1>5. Small!Cardinality(S) = Cardinality(S)
    BY SameCardinality
  <1> QED BY <1>1, <1>2, <1>4, <1>5 DEF l

(* alloc() and free() of small objects: for every number of pages and      *)
(* every choice of sizes, slots and headers, the bits of a page are those  *)
(* of its header and of the objects that callers have, and a page with a   *)
(* free slot is in the list of its size, once.                             *)
THEOREM SmallObjectsAccounted == Small!Spec => []SlotsAccounted
  <1>1. Small!Spec => []SmallInv
    BY SmallInit, SmallStep, PTL DEF Small!Spec, Small!vars, smallvars
  <1> QED BY <1>1, SmallSafe, PTL

-----------------------------------------------------------------------------
(***************************************************************************)
(* Powers of two.  PageCount is a recursive function; that it satisfies    *)
(* its recursion rests on the existence of every finite part of it.        *)
(***************************************************************************)
Doubles(f, n) == f \in [0 .. n -> Nat] /\ f[0] = 1 /\ \A k \in 1 .. n : f[k] = 2 * f[k - 1]

LEMMA DoublesExists == \A n \in Nat : \E f : Doubles(f, n)
  <1> DEFINE S == {n \in Nat : ~\E f : Doubles(f, n)}
  <1> SUFFICES ASSUME S # {} PROVE FALSE
    OBVIOUS
  <1>1. PICK x \in S : \A y \in S : x <= y
    BY HasLeast
  <1>2. CASE x = 0
    <2>1. Doubles([k \in 0 .. 0 |-> 1], 0)
      BY DEF Doubles
    <2> QED BY <1>2, <2>1
  <1>3. CASE x # 0
    <2>1. x \in Nat /\ x - 1 \in Nat /\ x - 1 < x
      BY <1>3
    <2>2. x - 1 \notin S
      BY <1>1, <2>1
    <2>3. PICK f : Doubles(f, x - 1)
      BY <2>1, <2>2
    <2> DEFINE g == [k \in 0 .. x |-> IF k = x THEN 2 * f[x - 1] ELSE f[k]]
    <2>4. f \in [0 .. x - 1 -> Nat] /\ f[0] = 1 /\ \A k \in 1 .. x - 1 : f[k] = 2 * f[k - 1]
      BY <2>3 DEF Doubles
    <2>5. \A k \in 0 .. x : k # x => k \in 0 .. x - 1
      BY <2>1
    <2>6. g \in [0 .. x -> Nat]
      BY <2>1, <2>4, <2>5
    <2>7. g[0] = 1
      BY <1>3, <2>1, <2>4
    <2>8. ASSUME NEW k \in 1 .. x PROVE g[k] = 2 * g[k - 1]
      <3>1. k \in 0 .. x /\ k - 1 \in 0 .. x /\ k - 1 # x
        BY <2>1
      <3>2. g[k - 1] = f[k - 1]
        BY <3>1
      <3>3. CASE k = x
        BY <3>1, <3>2, <3>3
      <3>4. CASE k # x
        <4>1. k \in 1 .. x - 1
          BY <2>1, <3>4
        <4> QED BY <2>4, <3>1, <3>2, <3>4, <4>1
      <3> QED BY <3>3, <3>4
    <2>9. Doubles(g, x)
      BY <2>6, <2>7, <2>8 DEF Doubles
    <2> QED BY <2>9
  <1> QED BY <1>2, <1>3

LEMMA DoublesUnique ==
  ASSUME NEW m \in Nat, NEW n \in Nat, m <= n, NEW f, NEW g, Doubles(f, m), Doubles(g, n)
  PROVE  \A k \in 0 .. m : f[k] = g[k]
  <1> DEFINE S == {k \in 0 .. m : f[k] # g[k]}
  <1> SUFFICES ASSUME S # {} PROVE FALSE
    OBVIOUS
  <1>1. S \in SUBSET Nat
    OBVIOUS
  <1>2. PICK x \in S : \A y \in S : x <= y
    BY <1>1, HasLeast
  <1>3. /\ f[0] = 1 /\ g[0] = 1
        /\ \A k \in 1 .. m : f[k] = 2 * f[k - 1]
        /\ \A k \in 1 .. n : g[k] = 2 * g[k - 1]
    BY DEF Doubles
  <1>4. x # 0
    BY <1>3
  <1>5. x \in 1 .. m /\ x \in 1 .. n /\ x - 1 \in 0 .. m /\ x - 1 < x
    BY <1>4
  <1>6. x - 1 \notin S
    BY <1>1, <1>2, <1>5
  <1>7. f[x - 1] = g[x - 1]
    BY <1>5, <1>6
  <1> QED BY <1>3, <1>5, <1>7

LEMMA PageCountDef == PageCount = [n \in Nat |-> IF n = 0 THEN 1 ELSE 2 * PageCount[n - 1]]
  <1> DEFINE F(n) == CHOOSE f : Doubles(f, n)
             g == [n \in Nat |-> F(n)[n]]
  <1>1. \A n \in Nat : Doubles(F(n), n)
    BY DoublesExists
  <1>2. ASSUME NEW n \in Nat PROVE g[n] = IF n = 0 THEN 1 ELSE 2 * g[n - 1]
    <2>1. Doubles(F(n), n) /\ g[n] = F(n)[n]
      BY <1>1
    <2>2. CASE n = 0
      BY <2>1, <2>2 DEF Doubles
    <2>3. CASE n # 0
      <3>1. n - 1 \in Nat /\ n - 1 <= n /\ n \in 1 .. n /\ n - 1 \in 0 .. n - 1
        BY <2>3
      <3>2. Doubles(F(n - 1), n - 1) /\ g[n - 1] = F(n - 1)[n - 1]
        BY <1>1, <3>1
      <3>3. F(n)[n] = 2 * F(n)[n - 1]
        BY <2>1, <3>1 DEF Doubles
      <3> HIDE DEF F
      <3>4. F(n - 1)[n - 1] = F(n)[n - 1]
        BY <2>1, <3>1, <3>2, DoublesUnique
      <3> QED BY <2>1, <2>3, <3>2, <3>3, <3>4
    <2> QED BY <2>2, <2>3
  <1>3. g = [n \in Nat |-> IF n = 0 THEN 1 ELSE 2 * g[n - 1]]
    <2>1. g = [n \in Nat |-> F(n)[n]]
      OBVIOUS
    <2> HIDE DEF g, F
    <2> QED BY <1>2, <2>1
  <1> HIDE DEF g
  <1> QED BY <1>3, Zenon DEF PageCount

LEMMA PageCountFacts ==
  /\ PageCount[0] = 1
  /\ \A n \in Nat : PageCount[n + 1] = 2 * PageCount[n] /\ PageCount[n] \in Nat \ {0}
  <1>1. \A n \in Nat : PageCount[n] = IF n = 0 THEN 1 ELSE 2 * PageCount[n - 1]
    BY PageCountDef
  <1>2. PageCount[0] = 1
    BY <1>1
  <1>3. \A n \in Nat : PageCount[n + 1] = 2 * PageCount[n]
    <2> TAKE n \in Nat
    <2>1. n + 1 \in Nat /\ n + 1 # 0 /\ (n + 1) - 1 = n
      OBVIOUS
    <2> QED BY <1>1, <2>1
  <1>4. \A n \in Nat : PageCount[n] \in Nat \ {0}
    <2> DEFINE S == {n \in Nat : PageCount[n] \notin Nat \ {0}}
    <2> SUFFICES ASSUME S # {} PROVE FALSE
      OBVIOUS
    <2>1. PICK x \in S : \A y \in S : x <= y
      BY HasLeast
    <2>2. x # 0
      BY <1>2
    <2>3. x - 1 \in Nat /\ x - 1 < x /\ (x - 1) + 1 = x
      BY <2>2
    <2>4. PageCount[x - 1] \in Nat \ {0}
      BY <2>1, <2>3
    <2>5. PageCount[x] = 2 * PageCount[x - 1]
      BY <1>3, <2>3
    <2> QED BY <2>4, <2>5
  <1> QED BY <1>2, <1>3, <1>4

(* Multiples, and those that are not multiples of the double *)
Multiple(x, w) == \E q \in Nat : x = w * q
OddMultiple(x, w) == \E q \in Nat : x = w * (2 * q + 1)

LEMMA Quotient ==
  ASSUME NEW w \in Nat \ {0}, NEW q \in Nat
  PROVE  (w * q) \div w = q
  <1> DEFINE x == w * q
  <1>1. x \in Int
    OBVIOUS
  <1> HIDE DEF x
  <1>2. x = w * (x \div w) + (x % w) /\ x % w \in 0 .. w - 1 /\ x \div w \in Int
    BY <1>1
  <1>3. (w * q + 0) % w = 0
    BY Remainder
  <1>4. x % w = 0
    BY <1>3 DEF x
  <1>5. w * (x \div w) = w * q
    BY <1>1, <1>2, <1>4 DEF x
  <1>6. w * ((x \div w) - q) = w * (x \div w) - w * q
    BY <1>2
  <1>7. w * ((x \div w) - q) = 0
    BY <1>5, <1>6
  <1>8. (x \div w) - q = 0
    <2>1. PICK z \in Int : z = (x \div w) - q
      BY <1>2
    <2>2. w * z = 0
      BY <1>7, <2>1
    <2>3. CASE z > 0
      <3>1. w * z >= w
        BY <2>3
      <3> QED BY <2>2, <3>1
    <2>4. CASE z < 0
      <3>1. w * z <= -w
        BY <2>4
      <3> QED BY <2>2, <3>1
    <2> QED BY <2>1, <2>3, <2>4
  <1> QED BY <1>2, <1>8 DEF x

LEMMA EvenCase ==
  ASSUME NEW w \in Nat \ {0}, NEW x \in Nat, Multiple(x, 2 * w)
  PROVE  /\ Multiple(x, w) /\ (x \div w) % 2 = 0 /\ OddMultiple(x + w, w)
         /\ ~OddMultiple(x, w)
  <1>1. PICK q \in Nat : x = (2 * w) * q
    BY DEF Multiple
  <1>2. x = w * (2 * q) /\ 2 * q \in Nat
    BY <1>1
  <1>3. Multiple(x, w)
    BY <1>2 DEF Multiple
  <1>4. x \div w = 2 * q
    <2>1. (w * (2 * q)) \div w = 2 * q
      BY <1>2, Quotient
    <2> QED BY <1>2, <2>1
  <1>5. (2 * q) % 2 = 0
    OBVIOUS
  <1>6. x + w = w * (2 * q + 1)
    BY <1>2
  <1>7. ~OddMultiple(x, w)
    <2> SUFFICES ASSUME NEW r \in Nat, x = w * (2 * r + 1) PROVE FALSE
      BY DEF OddMultiple
    <2>1. 2 * r + 1 \in Nat
      OBVIOUS
    <2>2. (w * (2 * r + 1)) \div w = 2 * r + 1
      BY <2>1, Quotient
    <2>3. 2 * r + 1 = 2 * q
      BY <1>4, <2>2
    <2> QED BY <2>3
  <1> QED BY <1>3, <1>4, <1>5, <1>6, <1>7 DEF OddMultiple

LEMMA OddCase ==
  ASSUME NEW w \in Nat \ {0}, NEW x \in Nat, OddMultiple(x, w)
  PROVE  /\ (x \div w) % 2 = 1 /\ x - w \in Nat /\ Multiple(x - w, 2 * w)
         /\ x % (2 * w) = w
  <1>1. PICK q \in Nat : x = w * (2 * q + 1)
    BY DEF OddMultiple
  <1>2. 2 * q + 1 \in Nat
    OBVIOUS
  <1>3. x \div w = 2 * q + 1
    <2>1. (w * (2 * q + 1)) \div w = 2 * q + 1
      BY <1>2, Quotient
    <2> QED BY <1>1, <2>1
  <1>4. (2 * q + 1) % 2 = 1
    OBVIOUS
  <1>5. x - w = (2 * w) * q
    BY <1>1
  <1>6. (2 * w) * q \in Nat
    OBVIOUS
  <1>7. x % (2 * w) = w
    <2>1. 2 * w \in Nat \ {0} /\ w \in 0 .. 2 * w - 1
      OBVIOUS
    <2>2. PICK n \in Nat \ {0} : n = 2 * w
      BY <2>1
    <2>3. (n * q + w) % n = w
      <3>1. w \in 0 .. n - 1 /\ q \in Int
        BY <2>1, <2>2
      <3> QED BY <3>1, Remainder
    <2>4. x = n * q + w
      BY <1>5, <2>2
    <2> QED BY <2>2, <2>3, <2>4
  <1> QED BY <1>3, <1>4, <1>5, <1>6, <1>7 DEF Multiple

LEMMA EvenOrOdd ==
  ASSUME NEW w \in Nat \ {0}, NEW x \in Nat, Multiple(x, w)
  PROVE  Multiple(x, 2 * w) \/ OddMultiple(x, w)
  <1>1. PICK q \in Nat : x = w * q
    BY DEF Multiple
  <1>2. q = 2 * (q \div 2) + (q % 2) /\ q \div 2 \in Nat /\ q % 2 \in {0, 1}
    OBVIOUS
  <1>3. PICK r \in Nat : q = 2 * r \/ q = 2 * r + 1
    BY <1>2
  <1>4. CASE q = 2 * r
    <2>1. x = (2 * w) * r
      BY <1>1, <1>4
    <2> QED BY <2>1 DEF Multiple
  <1>5. CASE q = 2 * r + 1
    BY <1>1, <1>5 DEF OddMultiple
  <1> QED BY <1>3, <1>4, <1>5

LEMMA MultipleEnds ==
  ASSUME NEW w \in Nat \ {0}, NEW x \in Nat, NEW y \in Nat, Multiple(x, w), Multiple(y, w), x < y
  PROVE  x + w <= y
  <1>1. PICK q \in Nat : x = w * q
    BY DEF Multiple
  <1>2. PICK r \in Nat : y = w * r
    BY DEF Multiple
  <1>3. w * (r - q) = w * r - w * q
    OBVIOUS
  <1>4. w * (r - q) > 0
    BY <1>1, <1>2, <1>3
  <1>5. r - q >= 1
    BY <1>4
  <1>6. w * (r - q) >= w
    BY <1>5
  <1> QED BY <1>1, <1>2, <1>3, <1>6

LEMMA LargerPower ==
  ASSUME NEW a \in Nat, NEW d \in Nat, NEW x \in Nat, Multiple(x, PageCount[a + d])
  PROVE  Multiple(x, PageCount[a])
  <1> DEFINE S == {k \in Nat : Multiple(x, PageCount[a + k]) /\ ~Multiple(x, PageCount[a])}
  <1> SUFFICES ASSUME S # {} PROVE FALSE
    BY DEF S
  <1>1. PICK k \in S : \A y \in S : k <= y
    BY HasLeast
  <1>2. Multiple(x, PageCount[a + k]) /\ ~Multiple(x, PageCount[a]) /\ k \in Nat
    BY <1>1
  <1>3. k # 0
    <2> SUFFICES ASSUME k = 0 PROVE FALSE
      OBVIOUS
    <2>1. a + k = a
      OBVIOUS
    <2> QED BY <1>2, <2>1
  <1>4. k - 1 \in Nat /\ k - 1 < k /\ a + (k - 1) \in Nat /\ (a + (k - 1)) + 1 = a + k
    BY <1>2, <1>3
  <1>5. PICK w \in Nat \ {0} : w = PageCount[a + (k - 1)]
    BY <1>4, PageCountFacts
  <1>6. PageCount[a + k] = 2 * w
    BY <1>4, <1>5, PageCountFacts
  <1>7. Multiple(x, 2 * w)
    BY <1>2, <1>6
  <1>8. Multiple(x, w)
    BY <1>7, EvenCase
  <1>9. k - 1 \in S
    BY <1>2, <1>4, <1>5, <1>8
  <1> QED BY <1>1, <1>2, <1>4, <1>9

(* How often a number can be halved is determined by the number. *)
LEMMA OddOnce ==
  ASSUME NEW x \in Nat, NEW a \in Nat, NEW b \in Nat,
         OddMultiple(x, PageCount[a]), Multiple(x, PageCount[b])
  PROVE  b <= a
  <1> SUFFICES ASSUME b > a PROVE FALSE
    OBVIOUS
  <1>1. b - (a + 1) \in Nat /\ (a + 1) + (b - (a + 1)) = b /\ a + 1 \in Nat
    OBVIOUS
  <1>2. PICK m \in Nat : m = a + 1
    BY <1>1
  <1>3. PICK d \in Nat : d = b - (a + 1)
    BY <1>1
  <1>4. m + d = b
    BY <1>1, <1>2, <1>3
  <1>5. Multiple(x, PageCount[m])
    BY <1>4, LargerPower
  <1>6. PICK w \in Nat \ {0} : w = PageCount[a]
    BY PageCountFacts
  <1>7. PageCount[m] = 2 * w
    BY <1>2, <1>6, PageCountFacts
  <1>8. Multiple(x, 2 * w)
    BY <1>5, <1>7
  <1>9. ~OddMultiple(x, w)
    BY <1>8, EvenCase
  <1> QED BY <1>6, <1>9

LEMMA OddUnique ==
  ASSUME NEW x \in Nat, NEW a \in Nat, NEW b \in Nat,
         OddMultiple(x, PageCount[a]), OddMultiple(x, PageCount[b])
  PROVE  a = b
  <1>1. ASSUME NEW w, OddMultiple(x, w) PROVE Multiple(x, w)
    <2>1. PICK q \in Nat : x = w * (2 * q + 1)
      BY <1>1 DEF OddMultiple
    <2>2. 2 * q + 1 \in Nat
      OBVIOUS
    <2> QED BY <2>1, <2>2 DEF Multiple
  <1>2. Multiple(x, PageCount[a]) /\ Multiple(x, PageCount[b])
    BY <1>1
  <1>3. b <= a /\ a <= b
    BY <1>2, OddOnce
  <1> QED BY <1>3

-----------------------------------------------------------------------------
(***************************************************************************)
(* The page allocator.  The types and sizes alone say how memory is        *)
(* divided into blocks: a block starts at a page that is FREE or           *)
(* ALLOCATED, at a multiple of its size, and the other pages in it are     *)
(* NOT_HEAD; each of these remembers the size at which it was merged, and  *)
(* is an odd multiple of it, so that this size is the one at which it will *)
(* be split off.                                                           *)
(***************************************************************************)
PageTypes == {"FREE", "NOT_HEAD", "ALLOCATED", "RESERVED"}
IsHead(ty, p) == ty[p] \in {"FREE", "ALLOCATED"}
Span(sz, p) == p .. p + PageCount[sz[p]] - 1

TileTypes(ty, sz) == ty \in [Page -> PageTypes] /\ sz \in [Page -> Size]

ReservedPages(ty, sz, K) ==
    \A x \in Page : (x \in K <=> ty[x] = "RESERVED") /\ (ty[x] = "RESERVED" => sz[x] = 0)

Uppers(ty, sz) ==
    \A x \in Page : ty[x] = "NOT_HEAD" =>
        /\ OddMultiple(x, PageCount[sz[x]])
        /\ \E p \in Page : IsHead(ty, p) /\ x \in Span(sz, p)

Aligned(ty, sz) == \A p \in Page : IsHead(ty, p) => Multiple(p, PageCount[sz[p]])

Inside(ty, sz) ==
    \A p \in Page : IsHead(ty, p) =>
        \A x \in Span(sz, p) : x \in Page /\ (x = p \/ ty[x] = "NOT_HEAD")

Tiling(ty, sz, K) ==
    TileTypes(ty, sz) /\ ReservedPages(ty, sz, K) /\ Uppers(ty, sz) /\ Aligned(ty, sz) /\ Inside(ty, sz)

Put(f, x, v) == [f EXCEPT ![x] = v]

LEMMA PageFacts ==
  /\ NUM_OF_PAGES \in Nat \ {0} /\ NUM_OF_ALLOCSIZE \in Nat \ {0}
  /\ Page = 0 .. NUM_OF_PAGES - 1 /\ Size = 0 .. NUM_OF_ALLOCSIZE - 1
  /\ \A n \in Size : n \in Nat /\ PageCount[n] \in Nat \ {0}
                     /\ PageCount[n + 1] = 2 * PageCount[n]
  /\ 0 \in Size /\ NULL \notin Page /\ NULL \notin CPU
  <1>1. /\ NUM_OF_PAGES \in Nat \ {0} /\ NUM_OF_ALLOCSIZE \in Nat \ {0}
        /\ NULL \notin Page /\ NULL \notin CPU
    BY PageAssumption
  <1>2. Page = 0 .. NUM_OF_PAGES - 1 /\ Size = 0 .. NUM_OF_ALLOCSIZE - 1
    BY DEF Page, Size
  <1>3. \A n \in Size : n \in Nat
    BY <1>2
  <1>4. 0 \in Size
    BY <1>1, <1>2
  <1>5. \A n \in Size : PageCount[n] \in Nat \ {0} /\ PageCount[n + 1] = 2 * PageCount[n]
    BY <1>3, PageCountFacts
  <1> QED BY <1>1, <1>2, <1>3, <1>4, <1>5

(* Blocks do not overlap. *)
LEMMA BlocksApart ==
  ASSUME NEW ty, NEW sz, NEW K, Tiling(ty, sz, K),
         NEW p \in Page, NEW q \in Page, IsHead(ty, p), IsHead(ty, q),
         NEW x \in Span(sz, p), x \in Span(sz, q)
  PROVE  p = q
  <1>1. Inside(ty, sz) /\ sz[p] \in Size /\ sz[q] \in Size
    BY DEF Tiling, TileTypes
  <1>2. PICK v \in Nat : v = PageCount[sz[p]]
    BY <1>1, PageFacts
  <1>3. PICK w \in Nat : w = PageCount[sz[q]]
    BY <1>1, PageFacts
  <1>4. p \in Nat /\ q \in Nat
    BY PageFacts
  <1>5. /\ x \in p .. p + v - 1 /\ x \in q .. q + w - 1
        /\ Span(sz, p) = p .. p + v - 1 /\ Span(sz, q) = q .. q + w - 1
    BY <1>2, <1>3 DEF Span
  <1>6. CASE p < q
    <2>1. q \in Span(sz, p) /\ q # p
      BY <1>4, <1>5, <1>6
    <2>2. ty[q] = "NOT_HEAD"
      BY <1>1, <2>1 DEF Inside
    <2> QED BY <2>2 DEF IsHead
  <1>7. CASE q < p
    <2>1. p \in Span(sz, q) /\ q # p
      BY <1>4, <1>5, <1>7
    <2>2. ty[p] = "NOT_HEAD"
      BY <1>1, <2>1 DEF Inside
    <2> QED BY <2>2 DEF IsHead
  <1> QED BY <1>4, <1>6, <1>7

(* A page is reserved or in a block. *)
LEMMA BlocksEverywhere ==
  ASSUME NEW ty, NEW sz, NEW K, Tiling(ty, sz, K), NEW x \in Page
  PROVE  /\ x \in K => \A p \in Page : IsHead(ty, p) => x \notin Span(sz, p)
         /\ x \notin K => \E p \in Page : IsHead(ty, p) /\ x \in Span(sz, p)
  <1>1. ReservedPages(ty, sz, K) /\ Uppers(ty, sz) /\ Inside(ty, sz) /\ TileTypes(ty, sz)
    BY DEF Tiling
  <1>2. ASSUME x \in K, NEW p \in Page, IsHead(ty, p), x \in Span(sz, p) PROVE FALSE
    <2>1. ty[x] = "RESERVED"
      BY <1>1, <1>2 DEF ReservedPages
    <2>2. x = p \/ ty[x] = "NOT_HEAD"
      BY <1>1, <1>2 DEF Inside
    <2> QED BY <1>2, <2>1, <2>2 DEF IsHead
  <1>3. ASSUME x \notin K PROVE \E p \in Page : IsHead(ty, p) /\ x \in Span(sz, p)
    <2>1. ty[x] # "RESERVED" /\ ty[x] \in PageTypes
      BY <1>1, <1>3 DEF ReservedPages, TileTypes
    <2>2. CASE ty[x] = "NOT_HEAD"
      BY <1>1, <2>2 DEF Uppers
    <2>3. CASE IsHead(ty, x)
      <3>1. sz[x] \in Size
        BY <1>1 DEF TileTypes
      <3>2. PICK w \in Nat \ {0} : w = PageCount[sz[x]]
        BY <3>1, PageFacts
      <3>3. x \in x .. x + w - 1
        BY PageFacts
      <3> QED BY <2>3, <3>2, <3>3 DEF Span
    <2> QED BY <2>1, <2>2, <2>3 DEF PageTypes, IsHead
  <1> QED BY <1>2, <1>3

(* A free block is handed out, or one is given back. *)
LEMMA TileMark ==
  ASSUME NEW ty, NEW sz, NEW K, Tiling(ty, sz, K),
         NEW p \in Page, IsHead(ty, p), NEW v \in {"FREE", "ALLOCATED"}
  PROVE  Tiling(Put(ty, p, v), sz, K)
  <1> DEFINE t == [ty EXCEPT ![p] = v]
  <1>1. /\ TileTypes(ty, sz) /\ ReservedPages(ty, sz, K) /\ Uppers(ty, sz)
        /\ Aligned(ty, sz) /\ Inside(ty, sz)
    BY DEF Tiling
  <1>2. \A x \in Page : t[x] = IF x = p THEN v ELSE ty[x]
    BY <1>1 DEF TileTypes
  <1>3. TileTypes(t, sz)
    BY <1>1 DEF TileTypes, PageTypes
  <1> HIDE DEF t
  <1>4. \A x \in Page : IsHead(t, x) <=> IsHead(ty, x)
    BY <1>2 DEF IsHead
  <1>5. \A x \in Page : /\ t[x] = "NOT_HEAD" <=> ty[x] = "NOT_HEAD"
                        /\ t[x] = "RESERVED" <=> ty[x] = "RESERVED"
    BY <1>2 DEF IsHead
  <1>6. ReservedPages(t, sz, K)
    BY <1>1, <1>5 DEF ReservedPages
  <1>7. Uppers(t, sz)
    BY <1>1, <1>4, <1>5 DEF Uppers
  <1>8. Aligned(t, sz)
    BY <1>1, <1>4 DEF Aligned
  <1>9. Inside(t, sz)
    BY <1>1, <1>4, <1>5 DEF Inside
  <1> QED BY <1>3, <1>6, <1>7, <1>8, <1>9 DEF Tiling, t, Put

(* A reserved page becomes a free block of its own. *)
LEMMA TileFree ==
  ASSUME NEW ty, NEW sz, NEW K, Tiling(ty, sz, K), NEW p \in Page, p \in K
  PROVE  /\ Tiling(Put(ty, p, "FREE"), sz, K \ {p})
         /\ sz[p] = 0 /\ ty[p] = "RESERVED"
  <1> DEFINE t == [ty EXCEPT ![p] = "FREE"]
  <1>1. /\ TileTypes(ty, sz) /\ ReservedPages(ty, sz, K) /\ Uppers(ty, sz)
        /\ Aligned(ty, sz) /\ Inside(ty, sz)
    BY DEF Tiling
  <1>2. \A x \in Page : t[x] = IF x = p THEN "FREE" ELSE ty[x]
    BY <1>1 DEF TileTypes
  <1>3. TileTypes(t, sz)
    BY <1>1 DEF TileTypes, PageTypes
  <1>4. ty[p] = "RESERVED" /\ sz[p] = 0
    BY <1>1 DEF ReservedPages
  <1>5. Span(sz, p) = {p} /\ Multiple(p, PageCount[sz[p]])
    <2>1. PageCount[sz[p]] = 1
      BY <1>4, PageCountFacts
    <2>2. p \in Nat /\ p = 1 * p
      BY PageFacts
    <2> QED BY <2>1, <2>2 DEF Span, Multiple
  <1> HIDE DEF t
  <1>6. \A x \in Page : IsHead(t, x) <=> IsHead(ty, x) \/ x = p
    BY <1>2 DEF IsHead
  <1>7. \A x \in Page : /\ t[x] = "NOT_HEAD" <=> ty[x] = "NOT_HEAD"
                        /\ t[x] = "RESERVED" <=> ty[x] = "RESERVED" /\ x # p
    BY <1>2, <1>4
  <1>8. ReservedPages(t, sz, K \ {p})
    BY <1>1, <1>7 DEF ReservedPages
  <1>9. Uppers(t, sz)
    BY <1>1, <1>6, <1>7 DEF Uppers
  <1>10. Aligned(t, sz)
    BY <1>1, <1>5, <1>6 DEF Aligned
  <1>11. Inside(t, sz)
    <2> SUFFICES ASSUME NEW q \in Page, IsHead(t, q), NEW x \in Span(sz, q)
                 PROVE  x \in Page /\ (x = q \/ t[x] = "NOT_HEAD")
      BY DEF Inside
    <2>1. CASE q = p
      BY <1>5, <2>1
    <2>2. CASE IsHead(ty, q)
      <3>1. x \in Page /\ (x = q \/ ty[x] = "NOT_HEAD")
        BY <1>1, <2>2 DEF Inside
      <3> QED BY <1>7, <3>1
    <2> QED BY <1>6, <2>1, <2>2
  <1> QED BY <1>3, <1>4, <1>8, <1>9, <1>10, <1>11 DEF Tiling, t, Put

(* Two free blocks become one of twice the size. *)
LEMMA TileMerge ==
  ASSUME NEW ty, NEW sz, NEW K, Tiling(ty, sz, K), NEW n \in Size, n + 1 \in Size,
         NEW p \in Page, NEW q \in Page, IsHead(ty, p), IsHead(ty, q),
         sz[p] = n, sz[q] = n, q = p + PageCount[n], Multiple(p, 2 * PageCount[n])
  PROVE  Tiling(Put(ty, q, "NOT_HEAD"), Put(sz, p, n + 1), K)
  <1> DEFINE t == [ty EXCEPT ![q] = "NOT_HEAD"]
             z == [sz EXCEPT ![p] = n + 1]
  <1>1. /\ TileTypes(ty, sz) /\ ReservedPages(ty, sz, K) /\ Uppers(ty, sz)
        /\ Aligned(ty, sz) /\ Inside(ty, sz)
    BY DEF Tiling
  <1>2. PICK w \in Nat \ {0} : w = PageCount[n]
    BY PageFacts
  <1>3. PageCount[n + 1] = 2 * w
    BY <1>2, PageFacts
  <1>4. p \in Nat /\ q \in Nat /\ q = p + w /\ p # q
    <2>1. p \in Nat
      BY PageFacts
    <2>2. q = p + w
      BY <1>2
    <2> QED BY <2>1, <2>2
  <1>5. \A x \in Page : t[x] = IF x = q THEN "NOT_HEAD" ELSE ty[x]
    BY <1>1 DEF TileTypes
  <1>6. \A x \in Page : z[x] = IF x = p THEN n + 1 ELSE sz[x]
    BY <1>1 DEF TileTypes
  <1>7. TileTypes(t, z)
    BY <1>1 DEF TileTypes, PageTypes
  <1> HIDE DEF t, z
  <1>8. \A x \in Page : IsHead(t, x) <=> IsHead(ty, x) /\ x # q
    BY <1>5 DEF IsHead
  <1>9. /\ Span(sz, p) = p .. p + w - 1 /\ Span(sz, q) = q .. q + w - 1
        /\ Span(z, p) = p .. p + 2 * w - 1
    BY <1>2, <1>3, <1>6 DEF Span
  <1>10. \A x \in Page : x # p => Span(z, x) = Span(sz, x)
    BY <1>6 DEF Span
  <1>11. \A x : x \in Span(z, p) <=> x \in Span(sz, p) \/ x \in Span(sz, q)
    BY <1>4, <1>9
  <1>12. ty[q] # "RESERVED" /\ ty[p] # "RESERVED" /\ ty[p] # "NOT_HEAD" /\ ty[q] # "NOT_HEAD"
    BY DEF IsHead
  <1>13. ReservedPages(t, z, K)
    BY <1>1, <1>5, <1>6, <1>12 DEF ReservedPages
  <1>14. Uppers(t, z)
    <2> SUFFICES ASSUME NEW x \in Page, t[x] = "NOT_HEAD"
                 PROVE  /\ OddMultiple(x, PageCount[z[x]])
                        /\ \E r \in Page : IsHead(t, r) /\ x \in Span(z, r)
      BY DEF Uppers
    <2>1. IsHead(t, p)
      BY <1>4, <1>8
    <2>2. CASE x = q
      <3>1. OddMultiple(p + w, w)
        BY <1>2, <1>4, EvenCase
      <3>2. z[q] = n
        BY <1>4, <1>6
      <3>3. q \in Span(z, p)
        BY <1>4, <1>9
      <3> QED BY <1>2, <1>4, <2>1, <2>2, <3>1, <3>2, <3>3
    <2>3. CASE x # q
      <3>1. ty[x] = "NOT_HEAD" /\ x # p
        BY <1>5, <1>12, <2>3
      <3>2. z[x] = sz[x] /\ OddMultiple(x, PageCount[sz[x]])
        BY <1>1, <1>6, <3>1 DEF Uppers
      <3>3. PICK r \in Page : IsHead(ty, r) /\ x \in Span(sz, r)
        BY <1>1, <3>1 DEF Uppers
      <3>4. CASE r = p \/ r = q
        BY <1>11, <2>1, <3>2, <3>3, <3>4
      <3>5. CASE r # p /\ r # q
        BY <1>8, <1>10, <3>2, <3>3, <3>5
      <3> QED BY <3>4, <3>5
    <2> QED BY <2>2, <2>3
  <1>15. Aligned(t, z)
    <2> SUFFICES ASSUME NEW r \in Page, IsHead(t, r) PROVE Multiple(r, PageCount[z[r]])
      BY DEF Aligned
    <2>1. CASE r = p
      BY <1>2, <1>3, <1>6, <2>1
    <2>2. CASE r # p
      BY <1>1, <1>6, <1>8, <2>2 DEF Aligned
    <2> QED BY <2>1, <2>2
  <1>16. Inside(t, z)
    <2> SUFFICES ASSUME NEW r \in Page, IsHead(t, r), NEW x \in Span(z, r)
                 PROVE  x \in Page /\ (x = r \/ t[x] = "NOT_HEAD")
      BY DEF Inside
    <2>1. IsHead(ty, r) /\ r # q
      BY <1>8
    <2>2. CASE r = p
      <3>1. x \in Page /\ (x = p \/ x = q \/ ty[x] = "NOT_HEAD")
        BY <1>1, <1>11, <2>2 DEF Inside
      <3> QED BY <1>5, <2>2, <3>1
    <2>3. CASE r # p
      <3>1. x \in Page /\ (x = r \/ ty[x] = "NOT_HEAD")
        BY <1>1, <1>10, <2>1, <2>3 DEF Inside
      <3> QED BY <1>5, <3>1
    <2> QED BY <2>2, <2>3
  <1> QED BY <1>7, <1>13, <1>14, <1>15, <1>16 DEF Tiling, t, z, Put

(* A block that has been handed out is split. *)
LEMMA TileSplit ==
  ASSUME NEW ty, NEW sz, NEW K, Tiling(ty, sz, K), NEW n \in Size, n + 1 \in Size,
         NEW p \in Page, IsHead(ty, p), sz[p] = n + 1, NEW q, q = p + PageCount[n]
  PROVE  /\ q \in Page /\ q # p /\ ty[q] = "NOT_HEAD" /\ sz[q] = n /\ Buddy(p, n) = q
         /\ Tiling(Put(Put(ty, p, "FREE"), q, "FREE"), Put(sz, p, n), K)
  <1> DEFINE t == [[ty EXCEPT ![p] = "FREE"] EXCEPT ![q] = "FREE"]
             z == [sz EXCEPT ![p] = n]
  <1>1. /\ TileTypes(ty, sz) /\ ReservedPages(ty, sz, K) /\ Uppers(ty, sz)
        /\ Aligned(ty, sz) /\ Inside(ty, sz)
    BY DEF Tiling
  <1>2. PICK w \in Nat \ {0} : w = PageCount[n]
    BY PageFacts
  <1>3. PageCount[n + 1] = 2 * w
    BY <1>2, PageFacts
  <1>4. p \in Nat /\ q \in Nat /\ q = p + w /\ p # q
    <2>1. p \in Nat
      BY PageFacts
    <2>2. q = p + w
      BY <1>2
    <2> QED BY <2>1, <2>2
  <1>5. Span(sz, p) = p .. p + 2 * w - 1
    BY <1>3 DEF Span
  <1>6. q \in Page /\ ty[q] = "NOT_HEAD"
    <2>1. q \in Span(sz, p)
      BY <1>4, <1>5
    <2> QED BY <1>1, <1>4, <2>1 DEF Inside
  <1>7. Multiple(p, 2 * w)
    BY <1>1, <1>3 DEF Aligned
  <1>8. Multiple(p, w) /\ (p \div w) % 2 = 0 /\ OddMultiple(q, w)
    BY <1>4, <1>7, EvenCase
  <1>9. sz[q] = n
    <2>1. OddMultiple(q, PageCount[sz[q]]) /\ sz[q] \in Size
      BY <1>1, <1>6 DEF Uppers, TileTypes
    <2>2. sz[q] \in Nat /\ n \in Nat
      BY <2>1, PageFacts
    <2> QED BY <1>2, <1>4, <1>8, <2>1, <2>2, OddUnique
  <1>10. Buddy(p, n) = q
    BY <1>2, <1>4, <1>8 DEF Buddy
  <1>11. \A x \in Page : t[x] = IF x = p \/ x = q THEN "FREE" ELSE ty[x]
    BY <1>1, <1>6 DEF TileTypes
  <1>12. \A x \in Page : z[x] = IF x = p THEN n ELSE sz[x]
    BY <1>1 DEF TileTypes
  <1>13. TileTypes(t, z)
    BY <1>1, <1>6 DEF TileTypes, PageTypes
  <1> HIDE DEF t, z
  <1>14. \A x \in Page : IsHead(t, x) <=> IsHead(ty, x) \/ x = q
    BY <1>11 DEF IsHead
  <1>15. Span(z, p) = p .. p + w - 1 /\ Span(z, q) = q .. q + w - 1
    BY <1>2, <1>4, <1>6, <1>9, <1>12 DEF Span
  <1>16. \A x \in Page : x # p => Span(z, x) = Span(sz, x)
    BY <1>12 DEF Span
  <1>17. \A x : x \in Span(sz, p) <=> x \in Span(z, p) \/ x \in Span(z, q)
    BY <1>4, <1>5, <1>15
  <1>18. ty[p] # "RESERVED" /\ ty[p] # "NOT_HEAD"
    BY DEF IsHead
  <1>19. ReservedPages(t, z, K)
    BY <1>1, <1>6, <1>11, <1>12, <1>18 DEF ReservedPages
  <1>20. Uppers(t, z)
    <2> SUFFICES ASSUME NEW x \in Page, t[x] = "NOT_HEAD"
                 PROVE  /\ OddMultiple(x, PageCount[z[x]])
                        /\ \E r \in Page : IsHead(t, r) /\ x \in Span(z, r)
      BY DEF Uppers
    <2>1. ty[x] = "NOT_HEAD" /\ x # p /\ x # q
      BY <1>11
    <2>2. z[x] = sz[x] /\ OddMultiple(x, PageCount[sz[x]])
      BY <1>1, <1>12, <2>1 DEF Uppers
    <2>3. PICK r \in Page : IsHead(ty, r) /\ x \in Span(sz, r)
      BY <1>1, <2>1 DEF Uppers
    <2>4. CASE r = p
      BY <1>6, <1>14, <1>17, <2>2, <2>3, <2>4
    <2>5. CASE r # p
      BY <1>14, <1>16, <2>2, <2>3, <2>5
    <2> QED BY <2>4, <2>5
  <1>21. Aligned(t, z)
    <2> SUFFICES ASSUME NEW r \in Page, IsHead(t, r) PROVE Multiple(r, PageCount[z[r]])
      BY DEF Aligned
    <2>1. CASE r = p
      BY <1>2, <1>8, <1>12, <2>1
    <2>2. CASE r = q
      <3>1. PICK k \in Nat : q = w * (2 * k + 1)
        BY <1>8 DEF OddMultiple
      <3>2. 2 * k + 1 \in Nat
        OBVIOUS
      <3>3. Multiple(q, w)
        BY <3>1, <3>2 DEF Multiple
      <3>4. z[q] = n
        BY <1>4, <1>6, <1>9, <1>12
      <3> QED BY <1>2, <2>2, <3>3, <3>4
    <2>3. CASE r # p /\ r # q
      BY <1>1, <1>12, <1>14, <2>3 DEF Aligned
    <2> QED BY <2>1, <2>2, <2>3
  <1>22. Inside(t, z)
    <2> SUFFICES ASSUME NEW r \in Page, IsHead(t, r), NEW x \in Span(z, r)
                 PROVE  x \in Page /\ (x = r \/ t[x] = "NOT_HEAD")
      BY DEF Inside
    <2>1. CASE r = p \/ r = q
      <3>1. x \in Span(sz, p)
        BY <1>17, <2>1
      <3>2. x \in Page /\ (x = p \/ ty[x] = "NOT_HEAD")
        BY <1>1, <3>1 DEF Inside
      <3>3. r = p => x # q
        BY <1>4, <1>15
      <3>4. r = q => x # p
        BY <1>4, <1>15
      <3> QED BY <1>11, <2>1, <3>2, <3>3, <3>4
    <2>2. CASE r # p /\ r # q
      <3>1. IsHead(ty, r) /\ x \in Span(sz, r)
        BY <1>14, <1>16, <2>2
      <3>2. x \in Page /\ (x = r \/ ty[x] = "NOT_HEAD")
        BY <1>1, <3>1 DEF Inside
      <3>3. x \notin Span(sz, p)
        BY <2>2, <3>1, BlocksApart
      <3>4. x # p /\ x # q
        BY <1>4, <1>5, <3>3
      <3> QED BY <1>11, <3>2, <3>4
    <2> QED BY <2>1, <2>2
  <1> QED BY <1>4, <1>6, <1>9, <1>10, <1>13, <1>19, <1>20, <1>21, <1>22 DEF Tiling, t, z, Put

(* The other half of a block is a page, and mutual. *)
LEMMA BuddyIs ==
  ASSUME NEW n \in Size, n + 1 \in Size, NEW x \in Page, Multiple(x, PageCount[n])
  PROVE  \/ /\ Buddy(x, n) = x + PageCount[n] /\ Buddy(x, n) \in Page
            /\ Multiple(x, 2 * PageCount[n])
         \/ /\ Buddy(x, n) = x - PageCount[n] /\ Buddy(x, n) \in Page
            /\ Multiple(Buddy(x, n), 2 * PageCount[n])
            /\ Buddy(Buddy(x, n), n) = x
  <1>1. PICK w \in Nat \ {0} : w = PageCount[n]
    BY PageFacts
  <1>2. x \in Nat /\ PageCount[n + 1] = 2 * w
    BY <1>1, PageFacts
  <1>3. CASE Multiple(x, 2 * w)
    <2>1. (x \div w) % 2 = 0
      BY <1>2, <1>3, EvenCase
    <2>2. Buddy(x, n) = x + w
      BY <1>1, <2>1 DEF Buddy
    <2>3. x + 2 * w <= NUM_OF_PAGES
      <3>1. Multiple(NUM_OF_PAGES, 2 * w)
        <4>1. PICK N \in Nat : N = NUM_OF_PAGES
          BY PageFacts
        <4>2. PICK a \in Nat, d \in Nat : a = n + 1 /\ a + d = NUM_OF_ALLOCSIZE - 1
          <5>1. n + 1 \in Nat /\ (NUM_OF_ALLOCSIZE - 1) - (n + 1) \in Nat
            BY PageFacts
          <5>2. (n + 1) + ((NUM_OF_ALLOCSIZE - 1) - (n + 1)) = NUM_OF_ALLOCSIZE - 1
            BY PageFacts
          <5> QED BY <5>1, <5>2
        <4>3. PICK v \in Nat \ {0} : v = PageCount[a + d]
          BY PageCountFacts
        <4>4. N % v = 0
          BY <4>1, <4>2, <4>3, PageAssumption
        <4>5. N = v * (N \div v) + (N % v) /\ N \div v \in Nat
          BY <4>1
        <4>6. Multiple(N, v)
          BY <4>4, <4>5 DEF Multiple
        <4>7. Multiple(N, PageCount[a])
          BY <4>3, <4>6, LargerPower
        <4> QED BY <1>2, <4>1, <4>2, <4>7
      <3>2. x < NUM_OF_PAGES /\ 2 * w \in Nat \ {0} /\ NUM_OF_PAGES \in Nat
        BY PageFacts
      <3>3. PICK u \in Nat \ {0} : u = 2 * w
        BY <3>2
      <3>4. x + u <= NUM_OF_PAGES
        BY <1>2, <1>3, <3>1, <3>2, <3>3, MultipleEnds
      <3> QED BY <3>3, <3>4
    <2>4. x + w \in Page
      BY <1>2, <2>3, PageFacts
    <2> QED BY <1>1, <1>3, <2>2, <2>4
  <1>4. CASE OddMultiple(x, w)
    <2>1. (x \div w) % 2 = 1 /\ x - w \in Nat /\ Multiple(x - w, 2 * w)
      BY <1>2, <1>4, OddCase
    <2>2. Buddy(x, n) = x - w
      BY <1>1, <2>1 DEF Buddy
    <2>3. x - w \in Page
      BY <1>2, <2>1, PageFacts
    <2>4. ((x - w) \div w) % 2 = 0
      BY <2>1, EvenCase
    <2>5. Buddy(x - w, n) = x
      BY <1>1, <1>2, <2>4 DEF Buddy
    <2> QED BY <1>1, <2>1, <2>2, <2>3, <2>5
  <1> QED BY <1>1, <1>2, <1>3, <1>4, EvenOrOdd

-----------------------------------------------------------------------------
(* The lists hold the free blocks, each in the list of its size, once. *)
Lists(ty, sz, fl) ==
    /\ fl \in [Size -> Seq(Page)]
    /\ \A n \in Size : IsInjective(fl[n])
    /\ \A n \in Size : \A p \in Page : p \in Range(fl[n]) <=> ty[p] = "FREE" /\ sz[p] = n

LEMMA ListsAdd ==
  ASSUME NEW ty, NEW sz, NEW fl, TileTypes(ty, sz), Lists(ty, sz, fl),
         NEW p \in Page, ty[p] # "FREE"
  PROVE  Lists(Put(ty, p, "FREE"), sz, Put(fl, sz[p], LIST1_ADD(fl[sz[p]], p)))
  <1> DEFINE m == sz[p]
             t == Put(ty, p, "FREE")
             l == LIST1_ADD(fl[m], p)
             g == Put(fl, m, l)
  <1>1. m \in Size /\ fl \in [Size -> Seq(Page)] /\ fl[m] \in Seq(Page) /\ IsInjective(fl[m])
    BY DEF TileTypes, Lists
  <1>2. \A x \in Page : t[x] = IF x = p THEN "FREE" ELSE ty[x]
    BY DEF TileTypes, Put
  <1>3. \A n \in Size : g[n] = IF n = m THEN l ELSE fl[n]
    BY <1>1 DEF Put
  <1>4. p \notin Range(fl[m])
    BY <1>1 DEF Lists
  <1>5. l \in Seq(Page) /\ Range(l) = Range(fl[m]) \cup {p} /\ IsInjective(l)
    <2>1. PICK k \in Seq(Page) : k = fl[m]
      BY <1>1
    <2>2. /\ LIST1_ADD(k, p) \in Seq(Page) /\ Range(LIST1_ADD(k, p)) = Range(k) \cup {p}
          /\ IsInjective(LIST1_ADD(k, p))
      BY <1>1, <1>4, <2>1, AddProperties
    <2> QED BY <2>1, <2>2
  <1>6. g \in [Size -> Seq(Page)]
    BY <1>1, <1>5 DEF Put
  <1> HIDE DEF m, t, l, g
  <1>7. ASSUME NEW n \in Size PROVE IsInjective(g[n])
    <2>1. IsInjective(fl[n])
      BY DEF Lists
    <2> QED BY <1>3, <1>5, <2>1
  <1>8. ASSUME NEW n \in Size, NEW x \in Page
        PROVE  x \in Range(g[n]) <=> t[x] = "FREE" /\ sz[x] = n
    <2>1. x \in Range(fl[n]) <=> ty[x] = "FREE" /\ sz[x] = n
      BY DEF Lists
    <2>2. CASE n = m
      <3>1. x \in Range(g[n]) <=> x \in Range(fl[m]) \/ x = p
        BY <1>3, <1>5, <2>2
      <3> QED BY <1>2, <2>1, <2>2, <3>1 DEF m
    <2>3. CASE n # m
      <3>1. g[n] = fl[n]
        BY <1>3, <2>3
      <3>2. x = p => sz[x] # n
        BY <2>3 DEF m
      <3> QED BY <1>2, <2>1, <3>1, <3>2
    <2> QED BY <2>2, <2>3
  <1> QED BY <1>6, <1>7, <1>8 DEF Lists, m, t, l, g

LEMMA ListsPop ==
  ASSUME NEW ty, NEW sz, NEW fl, TileTypes(ty, sz), Lists(ty, sz, fl),
         NEW m \in Size, fl[m] # <<>>
  PROVE  /\ Head(fl[m]) \in Page /\ ty[Head(fl[m])] = "FREE" /\ sz[Head(fl[m])] = m
         /\ Lists(Put(ty, Head(fl[m]), "ALLOCATED"), sz, Put(fl, m, LIST1_POP(fl[m])))
  <1> DEFINE p == Head(fl[m])
             t == Put(ty, p, "ALLOCATED")
             l == LIST1_POP(fl[m])
             g == Put(fl, m, l)
  <1>1. fl \in [Size -> Seq(Page)] /\ fl[m] \in Seq(Page) /\ IsInjective(fl[m])
    BY DEF Lists
  <1>2. /\ l \in Seq(Page) /\ p \in Page /\ p \in Range(fl[m])
        /\ Range(l) = Range(fl[m]) \ {p} /\ IsInjective(l)
    <2>1. PICK k \in Seq(Page) : k = fl[m]
      BY <1>1
    <2>2. /\ LIST1_POP(k) \in Seq(Page) /\ Head(k) \in Page /\ Head(k) \in Range(k)
          /\ Range(LIST1_POP(k)) = Range(k) \ {Head(k)} /\ IsInjective(LIST1_POP(k))
      BY <1>1, <2>1, PopProperties
    <2> QED BY <2>1, <2>2
  <1>3. ty[p] = "FREE" /\ sz[p] = m
    BY <1>2 DEF Lists
  <1>4. \A n \in Size : g[n] = IF n = m THEN l ELSE fl[n]
    BY <1>1 DEF Put
  <1>5. g \in [Size -> Seq(Page)]
    BY <1>1, <1>2 DEF Put
  <1>6. \A x \in Page : t[x] = IF x = p THEN "ALLOCATED" ELSE ty[x]
    BY <1>2 DEF TileTypes, Put
  <1> HIDE DEF p, t, l, g
  <1>7. ASSUME NEW n \in Size PROVE IsInjective(g[n])
    <2>1. IsInjective(fl[n])
      BY DEF Lists
    <2> QED BY <1>2, <1>4, <2>1
  <1>8. ASSUME NEW n \in Size, NEW x \in Page
        PROVE  x \in Range(g[n]) <=> t[x] = "FREE" /\ sz[x] = n
    <2>1. x \in Range(fl[n]) <=> ty[x] = "FREE" /\ sz[x] = n
      BY DEF Lists
    <2>2. CASE n = m
      <3>1. x \in Range(g[n]) <=> x \in Range(fl[m]) /\ x # p
        BY <1>2, <1>4, <2>2
      <3> QED BY <1>6, <2>1, <2>2, <3>1
    <2>3. CASE n # m
      <3>1. g[n] = fl[n]
        BY <1>4, <2>3
      <3> QED BY <1>3, <1>6, <2>1, <2>3, <3>1
    <2> QED BY <2>2, <2>3
  <1>9. Lists(t, sz, g)
    BY <1>5, <1>7, <1>8 DEF Lists
  <1> QED BY <1>2, <1>3, <1>9 DEF p, t, l, g

LEMMA ListsDel ==
  ASSUME NEW ty, NEW sz, NEW fl, TileTypes(ty, sz), Lists(ty, sz, fl),
         NEW p \in Page, ty[p] = "FREE"
  PROVE  Lists(Put(ty, p, "NOT_HEAD"), sz, Put(fl, sz[p], LIST1_DEL(fl[sz[p]], p)))
  <1> DEFINE m == sz[p]
             t == Put(ty, p, "NOT_HEAD")
             l == LIST1_DEL(fl[m], p)
             g == Put(fl, m, l)
  <1>1. m \in Size /\ fl \in [Size -> Seq(Page)] /\ fl[m] \in Seq(Page) /\ IsInjective(fl[m])
    BY DEF TileTypes, Lists
  <1>2. \A x \in Page : t[x] = IF x = p THEN "NOT_HEAD" ELSE ty[x]
    BY DEF TileTypes, Put
  <1>3. \A n \in Size : g[n] = IF n = m THEN l ELSE fl[n]
    BY <1>1 DEF Put
  <1>4. p \in Range(fl[m])
    BY <1>1 DEF Lists
  <1>5. l \in Seq(Page) /\ Range(l) = Range(fl[m]) \ {p} /\ IsInjective(l)
    <2>1. PICK k \in Seq(Page) : k = fl[m]
      BY <1>1
    <2>2. /\ LIST1_DEL(k, p) \in Seq(Page) /\ Range(LIST1_DEL(k, p)) = Range(k) \ {p}
          /\ IsInjective(LIST1_DEL(k, p))
      BY <1>1, <1>4, <2>1, DelProperties
    <2> QED BY <2>1, <2>2
  <1>6. g \in [Size -> Seq(Page)]
    BY <1>1, <1>5 DEF Put
  <1> HIDE DEF m, t, l, g
  <1>7. ASSUME NEW n \in Size PROVE IsInjective(g[n])
    <2>1. IsInjective(fl[n])
      BY DEF Lists
    <2> QED BY <1>3, <1>5, <2>1
  <1>8. ASSUME NEW n \in Size, NEW x \in Page
        PROVE  x \in Range(g[n]) <=> t[x] = "FREE" /\ sz[x] = n
    <2>1. x \in Range(fl[n]) <=> ty[x] = "FREE" /\ sz[x] = n
      BY DEF Lists
    <2>2. CASE n = m
      <3>1. x \in Range(g[n]) <=> x \in Range(fl[m]) /\ x # p
        BY <1>3, <1>5, <2>2
      <3> QED BY <1>2, <2>1, <2>2, <3>1
    <2>3. CASE n # m
      <3>1. g[n] = fl[n]
        BY <1>3, <2>3
      <3>2. x = p => sz[x] # n
        BY <2>3 DEF m
      <3> QED BY <1>2, <2>1, <3>1, <3>2
    <2> QED BY <2>2, <2>3
  <1> QED BY <1>6, <1>7, <1>8 DEF Lists, m, t, l, g

(* The size of a page that is not free does not matter to the lists. *)
LEMMA ListsSize ==
  ASSUME NEW ty, NEW sz, NEW fl, TileTypes(ty, sz), Lists(ty, sz, fl),
         NEW p \in Page, ty[p] # "FREE", NEW k \in Size
  PROVE  Lists(ty, Put(sz, p, k), fl)
  <1> DEFINE z == Put(sz, p, k)
  <1>1. \A x \in Page : z[x] = IF x = p THEN k ELSE sz[x]
    BY DEF TileTypes, Put
  <1> HIDE DEF z
  <1>2. \A n \in Size : \A x \in Page : x \in Range(fl[n]) <=> ty[x] = "FREE" /\ z[x] = n
    BY <1>1 DEF Lists
  <1>3. fl \in [Size -> Seq(Page)] /\ \A n \in Size : IsInjective(fl[n])
    BY DEF Lists
  <1> QED BY <1>2, <1>3 DEF Lists, z

LEMMA PutTypes ==
  ASSUME NEW ty, NEW sz, TileTypes(ty, sz), NEW p \in Page
  PROVE  /\ \A v \in PageTypes : /\ TileTypes(Put(ty, p, v), sz)
                                 /\ \A x \in Page : Put(ty, p, v)[x] = IF x = p THEN v ELSE ty[x]
         /\ \A k \in Size : /\ TileTypes(ty, Put(sz, p, k))
                            /\ \A x \in Page : Put(sz, p, k)[x] = IF x = p THEN k ELSE sz[x]
  BY DEF TileTypes, Put

LEMMA ListsMerge ==
  ASSUME NEW ty, NEW sz, NEW fl, TileTypes(ty, sz), Lists(ty, sz, fl),
         NEW n \in Size, n + 1 \in Size, NEW p \in Page, NEW q \in Page, p # q,
         ty[p] = "FREE", ty[q] = "FREE", sz[p] = n, sz[q] = n,
         NEW g, g = [fl EXCEPT ![n] = LIST1_DEL(LIST1_DEL(fl[n], p), q),
                               ![n + 1] = LIST1_ADD(fl[n + 1], p)]
  PROVE  Lists(Put(ty, q, "NOT_HEAD"), Put(sz, p, n + 1), g)
  <1> DEFINE t1 == Put(ty, p, "NOT_HEAD")
             f1 == Put(fl, n, LIST1_DEL(fl[n], p))
             t2 == Put(t1, q, "NOT_HEAD")
             f2 == Put(f1, n, LIST1_DEL(f1[n], q))
             z == Put(sz, p, n + 1)
             t3 == Put(t2, p, "FREE")
             f3 == Put(f2, n + 1, LIST1_ADD(f2[n + 1], p))
  <1>0. "NOT_HEAD" \in PageTypes /\ "FREE" \in PageTypes /\ n # n + 1
    BY PageFacts DEF PageTypes
  <1>1. TileTypes(t1, sz) /\ \A x \in Page : t1[x] = IF x = p THEN "NOT_HEAD" ELSE ty[x]
    BY <1>0, PutTypes
  <1>2. Lists(t1, sz, f1)
    BY ListsDel
  <1> HIDE DEF t1, f1
  <1>3. t1[q] = "FREE"
    BY <1>1
  <1>4. TileTypes(t2, sz) /\ \A x \in Page : t2[x] = IF x = q THEN "NOT_HEAD" ELSE t1[x]
    BY <1>0, <1>1, PutTypes
  <1>5. Lists(t2, sz, f2)
    BY <1>1, <1>2, <1>3, ListsDel
  <1> HIDE DEF t2, f2
  <1>6. t2[p] # "FREE"
    BY <1>1, <1>4
  <1>7. TileTypes(t2, z) /\ \A x \in Page : z[x] = IF x = p THEN n + 1 ELSE sz[x]
    BY <1>4, PutTypes
  <1>8. Lists(t2, z, f2)
    BY <1>4, <1>5, <1>6, ListsSize
  <1> HIDE DEF z
  <1>9. Lists(t3, z, f3)
    <2>1. z[p] = n + 1
      BY <1>7
    <2> QED BY <1>6, <1>7, <1>8, <2>1, ListsAdd
  <1>10. t3 = Put(ty, q, "NOT_HEAD")
    <2>1. ty \in [Page -> PageTypes]
      BY DEF TileTypes
    <2> QED BY <2>1 DEF t3, t2, t1, Put
  <1>11. f3 = g
    <2>1. fl \in [Size -> Seq(Page)]
      BY DEF Lists
    <2>2. f1[n] = LIST1_DEL(fl[n], p) /\ f1 = [fl EXCEPT ![n] = LIST1_DEL(fl[n], p)]
      BY <2>1 DEF f1, Put
    <2>3. f2 = [fl EXCEPT ![n] = LIST1_DEL(LIST1_DEL(fl[n], p), q)]
      BY <2>1, <2>2 DEF f2, Put
    <2>4. f2[n + 1] = fl[n + 1]
      BY <1>0, <2>1, <2>3
    <2> QED BY <1>0, <2>1, <2>3, <2>4 DEF f3, Put
  <1> QED BY <1>9, <1>10, <1>11 DEF z

LEMMA ListsSplit ==
  ASSUME NEW ty, NEW sz, NEW fl, TileTypes(ty, sz), Lists(ty, sz, fl),
         NEW n \in Size, NEW p \in Page, NEW q \in Page, p # q,
         ty[p] # "FREE", ty[q] # "FREE", sz[q] = n
  PROVE  Lists(Put(Put(ty, p, "FREE"), q, "FREE"), Put(sz, p, n),
               Put(fl, n, LIST1_ADD(LIST1_ADD(fl[n], p), q)))
  <1> DEFINE z == Put(sz, p, n)
             t1 == Put(ty, p, "FREE")
             f1 == Put(fl, n, LIST1_ADD(fl[n], p))
             t2 == Put(t1, q, "FREE")
             f2 == Put(f1, n, LIST1_ADD(f1[n], q))
  <1>0. "FREE" \in PageTypes
    BY DEF PageTypes
  <1>1. TileTypes(ty, z) /\ \A x \in Page : z[x] = IF x = p THEN n ELSE sz[x]
    BY PutTypes
  <1>2. Lists(ty, z, fl)
    BY ListsSize
  <1>3. z[p] = n /\ z[q] = n
    BY <1>1
  <1> HIDE DEF z
  <1>4. TileTypes(t1, z) /\ \A x \in Page : t1[x] = IF x = p THEN "FREE" ELSE ty[x]
    BY <1>0, <1>1, PutTypes
  <1>5. Lists(t1, z, f1)
    BY <1>1, <1>2, <1>3, ListsAdd
  <1> HIDE DEF t1, f1
  <1>6. t1[q] # "FREE"
    BY <1>4
  <1>7. Lists(t2, z, f2)
    BY <1>3, <1>4, <1>5, <1>6, ListsAdd
  <1>8. f2 = Put(fl, n, LIST1_ADD(LIST1_ADD(fl[n], p), q))
    <2>1. fl \in [Size -> Seq(Page)]
      BY DEF Lists
    <2>2. f1[n] = LIST1_ADD(fl[n], p)
      BY <2>1 DEF f1, Put
    <2> QED BY <2>1, <2>2 DEF f2, f1, Put
  <1> QED BY <1>7, <1>8 DEF t1, z

-----------------------------------------------------------------------------
(* A block handed out is with one caller, or one call is splitting it. *)
Holding(ty, ow, fp) ==
    /\ ow \subseteq Page /\ fp \in [CPU -> Page \cup {NULL}]
    /\ \A p \in Page : ty[p] = "ALLOCATED" <=> p \in ow \/ \E c \in CPU : fp[c] = p
    /\ \A c \in CPU : fp[c] \notin ow
    /\ \A c, d \in CPU : fp[c] = fp[d] /\ fp[c] # NULL => c = d

(* Only what is ALLOCATED matters. *)
LEMMA HoldingSame ==
  ASSUME NEW ty, NEW t, NEW ow, NEW fp, Holding(ty, ow, fp),
         \A x \in Page : t[x] = "ALLOCATED" <=> ty[x] = "ALLOCATED"
  PROVE  Holding(t, ow, fp)
  BY DEF Holding

LEMMA HoldingFree ==
  ASSUME NEW ty \in [Page -> PageTypes], NEW ow, NEW fp, Holding(ty, ow, fp), NEW p \in ow
  PROVE  /\ p \in Page /\ ty[p] = "ALLOCATED"
         /\ Holding(Put(ty, p, "FREE"), ow \ {p}, fp)
  <1> DEFINE t == Put(ty, p, "FREE")
  <1>1. p \in Page /\ ty[p] = "ALLOCATED"
    BY DEF Holding
  <1>2. \A x \in Page : t[x] = IF x = p THEN "FREE" ELSE ty[x]
    BY <1>1 DEF Put
  <1> HIDE DEF t
  <1>3. Holding(t, ow \ {p}, fp)
    BY <1>1, <1>2 DEF Holding
  <1> QED BY <1>1, <1>3 DEF t

LEMMA HoldingPop ==
  ASSUME NEW ty \in [Page -> PageTypes], NEW ow, NEW fp, Holding(ty, ow, fp),
         NEW c \in CPU, fp[c] = NULL, NEW h \in Page, ty[h] = "FREE"
  PROVE  /\ Holding(Put(ty, h, "ALLOCATED"), ow \cup {h}, fp)
         /\ Holding(Put(ty, h, "ALLOCATED"), ow, Put(fp, c, h))
  <1> DEFINE t == Put(ty, h, "ALLOCATED")
             g == Put(fp, c, h)
  <1>1. \A x \in Page : t[x] = IF x = h THEN "ALLOCATED" ELSE ty[x]
    BY DEF Put
  <1>2. fp \in [CPU -> Page \cup {NULL}]
    BY DEF Holding
  <1>3. g \in [CPU -> Page \cup {NULL}] /\ \A d \in CPU : g[d] = IF d = c THEN h ELSE fp[d]
    BY <1>2 DEF Put
  <1>4. h \notin ow /\ \A d \in CPU : fp[d] # h
    BY DEF Holding
  <1>5. h # NULL /\ NULL \notin Page
    BY PageFacts
  <1> HIDE DEF t, g
  <1>6. Holding(t, ow \cup {h}, fp)
    BY <1>1, <1>4 DEF Holding
  <1>7. Holding(t, ow, g)
    <2>1. \A p \in Page : t[p] = "ALLOCATED" <=> p \in ow \/ \E d \in CPU : g[d] = p
      <3> SUFFICES ASSUME NEW p \in Page
                   PROVE  t[p] = "ALLOCATED" <=> p \in ow \/ \E d \in CPU : g[d] = p
        OBVIOUS
      <3>1. ty[p] = "ALLOCATED" <=> p \in ow \/ \E d \in CPU : fp[d] = p
        BY DEF Holding
      <3>2. (\E d \in CPU : g[d] = p) <=> p = h \/ \E d \in CPU : fp[d] = p
        BY <1>3, <1>5
      <3> QED BY <1>1, <3>1, <3>2
    <2>2. \A d \in CPU : g[d] \notin ow
      BY <1>3, <1>4 DEF Holding
    <2>3. \A d, e \in CPU : g[d] = g[e] /\ g[d] # NULL => d = e
      BY <1>3, <1>4 DEF Holding
    <2>4. ow \subseteq Page
      BY DEF Holding
    <2> QED BY <1>3, <2>1, <2>2, <2>3, <2>4 DEF Holding
  <1> QED BY <1>6, <1>7 DEF t, g

LEMMA HoldingSplit ==
  ASSUME NEW ty \in [Page -> PageTypes], NEW ow, NEW fp, Holding(ty, ow, fp),
         NEW c \in CPU, NEW p \in Page, fp[c] = p, NEW q \in Page, ty[q] # "ALLOCATED"
  PROVE  Holding(Put(Put(ty, p, "FREE"), q, "FREE"), ow, Put(fp, c, NULL))
  <1> DEFINE t == Put(Put(ty, p, "FREE"), q, "FREE")
             g == Put(fp, c, NULL)
  <1>1. \A x \in Page : t[x] = IF x = p \/ x = q THEN "FREE" ELSE ty[x]
    BY DEF Put
  <1>2. fp \in [CPU -> Page \cup {NULL}]
    BY DEF Holding
  <1>3. g \in [CPU -> Page \cup {NULL}] /\ \A d \in CPU : g[d] = IF d = c THEN NULL ELSE fp[d]
    BY <1>2 DEF Put
  <1>4. p # NULL /\ NULL \notin Page
    BY PageFacts
  <1>5. p \notin ow /\ \A d \in CPU : fp[d] = p => d = c
    BY <1>4 DEF Holding
  <1> HIDE DEF t, g
  <1>6. ASSUME NEW x \in Page
        PROVE  t[x] = "ALLOCATED" <=> x \in ow \/ \E d \in CPU : g[d] = x
    <2>1. ty[x] = "ALLOCATED" <=> x \in ow \/ \E d \in CPU : fp[d] = x
      BY DEF Holding
    <2>2. (\E d \in CPU : g[d] = x) <=> x # p /\ \E d \in CPU : fp[d] = x
      BY <1>3, <1>4, <1>5
    <2> QED BY <1>1, <1>5, <2>1, <2>2
  <1>7. ow \subseteq Page
    BY DEF Holding
  <1>8. \A d \in CPU : g[d] \notin ow
    BY <1>3, <1>4, <1>7 DEF Holding
  <1>9. \A d, e \in CPU : g[d] = g[e] /\ g[d] # NULL => d = e
    BY <1>3 DEF Holding
  <1> QED BY <1>3, <1>6, <1>7, <1>8, <1>9 DEF Holding, t, g

-----------------------------------------------------------------------------
(* What the calls of mm_page_alloc() know of the block they carry *)
Flight(ca) == [c \in CPU |-> ca[c].p]

CallType == [want : Size \cup {NULL}, n : 0 .. NUM_OF_ALLOCSIZE \cup {NULL}, p : Page \cup {NULL}]

CallsOk(ca, sz) ==
    /\ ca \in [CPU -> CallType]
    /\ \A c \in CPU : ca[c] # NoCall =>
           ca[c].want \in Size /\ ca[c].n \in 0 .. NUM_OF_ALLOCSIZE /\ ca[c].want <= ca[c].n
    /\ \A c \in CPU : ca[c].p # NULL =>
           ca[c].want \in Size /\ ca[c].n \in Size /\ ca[c].want < ca[c].n /\ sz[ca[c].p] = ca[c].n

Blocks(ty, sz, fl, K, ow, ca) ==
    /\ Tiling(ty, sz, K) /\ Lists(ty, sz, fl)
    /\ Holding(ty, ow, Flight(ca)) /\ CallsOk(ca, sz)

(* The pages not yet freed are apart, and mm_page_free() has a free block. *)
Ready ==
    /\ pages \subseteq Page \ Vmm /\ panicmem \subseteq Page \ Vmm
    /\ pages \cap panicmem = {}
    /\ mm_lock \in CPU \cup {NULL}
    /\ mm_lock # NULL => block \in Page /\ type[block] = "FREE"
    /\ ~asserted

PageInv == Blocks(type, allocsize, list1_freepage, Kept, owned, call) /\ Ready

LEMMA PageInit == Init => PageInv
  <1> SUFFICES ASSUME Init PROVE PageInv
    OBVIOUS
  <1>1. /\ type = [p \in Page |-> "RESERVED"] /\ allocsize = [p \in Page |-> 0]
        /\ list1_freepage = [n \in Size |-> <<>>] /\ call = [c \in CPU |-> NoCall]
        /\ owned = {} /\ mm_lock = NULL /\ asserted = FALSE
        /\ pages = Page \ (Vmm \cup PanicMem) /\ panicmem = PanicMem
    BY DEF Init
  <1>2. Vmm \subseteq Page /\ PanicMem \subseteq Page /\ Vmm \cap PanicMem = {}
    BY PageAssumption
  <1>3. Ready
    BY <1>1, <1>2 DEF Ready
  <1>4. Kept = Page
    BY <1>1, <1>2 DEF Kept
  <1>5. Tiling(type, allocsize, Kept)
    <2>1. TileTypes(type, allocsize)
      BY <1>1, PageFacts DEF TileTypes, PageTypes
    <2>2. \A p \in Page : type[p] = "RESERVED" /\ allocsize[p] = 0
      BY <1>1
    <2>3. \A p \in Page : ~IsHead(type, p) /\ type[p] # "NOT_HEAD"
      BY <2>2 DEF IsHead
    <2>4. ReservedPages(type, allocsize, Kept)
      BY <1>4, <2>2 DEF ReservedPages
    <2> QED BY <2>1, <2>3, <2>4 DEF Tiling, Uppers, Aligned, Inside
  <1>6. Lists(type, allocsize, list1_freepage)
    <2>1. \A n \in Size : list1_freepage[n] = <<>>
      BY <1>1
    <2>2. <<>> \in Seq(Page) /\ IsInjective(<<>>) /\ Range(<<>>) = {}
      BY DEF IsInjective, Range
    <2>3. list1_freepage \in [Size -> Seq(Page)]
      BY <1>1
    <2>4. \A p \in Page : type[p] # "FREE"
      BY <1>1
    <2> QED BY <2>1, <2>2, <2>3, <2>4 DEF Lists
  <1>7. \A c \in CPU : call[c] = NoCall /\ call[c].p = NULL
    BY <1>1 DEF NoCall, Call
  <1>8. CallsOk(call, allocsize)
    <2>1. NoCall \in CallType
      BY DEF NoCall, Call, CallType
    <2> QED BY <1>1, <1>7, <2>1 DEF CallsOk
  <1>9. Holding(type, owned, Flight(call))
    <2>1. Flight(call) = [c \in CPU |-> NULL]
      BY <1>7 DEF Flight
    <2>2. NULL \notin Page
      BY PageFacts
    <2>3. \A p \in Page : type[p] # "ALLOCATED"
      BY <1>1
    <2> QED BY <1>1, <2>1, <2>2, <2>3 DEF Holding
  <1> QED BY <1>3, <1>5, <1>6, <1>8, <1>9 DEF PageInv, Blocks

(* The facts that the steps take from the invariant *)
LEMMA PageInvFacts ==
  ASSUME PageInv
  PROVE  /\ Tiling(type, allocsize, Kept) /\ TileTypes(type, allocsize)
         /\ Lists(type, allocsize, list1_freepage)
         /\ Holding(type, owned, Flight(call)) /\ CallsOk(call, allocsize) /\ Ready
         /\ type \in [Page -> PageTypes] /\ allocsize \in [Page -> Size]
         /\ list1_freepage \in [Size -> Seq(Page)]
         /\ call \in [CPU -> CallType]
         /\ \A c \in CPU : Flight(call)[c] = call[c].p
  <1>1. /\ Tiling(type, allocsize, Kept) /\ Lists(type, allocsize, list1_freepage)
        /\ Holding(type, owned, Flight(call)) /\ CallsOk(call, allocsize) /\ Ready
    BY DEF PageInv, Blocks
  <1>2. TileTypes(type, allocsize)
    BY <1>1 DEF Tiling
  <1>3. /\ type \in [Page -> PageTypes] /\ allocsize \in [Page -> Size]
        /\ list1_freepage \in [Size -> Seq(Page)] /\ call \in [CPU -> CallType]
    BY <1>1, <1>2 DEF TileTypes, Lists, CallsOk
  <1>4. \A c \in CPU : Flight(call)[c] = call[c].p
    BY DEF Flight
  <1> QED BY <1>1, <1>2, <1>3, <1>4

(* A page that is given back is linked. *)
LEMMA LinkStep ==
  ASSUME PageInv, NEW c \in CPU, NEW p \in Page, Link(c, p), UNCHANGED <<allocsize, asserted>>,
         NEW K, Tiling(Put(type, p, "FREE"), allocsize, K), Kept' = K, type[p] # "FREE",
         Holding(Put(type, p, "FREE"), owned', Flight(call')), CallsOk(call', allocsize),
         pages' \subseteq pages, panicmem' \subseteq panicmem
  PROVE  PageInv'
  <1>1. /\ TileTypes(type, allocsize) /\ Lists(type, allocsize, list1_freepage)
        /\ list1_freepage \in [Size -> Seq(Page)] /\ type \in [Page -> PageTypes] /\ Ready
        /\ allocsize[p] \in Size
    BY PageInvFacts
  <1>2. type' = Put(type, p, "FREE") /\ allocsize' = allocsize
    BY DEF Link, Put
  <1>3. list1_freepage' = Put(list1_freepage, allocsize[p], LIST1_ADD(list1_freepage[allocsize[p]], p))
    BY <1>1 DEF Link, Put
  <1>4. Lists(type', allocsize', list1_freepage')
    BY <1>1, <1>2, <1>3, ListsAdd
  <1>5. Tiling(type', allocsize', Kept')
    BY <1>2
  <1>6. Holding(type', owned', Flight(call')) /\ CallsOk(call', allocsize')
    BY <1>2
  <1>7. Ready'
    <2>1. type'[p] = "FREE" /\ mm_lock' = c /\ block' = p
      BY <1>1 DEF Link
    <2> QED BY <1>1, <2>1 DEF Ready
  <1> QED BY <1>4, <1>5, <1>6, <1>7 DEF PageInv, Blocks

(* A page that was kept back is linked: nobody's block is touched. *)
LEMMA KeptFreed ==
  ASSUME PageInv, NEW p \in Page, p \in Kept
  PROVE  /\ Tiling(Put(type, p, "FREE"), allocsize, Kept \ {p})
         /\ Holding(Put(type, p, "FREE"), owned, Flight(call)) /\ type[p] # "FREE"
  <1>1. /\ Tiling(type, allocsize, Kept) /\ type \in [Page -> PageTypes]
        /\ Holding(type, owned, Flight(call))
    BY PageInvFacts
  <1>2. Tiling(Put(type, p, "FREE"), allocsize, Kept \ {p}) /\ type[p] = "RESERVED"
    BY <1>1, TileFree
  <1>3. \A x \in Page : Put(type, p, "FREE")[x] = "ALLOCATED" <=> type[x] = "ALLOCATED"
    BY <1>1, <1>2 DEF Put
  <1>4. Holding(Put(type, p, "FREE"), owned, Flight(call))
    BY <1>1, <1>3, HoldingSame
  <1> QED BY <1>2, <1>4

LEMMA InitGlobalStep == ASSUME PageInv, NEW c \in CPU, mm_init_global(c) PROVE PageInv'
  <1>1. PICK p \in pages : /\ Link(c, p) /\ pages' = pages \ {p}
                           /\ UNCHANGED <<allocsize, panicmem, call, owned, asserted>>
    BY DEF mm_init_global
  <1>2. Ready /\ CallsOk(call, allocsize)
    BY PageInvFacts
  <1>3. p \in Page /\ p \in Kept /\ Kept' = Kept \ {p}
    BY <1>1, <1>2 DEF Ready, Kept
  <1>4. /\ Tiling(Put(type, p, "FREE"), allocsize, Kept \ {p}) /\ type[p] # "FREE"
        /\ Holding(Put(type, p, "FREE"), owned, Flight(call))
    BY <1>3, KeptFreed
  <1>5. Holding(Put(type, p, "FREE"), owned', Flight(call')) /\ CallsOk(call', allocsize)
    BY <1>1, <1>2, <1>4
  <1>6. pages' \subseteq pages /\ panicmem' \subseteq panicmem /\ UNCHANGED <<allocsize, asserted>>
    BY <1>1
  <1> QED BY <1>1, <1>3, <1>4, <1>5, <1>6, LinkStep

LEMMA PanicmemStep == ASSUME PageInv, NEW c \in CPU, mm_free_panicmem(c) PROVE PageInv'
  <1>1. PICK p \in panicmem : /\ Link(c, p) /\ panicmem' = panicmem \ {p}
                              /\ call[c] = NoCall \/ OutOfMemory(c)
                              /\ call' = [call EXCEPT ![c] = NoCall]
                              /\ UNCHANGED <<allocsize, pages, owned, asserted>>
    BY DEF mm_free_panicmem
  <1>2. Ready /\ CallsOk(call, allocsize) /\ call \in [CPU -> CallType]
    BY PageInvFacts
  <1>3. p \in Page /\ p \in Kept /\ Kept' = Kept \ {p}
    BY <1>1, <1>2 DEF Ready, Kept
  <1>4. /\ Tiling(Put(type, p, "FREE"), allocsize, Kept \ {p}) /\ type[p] # "FREE"
        /\ Holding(Put(type, p, "FREE"), owned, Flight(call))
    BY <1>3, KeptFreed
  <1>5. call[c].p = NULL /\ NoCall.p = NULL
    <2>1. NoCall.p = NULL
      BY DEF NoCall, Call
    <2>2. OutOfMemory(c) => call[c].n \notin Size
      BY PageFacts DEF OutOfMemory
    <2> QED BY <1>1, <1>2, <2>1, <2>2 DEF CallsOk
  <1>6. \A d \in CPU : call'[d] = IF d = c THEN NoCall ELSE call[d]
    BY <1>1, <1>2
  <1>7. Flight(call') = Flight(call)
    BY <1>5, <1>6 DEF Flight
  <1>8. CallsOk(call', allocsize)
    <2>1. NoCall \in CallType
      BY DEF NoCall, Call, CallType
    <2>2. call' \in [CPU -> CallType]
      BY <1>1, <1>2, <2>1
    <2> QED BY <1>2, <1>5, <1>6, <2>2 DEF CallsOk
  <1>9. Holding(Put(type, p, "FREE"), owned', Flight(call'))
    BY <1>1, <1>4, <1>7
  <1>10. pages' \subseteq pages /\ panicmem' \subseteq panicmem /\ UNCHANGED <<allocsize, asserted>>
    BY <1>1
  <1> QED BY <1>1, <1>3, <1>4, <1>8, <1>9, <1>10, LinkStep

LEMMA FreePageStep == ASSUME PageInv, NEW c \in CPU, free_page(c) PROVE PageInv'
  <1>1. PICK p \in owned : /\ Link(c, p) /\ owned' = owned \ {p}
                           /\ UNCHANGED <<allocsize, pages, panicmem, call, asserted>>
    BY DEF free_page
  <1>2. /\ Tiling(type, allocsize, Kept) /\ type \in [Page -> PageTypes]
        /\ Holding(type, owned, Flight(call)) /\ CallsOk(call, allocsize)
    BY PageInvFacts
  <1>3. /\ p \in Page /\ type[p] = "ALLOCATED"
        /\ Holding(Put(type, p, "FREE"), owned \ {p}, Flight(call))
    BY <1>2, HoldingFree
  <1>4. Tiling(Put(type, p, "FREE"), allocsize, Kept)
    BY <1>2, <1>3, TileMark DEF IsHead
  <1>5. Kept' = Kept
    BY <1>1 DEF Kept
  <1>6. Holding(Put(type, p, "FREE"), owned', Flight(call')) /\ CallsOk(call', allocsize)
    BY <1>1, <1>2, <1>3
  <1>7. pages' \subseteq pages /\ panicmem' \subseteq panicmem /\ UNCHANGED <<allocsize, asserted>>
    BY <1>1
  <1>8. type[p] # "FREE"
    BY <1>3
  <1> QED BY <1>1, <1>3, <1>4, <1>5, <1>6, <1>7, <1>8, LinkStep

-----------------------------------------------------------------------------
LEMMA MergeStep == ASSUME PageInv, NEW c \in CPU, Merge(c) PROVE PageInv'
  <1>1. /\ Tiling(type, allocsize, Kept) /\ TileTypes(type, allocsize)
        /\ Lists(type, allocsize, list1_freepage)
        /\ Holding(type, owned, Flight(call)) /\ CallsOk(call, allocsize) /\ Ready
        /\ type \in [Page -> PageTypes] /\ allocsize \in [Page -> Size]
        /\ list1_freepage \in [Size -> Seq(Page)]
    BY PageInvFacts
  <1>2. /\ mm_lock = c /\ CanMerge(block)
        /\ UNCHANGED <<mm_lock, pages, panicmem, call, owned, asserted>>
    BY DEF Merge
  <1>3. block \in Page /\ type[block] = "FREE"
    BY <1>1, <1>2, PageFacts DEF Ready
  <1>4. PICK n \in Size : n = allocsize[block]
    BY <1>1, <1>3
  <1>5. n + 1 \in Size
    BY <1>2, <1>4, PageFacts DEF CanMerge
  <1>6. PICK w \in Nat \ {0} : w = PageCount[n]
    BY PageFacts
  <1>7. Multiple(block, PageCount[n])
    BY <1>1, <1>3, <1>4 DEF Tiling, Aligned, IsHead
  <1>8. PICK p \in Page, q \in Page :
           /\ q = p + PageCount[n] /\ Multiple(p, 2 * PageCount[n])
           /\ p = IF Buddy(block, n) < block THEN Buddy(block, n) ELSE block
           /\ q = Buddy(p, n)
           /\ {p, q} = {block, Buddy(block, n)}
    <2>1. PICK b : b = Buddy(block, n)
      OBVIOUS
    <2>2. \/ b = block + w /\ b \in Page /\ Multiple(block, 2 * PageCount[n])
          \/ b = block - w /\ b \in Page /\ Multiple(b, 2 * PageCount[n]) /\ Buddy(b, n) = block
      BY <1>3, <1>5, <1>6, <1>7, <2>1, BuddyIs
    <2>3. block \in Nat
      BY <1>3, PageFacts
    <2>4. CASE b = block + w /\ b \in Page /\ Multiple(block, 2 * PageCount[n])
      <3>1. ~(b < block)
        BY <2>3, <2>4
      <3> QED BY <1>3, <1>6, <2>1, <2>4, <3>1
    <2>5. CASE b = block - w /\ b \in Page /\ Multiple(b, 2 * PageCount[n]) /\ Buddy(b, n) = block
      <3>1. b < block /\ block = b + w
        BY <2>3, <2>5
      <3> QED BY <1>3, <1>6, <2>1, <2>5, <3>1
    <2> QED BY <2>2, <2>4, <2>5
  <1>9. /\ type[p] = "FREE" /\ type[q] = "FREE" /\ allocsize[p] = n /\ allocsize[q] = n
    BY <1>2, <1>3, <1>4, <1>8 DEF CanMerge
  <1>10. p # q
    BY <1>6, <1>8, PageFacts
  <1>11. /\ type' = Put(type, q, "NOT_HEAD") /\ allocsize' = Put(allocsize, p, n + 1)
         /\ block' = p
    BY <1>4, <1>8 DEF Merge, Put
  <1>12. list1_freepage' =
            [list1_freepage EXCEPT ![n] = LIST1_DEL(LIST1_DEL(list1_freepage[n], p), q),
                                   ![n + 1] = LIST1_ADD(list1_freepage[n + 1], p)]
    <2>1. n # n + 1
      BY PageFacts
    <2> QED BY <1>1, <1>4, <1>5, <1>8, <2>1 DEF Merge
  <1>13. Kept' = Kept
    BY <1>2 DEF Kept
  <1>14. Tiling(type', allocsize', Kept')
    BY <1>1, <1>5, <1>8, <1>9, <1>11, <1>13, TileMerge DEF IsHead
  <1>15. Lists(type', allocsize', list1_freepage')
    BY <1>1, <1>5, <1>9, <1>10, <1>11, <1>12, ListsMerge
  <1>16. \A x \in Page : type'[x] = IF x = q THEN "NOT_HEAD" ELSE type[x]
    BY <1>1, <1>11 DEF Put
  <1>17. Holding(type', owned', Flight(call'))
    <2>1. \A x \in Page : type'[x] = "ALLOCATED" <=> type[x] = "ALLOCATED"
      BY <1>9, <1>16
    <2>2. Holding(type', owned, Flight(call))
      BY <1>1, <2>1, HoldingSame
    <2> QED BY <1>2, <2>2
  <1>18. CallsOk(call', allocsize')
    <2>1. \A x \in Page : x # p => allocsize'[x] = allocsize[x]
      BY <1>1, <1>11 DEF Put
    <2>2. ASSUME NEW d \in CPU, call[d].p # NULL PROVE call[d].p \in Page /\ call[d].p # p
      <3>1. Flight(call)[d] = call[d].p
        BY DEF Flight
      <3>2. call[d].p \in Page
        BY <1>1, <2>2, <3>1 DEF Holding
      <3>3. type[call[d].p] = "ALLOCATED"
        BY <1>1, <3>1, <3>2 DEF Holding
      <3> QED BY <1>9, <3>2, <3>3
    <2> QED BY <1>1, <1>2, <2>1, <2>2 DEF CallsOk
  <1>19. Ready'
    <2>1. type'[p] = "FREE"
      BY <1>9, <1>10, <1>16
    <2> QED BY <1>1, <1>2, <1>11, <2>1 DEF Ready
  <1> QED BY <1>14, <1>15, <1>17, <1>18, <1>19 DEF PageInv, Blocks

LEMMA MergedStep == ASSUME PageInv, NEW c \in CPU, Merged(c) PROVE PageInv'
  <1>1. /\ mm_lock' = NULL
        /\ UNCHANGED <<type, allocsize, list1_freepage, pages, panicmem, call, owned, asserted>>
    BY DEF Merged
  <1>2. Kept' = Kept
    BY <1>1 DEF Kept
  <1>3. Ready'
    BY <1>1 DEF PageInv, Ready
  <1> QED BY <1>1, <1>2, <1>3 DEF PageInv, Blocks

LEMMA AllocPagesStep == ASSUME PageInv, NEW c \in CPU, alloc_pages(c) PROVE PageInv'
  <1>1. PICK n \in Size : /\ call[c] = NoCall /\ call' = [call EXCEPT ![c] = Call(n, n, NULL)]
                          /\ UNCHANGED <<pagevars, pages, panicmem, block, owned, asserted>>
    BY DEF alloc_pages
  <1>2. /\ Tiling(type, allocsize, Kept) /\ Lists(type, allocsize, list1_freepage)
        /\ Holding(type, owned, Flight(call)) /\ CallsOk(call, allocsize) /\ Ready
        /\ call \in [CPU -> CallType]
    BY PageInvFacts
  <1>3. UNCHANGED <<type, allocsize, list1_freepage, mm_lock>> /\ Kept' = Kept
    BY <1>1 DEF pagevars, Kept
  <1>4. \A d \in CPU : call'[d] = IF d = c THEN Call(n, n, NULL) ELSE call[d]
    BY <1>1, <1>2
  <1>5. call[c].p = NULL
    BY <1>1 DEF NoCall, Call
  <1>6. /\ Call(n, n, NULL).want = n /\ Call(n, n, NULL).n = n /\ Call(n, n, NULL).p = NULL
        /\ n \in 0 .. NUM_OF_ALLOCSIZE /\ n <= n /\ Call(n, n, NULL) \in CallType
    BY PageFacts DEF Call, CallType
  <1>7. Flight(call') = Flight(call)
    BY <1>4, <1>5, <1>6 DEF Flight
  <1>8. CallsOk(call', allocsize')
    <2>1. call' \in [CPU -> CallType]
      BY <1>1, <1>2, <1>6
    <2> QED BY <1>2, <1>3, <1>4, <1>6, <2>1 DEF CallsOk
  <1>9. Ready'
    BY <1>1, <1>2, <1>3 DEF Ready
  <1>10. Holding(type', owned', Flight(call'))
    BY <1>1, <1>2, <1>3, <1>7
  <1>11. Tiling(type', allocsize', Kept') /\ Lists(type', allocsize', list1_freepage')
    BY <1>2, <1>3
  <1> QED BY <1>8, <1>9, <1>10, <1>11 DEF PageInv, Blocks

LEMMA GoUpStep == ASSUME PageInv, NEW c \in CPU, GoUp(c) PROVE PageInv'
  <1>1. /\ Searches(c) /\ call' = [call EXCEPT ![c].n = @ + 1]
        /\ UNCHANGED <<pagevars, pages, panicmem, block, owned, asserted>>
    BY DEF GoUp
  <1>2. /\ Tiling(type, allocsize, Kept) /\ Lists(type, allocsize, list1_freepage)
        /\ Holding(type, owned, Flight(call)) /\ CallsOk(call, allocsize) /\ Ready
        /\ call \in [CPU -> CallType]
    BY PageInvFacts
  <1>3. UNCHANGED <<type, allocsize, list1_freepage, mm_lock>> /\ Kept' = Kept
    BY <1>1 DEF pagevars, Kept
  <1>4. /\ call[c].p = NULL /\ call[c] # NoCall
        /\ call[c].want \in Size /\ call[c].n \in 0 .. NUM_OF_ALLOCSIZE
        /\ call[c].want <= call[c].n /\ call[c].n # NUM_OF_ALLOCSIZE /\ call[c] \in CallType
    BY <1>1, <1>2 DEF Searches, OutOfMemory, CallsOk
  <1>5. call[c].n + 1 \in 0 .. NUM_OF_ALLOCSIZE /\ call[c].want <= call[c].n + 1
    BY <1>4, PageFacts
  <1>6. PICK r : r = [call[c] EXCEPT !.n = @ + 1]
    OBVIOUS
  <1>7. /\ r \in CallType /\ r.p = NULL /\ r.want = call[c].want /\ r.n = call[c].n + 1
    BY <1>4, <1>5, <1>6 DEF CallType
  <1>8. \A d \in CPU : call'[d] = IF d = c THEN r ELSE call[d]
    BY <1>1, <1>2, <1>6
  <1>9. Flight(call') = Flight(call)
    BY <1>4, <1>7, <1>8 DEF Flight
  <1>10. CallsOk(call', allocsize')
    <2>1. call' \in [CPU -> CallType]
      <3>1. call' = [call EXCEPT ![c] = r]
        BY <1>1, <1>6
      <3> QED BY <1>2, <1>7, <3>1
    <2> QED BY <1>2, <1>3, <1>4, <1>5, <1>7, <1>8, <2>1 DEF CallsOk
  <1>11. Ready'
    BY <1>1, <1>2, <1>3 DEF Ready
  <1>12. Holding(type', owned', Flight(call'))
    BY <1>1, <1>2, <1>3, <1>9
  <1>13. Tiling(type', allocsize', Kept') /\ Lists(type', allocsize', list1_freepage')
    BY <1>2, <1>3
  <1> QED BY <1>10, <1>11, <1>12, <1>13 DEF PageInv, Blocks

(***************************************************************************)
(* The first block of list n is taken, from any division into blocks in    *)
(* which the processor carries none.                                       *)
(***************************************************************************)
LEMMA PoppedStep ==
  ASSUME PageInv, NEW c \in CPU, mm_lock = NULL, NEW n \in Size, NEW ty, NEW fl, NEW h,
         Tiling(ty, allocsize', Kept), Lists(ty, allocsize', fl),
         Holding(ty, owned, Put(Flight(call), c, NULL)),
         fl[n] # <<>>, h = Head(fl[n]),
         call[c].want \in Size, call[c].want <= n,
         \A d \in CPU : d # c /\ call[d].p # NULL => allocsize'[call[d].p] = call[d].n,
         type' = Put(ty, h, "ALLOCATED"), list1_freepage' = Put(fl, n, LIST1_POP(fl[n])),
         asserted' = (asserted \/ ty[h] # "FREE"), Popped(c, n, h),
         UNCHANGED <<mm_lock, pages, panicmem, block>>
  PROVE  PageInv'
  <1>1. /\ CallsOk(call, allocsize) /\ Ready /\ call \in [CPU -> CallType]
        /\ \A d \in CPU : Flight(call)[d] = call[d].p
    BY PageInvFacts
  <1>2. TileTypes(ty, allocsize') /\ ty \in [Page -> PageTypes]
    BY DEF Tiling, TileTypes
  <1>3. /\ h \in Page /\ ty[h] = "FREE" /\ allocsize'[h] = n
        /\ Lists(type', allocsize', list1_freepage')
    BY <1>2, ListsPop
  <1>4. Kept' = Kept
    BY DEF Kept
  <1>5. Tiling(type', allocsize', Kept')
    BY <1>3, <1>4, TileMark DEF IsHead
  <1>6. Ready'
    BY <1>1, <1>3 DEF Ready
  <1>7. PICK f : f = Put(Flight(call), c, NULL)
    OBVIOUS
  <1>8. f[c] = NULL /\ f = [d \in CPU |-> IF d = c THEN NULL ELSE call[d].p]
    BY <1>7 DEF Put, Flight
  <1>9. /\ Holding(type', owned \cup {h}, f) /\ Holding(type', owned, Put(f, c, h))
    BY <1>2, <1>3, <1>7, <1>8, HoldingPop
  <1>10. CASE n = call[c].want
    <2>1. call' = [call EXCEPT ![c] = NoCall] /\ owned' = owned \cup {h}
      BY <1>10 DEF Popped
    <2>2. \A d \in CPU : call'[d] = IF d = c THEN NoCall ELSE call[d]
      BY <1>1, <2>1
    <2>3. NoCall.p = NULL /\ NoCall \in CallType
      BY DEF NoCall, Call, CallType
    <2>4. Flight(call') = f
      BY <1>8, <2>2, <2>3 DEF Flight
    <2>5. call' \in [CPU -> CallType]
      BY <1>1, <2>1, <2>3
    <2>6. CallsOk(call', allocsize')
      BY <1>1, <2>2, <2>3, <2>5 DEF CallsOk
    <2>7. Holding(type', owned', Flight(call'))
      BY <1>9, <2>1, <2>4
    <2> QED BY <1>3, <1>5, <1>6, <2>6, <2>7 DEF PageInv, Blocks
  <1>11. CASE n # call[c].want
    <2>0. PICK r : r = Call(call[c].want, n, h)
      OBVIOUS
    <2>1. call' = [call EXCEPT ![c] = r] /\ owned' = owned
      BY <1>1, <1>11, <2>0 DEF Popped
    <2>2. \A d \in CPU : call'[d] = IF d = c THEN r ELSE call[d]
      BY <1>1, <2>1
    <2>3. /\ r.p = h /\ r.want = call[c].want /\ r.n = n
          /\ n \in 0 .. NUM_OF_ALLOCSIZE /\ call[c].want < n
      BY <1>11, <2>0, PageFacts DEF Call
    <2>4. r \in CallType
      BY <1>3, <2>0, <2>3 DEF Call, CallType
    <2>5. Flight(call') = Put(f, c, h)
      <3>1. Put(f, c, h) = [d \in CPU |-> IF d = c THEN h ELSE f[d]]
        BY <1>8 DEF Put
      <3>2. \A d \in CPU : d # c => f[d] = call[d].p
        BY <1>8
      <3>3. \A d \in CPU : call'[d].p = IF d = c THEN h ELSE f[d]
        BY <2>2, <2>3, <3>2
      <3> QED BY <3>1, <3>3 DEF Flight
    <2>6. call' \in [CPU -> CallType]
      BY <1>1, <2>1, <2>4
    <2>7. CallsOk(call', allocsize')
      <3>1. ASSUME NEW d \in CPU, call'[d] # NoCall
            PROVE  /\ call'[d].want \in Size /\ call'[d].n \in 0 .. NUM_OF_ALLOCSIZE
                   /\ call'[d].want <= call'[d].n
        BY <1>1, <2>2, <2>3, <3>1 DEF CallsOk
      <3>2. ASSUME NEW d \in CPU, call'[d].p # NULL
            PROVE  /\ call'[d].want \in Size /\ call'[d].n \in Size
                   /\ call'[d].want < call'[d].n /\ allocsize'[call'[d].p] = call'[d].n
        BY <1>1, <1>3, <2>2, <2>3, <3>2 DEF CallsOk
      <3> QED BY <2>6, <3>1, <3>2 DEF CallsOk
    <2>8. Holding(type', owned', Flight(call'))
      BY <1>9, <2>1, <2>5
    <2> QED BY <1>3, <1>5, <1>6, <2>7, <2>8 DEF PageInv, Blocks
  <1> QED BY <1>10, <1>11

LEMMA PopStep == ASSUME PageInv, NEW c \in CPU, Pop(c) PROVE PageInv'
  <1>1. /\ Tiling(type, allocsize, Kept) /\ Lists(type, allocsize, list1_freepage)
        /\ Holding(type, owned, Flight(call)) /\ CallsOk(call, allocsize)
        /\ call \in [CPU -> CallType] /\ list1_freepage \in [Size -> Seq(Page)]
    BY PageInvFacts
  <1>2. PICK n : n = call[c].n
    OBVIOUS
  <1>3. PICK h : h = Head(list1_freepage[n])
    OBVIOUS
  <1>4. /\ mm_lock = NULL /\ Searches(c) /\ list1_freepage[n] # <<>> /\ Popped(c, n, h)
        /\ asserted' = (asserted \/ type[h] # "FREE") /\ type' = Put(type, h, "ALLOCATED")
        /\ UNCHANGED <<allocsize, mm_lock, pages, panicmem, block>>
    BY <1>2, <1>3 DEF Pop, Mark, Put
  <1>5. /\ call[c].p = NULL /\ call[c].want \in Size /\ n \in 0 .. NUM_OF_ALLOCSIZE
        /\ call[c].want <= n /\ n # NUM_OF_ALLOCSIZE
    BY <1>1, <1>2, <1>4 DEF Searches, OutOfMemory, CallsOk
  <1>6. n \in Size
    BY <1>5, PageFacts
  <1>7. list1_freepage' = Put(list1_freepage, n, LIST1_POP(list1_freepage[n]))
    BY <1>1, <1>2, <1>6 DEF Pop, Put
  <1>8. Put(Flight(call), c, NULL) = Flight(call)
    BY <1>5 DEF Put, Flight
  <1>9. \A d \in CPU : d # c /\ call[d].p # NULL => allocsize'[call[d].p] = call[d].n
    BY <1>1, <1>4 DEF CallsOk
  <1>10. /\ Tiling(type, allocsize', Kept) /\ Lists(type, allocsize', list1_freepage)
         /\ Holding(type, owned, Put(Flight(call), c, NULL))
    BY <1>1, <1>4, <1>8
  <1>11. UNCHANGED <<mm_lock, pages, panicmem, block>>
    BY <1>4
  <1> QED BY <1>3, <1>4, <1>5, <1>6, <1>7, <1>9, <1>10, <1>11, PoppedStep

LEMMA SplitStep == ASSUME PageInv, NEW c \in CPU, Split(c) PROVE PageInv'
  <1>1. /\ Tiling(type, allocsize, Kept) /\ Lists(type, allocsize, list1_freepage)
        /\ Holding(type, owned, Flight(call)) /\ CallsOk(call, allocsize)
        /\ call \in [CPU -> CallType] /\ list1_freepage \in [Size -> Seq(Page)]
        /\ TileTypes(type, allocsize) /\ type \in [Page -> PageTypes]
        /\ allocsize \in [Page -> Size] /\ \A d \in CPU : Flight(call)[d] = call[d].p
    BY PageInvFacts
  <1>2. PICK p : p = call[c].p
    OBVIOUS
  <1>3. /\ mm_lock = NULL /\ p # NULL /\ UNCHANGED <<mm_lock, pages, panicmem, block>>
    BY <1>2 DEF Split
  <1>4. p \in Page /\ type[p] = "ALLOCATED"
    <2>1. Flight(call)[c] = p
      BY <1>1, <1>2
    <2>2. p \in Page
      BY <1>1, <1>3, <2>1 DEF Holding
    <2> QED BY <1>1, <2>1, <2>2 DEF Holding
  <1>5. /\ call[c].want \in Size /\ call[c].n \in Size /\ call[c].want < call[c].n
        /\ allocsize[p] = call[c].n
    BY <1>1, <1>2, <1>3 DEF CallsOk
  <1>6. PICK n : n = call[c].n - 1
    OBVIOUS
  <1>7. n \in Size /\ n + 1 \in Size /\ allocsize[p] = n + 1 /\ call[c].want <= n
    <2>1. PICK m \in Size, k \in Size : m = call[c].n /\ k = call[c].want
      BY <1>5
    <2>2. m \in 1 .. NUM_OF_ALLOCSIZE - 1 /\ k \in Int /\ k < m
      BY <1>5, <2>1, PageFacts
    <2>3. m - 1 \in Size /\ (m - 1) + 1 = m /\ k <= m - 1
      BY <2>2, PageFacts
    <2> QED BY <1>5, <1>6, <2>1, <2>3
  <1>8. PICK q : q = p + PageCount[n]
    OBVIOUS
  <1>9. PICK ty : ty = Put(Put(type, p, "FREE"), q, "FREE")
    OBVIOUS
  <1>10. /\ q \in Page /\ q # p /\ type[q] = "NOT_HEAD" /\ allocsize[q] = n /\ Buddy(p, n) = q
         /\ Tiling(ty, Put(allocsize, p, n), Kept)
    BY <1>1, <1>4, <1>7, <1>8, <1>9, TileSplit DEF IsHead
  <1>11. PICK list : list = LIST1_ADD(LIST1_ADD(list1_freepage[n], p), q)
    OBVIOUS
  <1>12. PICK fl : fl = Put(list1_freepage, n, list)
    OBVIOUS
  <1>13. Lists(ty, Put(allocsize, p, n), fl)
    BY <1>1, <1>4, <1>7, <1>9, <1>10, <1>11, <1>12, ListsSplit
  <1>14. Holding(ty, owned, Put(Flight(call), c, NULL))
    BY <1>1, <1>2, <1>4, <1>9, <1>10, HoldingSplit
  <1>15. PICK h : h = Head(list)
    OBVIOUS
  <1>16. /\ allocsize' = Put(allocsize, p, n)
         /\ list1_freepage' = [list1_freepage EXCEPT ![n] = LIST1_POP(list)]
         /\ type' = Put(ty, h, "ALLOCATED") /\ asserted' = (asserted \/ ty[h] # "FREE")
         /\ Popped(c, n, h)
    BY <1>2, <1>6, <1>9, <1>10, <1>11, <1>15 DEF Split, Halve, Mark, Put
  <1>17. fl[n] = list /\ list1_freepage' = Put(fl, n, LIST1_POP(fl[n]))
    BY <1>1, <1>7, <1>12, <1>16 DEF Put
  <1>18. list # <<>>
    <2>1. list1_freepage[n] \in Seq(Page)
      BY <1>1, <1>7
    <2>2. LIST1_ADD(list1_freepage[n], p) \in Seq(Page)
      BY <1>4, <2>1 DEF LIST1_ADD
    <2> QED BY <1>10, <1>11, <2>2 DEF LIST1_ADD
  <1>19. \A d \in CPU : d # c /\ call[d].p # NULL => allocsize'[call[d].p] = call[d].n
    <2> SUFFICES ASSUME NEW d \in CPU, d # c, call[d].p # NULL
                 PROVE  allocsize'[call[d].p] = call[d].n
      OBVIOUS
    <2>1. call[d].p \in Page
      BY <1>1 DEF Holding
    <2>2. call[d].p # p
      BY <1>1, <1>2, <1>3 DEF Holding
    <2>3. allocsize[call[d].p] = call[d].n
      BY <1>1 DEF CallsOk
    <2> QED BY <1>1, <1>16, <2>1, <2>2, <2>3 DEF Put
  <1>20. Tiling(ty, allocsize', Kept) /\ Lists(ty, allocsize', fl)
    BY <1>10, <1>13, <1>16
  <1>21. h = Head(fl[n]) /\ fl[n] # <<>>
    BY <1>15, <1>17, <1>18
  <1> QED BY <1>3, <1>5, <1>7, <1>14, <1>16, <1>17, <1>19, <1>20, <1>21, PoppedStep

LEMMA PageStep == PageInv /\ [Next]_vars => PageInv'
  <1> SUFFICES ASSUME PageInv, [Next]_vars PROVE PageInv'
    OBVIOUS
  <1>1. CASE Next
    BY <1>1, InitGlobalStep, PanicmemStep, FreePageStep, MergeStep, MergedStep, AllocPagesStep,
       PopStep, GoUpStep, SplitStep DEF Next
  <1>2. CASE UNCHANGED vars
    <2>1. /\ UNCHANGED <<type, allocsize, list1_freepage, mm_lock>>
          /\ UNCHANGED <<pages, panicmem, call, block, owned, asserted>>
      BY <1>2 DEF vars, pagevars
    <2>2. Kept' = Kept
      BY <2>1 DEF Kept
    <2>3. Ready'
      BY <2>1 DEF PageInv, Ready
    <2> QED BY <2>1, <2>2, <2>3 DEF PageInv, Blocks
  <1> QED BY <1>1, <1>2

-----------------------------------------------------------------------------
(* A free page has one place in one list, and what is in a list is free. *)
LEMMA FreeBlockOnce ==
  ASSUME PageInv
  PROVE  /\ \A b \in FreeBlocks : b[1] \in Page /\ type[b[1]] = "FREE" /\ allocsize[b[1]] = b[2]
         /\ \A p \in Page : type[p] = "FREE" => \E b \in FreeBlocks : b[1] = p
         /\ \A b, d \in FreeBlocks : b[1] = d[1] => b = d
  <1> DEFINE l == list1_freepage
             At(n, i) == <<l[n][i], n, i>>
  <1>1. /\ Lists(type, allocsize, l) /\ l \in [Size -> Seq(Page)]
        /\ allocsize \in [Page -> Size]
    BY PageInvFacts
  <1>2. \A n \in Size : \A i \in 1 .. Len(l[n]) : At(n, i) \in FreeBlocks
    BY DEF FreeBlocks
  <1>3. \A b \in FreeBlocks : \E n \in Size : \E i \in 1 .. Len(l[n]) : b = At(n, i)
    BY DEF FreeBlocks
  <1>4. \A n, i : At(n, i)[1] = l[n][i] /\ At(n, i)[2] = n
    OBVIOUS
  <1> HIDE DEF At
  <1>5. ASSUME NEW n \in Size
        PROVE  /\ l[n] \in Seq(Page) /\ DOMAIN l[n] = 1 .. Len(l[n])
               /\ \A i \in 1 .. Len(l[n]) : l[n][i] \in Page /\ l[n][i] \in Range(l[n])
    <2>1. l[n] \in Seq(Page)
      BY <1>1
    <2> QED BY <2>1 DEF Range
  <1>6. ASSUME NEW b \in FreeBlocks
        PROVE  b[1] \in Page /\ type[b[1]] = "FREE" /\ allocsize[b[1]] = b[2]
    <2>1. PICK n \in Size : \E i \in 1 .. Len(l[n]) : b = At(n, i)
      BY <1>3
    <2>2. PICK i \in 1 .. Len(l[n]) : b = At(n, i)
      BY <2>1
    <2>3. l[n][i] \in Page /\ l[n][i] \in Range(l[n])
      BY <1>5
    <2>4. type[l[n][i]] = "FREE" /\ allocsize[l[n][i]] = n
      BY <1>1, <2>3 DEF Lists
    <2> QED BY <1>4, <2>2, <2>3, <2>4
  <1>7. ASSUME NEW p \in Page, type[p] = "FREE" PROVE \E b \in FreeBlocks : b[1] = p
    <2>1. PICK n \in Size : n = allocsize[p]
      BY <1>1
    <2>2. p \in Range(l[n])
      BY <1>1, <1>7, <2>1 DEF Lists
    <2>3. PICK i \in 1 .. Len(l[n]) : l[n][i] = p
      BY <1>5, <2>2 DEF Range
    <2> QED BY <1>2, <1>4, <2>3
  <1>8. ASSUME NEW b \in FreeBlocks, NEW d \in FreeBlocks, b[1] = d[1] PROVE b = d
    <2>1. PICK n \in Size : \E i \in 1 .. Len(l[n]) : b = At(n, i)
      BY <1>3
    <2>2. PICK i \in 1 .. Len(l[n]) : b = At(n, i)
      BY <2>1
    <2>3. PICK m \in Size : \E j \in 1 .. Len(l[m]) : d = At(m, j)
      BY <1>3
    <2>4. PICK j \in 1 .. Len(l[m]) : d = At(m, j)
      BY <2>3
    <2>5. allocsize[b[1]] = n /\ allocsize[d[1]] = m
      BY <1>4, <1>6, <2>2, <2>4
    <2>6. n = m
      BY <1>8, <2>5
    <2>7. l[n][i] = l[n][j]
      BY <1>4, <1>8, <2>2, <2>4, <2>6
    <2>8. i = j
      BY <1>1, <1>5, <2>6, <2>7 DEF Lists, IsInjective
    <2> QED BY <2>2, <2>4, <2>6, <2>8
  <1> QED BY <1>6, <1>7, <1>8

(* The counts of EachPageOnce *)
Counted(A, B, C, k) == Cardinality(A) + Cardinality(B) + Cardinality(C) + k = 1

LEMMA CountOne ==
  /\ Counted({}, {}, {}, 1)
  /\ \A e : Counted({e}, {}, {}, 0) /\ Counted({}, {e}, {}, 0) /\ Counted({}, {}, {e}, 0)
  <1>1. Cardinality({}) = 0
    BY FS_EmptySet
  <1>2. \A e : Cardinality({e}) = 1
    BY FS_Singleton
  <1>3. ASSUME NEW e
        PROVE  Counted({e}, {}, {}, 0) /\ Counted({}, {e}, {}, 0) /\ Counted({}, {}, {e}, 0)
    <2>1. Cardinality({e}) = 1
      BY <1>2
    <2> QED BY <1>1, <2>1 DEF Counted
  <1>4. Counted({}, {}, {}, 1)
    BY <1>1 DEF Counted
  <1> QED BY <1>3, <1>4

LEMMA PagesCounted == PageInv => EachPageOnce
  <1> SUFFICES ASSUME PageInv, NEW x \in Page
               PROVE  Counted({b \in FreeBlocks : x \in Covers(b[1])},
                              {p \in owned : x \in Covers(p)},
                              {c \in CPU : call[c].p # NULL /\ x \in Covers(call[c].p)},
                              IF x \in Kept THEN 1 ELSE 0)
    BY DEF EachPageOnce, Counted
  <1> DEFINE A == {b \in FreeBlocks : x \in Covers(b[1])}
             B == {p \in owned : x \in Covers(p)}
             C == {c \in CPU : call[c].p # NULL /\ x \in Covers(call[c].p)}
             k == IF x \in Kept THEN 1 ELSE 0
  <1>1. /\ Tiling(type, allocsize, Kept) /\ Holding(type, owned, Flight(call))
        /\ \A c \in CPU : Flight(call)[c] = call[c].p
    BY PageInvFacts
  <1>2. \A p : Covers(p) = Span(allocsize, p)
    BY DEF Covers, Span
  <1>3. ASSUME NEW b \in A
        PROVE  b \in FreeBlocks /\ b[1] \in Page /\ type[b[1]] = "FREE" /\ x \in Span(allocsize, b[1])
    BY <1>2, FreeBlockOnce
  <1>4. ASSUME NEW p \in B
        PROVE  p \in owned /\ p \in Page /\ type[p] = "ALLOCATED" /\ x \in Span(allocsize, p)
    BY <1>1, <1>2 DEF Holding
  <1>5. ASSUME NEW c \in C
        PROVE  /\ c \in CPU /\ call[c].p # NULL /\ call[c].p \in Page
               /\ type[call[c].p] = "ALLOCATED" /\ x \in Span(allocsize, call[c].p)
    <2>1. c \in CPU /\ call[c].p # NULL /\ x \in Span(allocsize, call[c].p)
      BY <1>2
    <2>2. call[c].p \in Page
      BY <1>1, <2>1 DEF Holding
    <2> QED BY <1>1, <2>1, <2>2 DEF Holding
  <1>6. CASE x \in Kept
    <2>1. \A p \in Page : IsHead(type, p) => x \notin Span(allocsize, p)
      BY <1>1, <1>6, BlocksEverywhere
    <2>2. A = {} /\ B = {} /\ C = {}
      <3>1. ASSUME NEW b \in A PROVE FALSE
        BY <1>3, <2>1 DEF IsHead
      <3>2. ASSUME NEW p \in B PROVE FALSE
        BY <1>4, <2>1 DEF IsHead
      <3>3. ASSUME NEW c \in C PROVE FALSE
        BY <1>5, <2>1 DEF IsHead
      <3> HIDE DEF A, B, C
      <3> QED BY <3>1, <3>2, <3>3
    <2>3. k = 1
      BY <1>6
    <2> HIDE DEF A, B, C, k
    <2>4. Counted(A, B, C, k)
      BY <2>2, <2>3, CountOne
    <2> QED BY <2>4 DEF A, B, C, k
  <1>7. CASE x \notin Kept
    <2>1. PICK p \in Page : IsHead(type, p) /\ x \in Span(allocsize, p)
      BY <1>1, <1>7, BlocksEverywhere
    <2>2. \A r \in Page : IsHead(type, r) /\ x \in Span(allocsize, r) => r = p
      BY <1>1, <2>1, BlocksApart
    <2>3. \A b \in A : b[1] = p /\ type[p] = "FREE"
      BY <1>3, <2>2 DEF IsHead
    <2>4. \A r \in B : r = p /\ type[p] = "ALLOCATED"
      BY <1>4, <2>2 DEF IsHead
    <2>5. \A c \in C : call[c].p = p /\ type[p] = "ALLOCATED"
      BY <1>5, <2>2 DEF IsHead
    <2>6. k = 0
      BY <1>7
    <2>7. CASE type[p] = "FREE"
      <3>1. PICK b \in FreeBlocks : b[1] = p
        BY <2>7, FreeBlockOnce
      <3>2. b \in A
        BY <1>2, <2>1, <3>1
      <3>3. \A d \in A : d \in FreeBlocks
        OBVIOUS
      <3> HIDE DEF A, B, C, k
      <3>4. \A d \in A : d = b
        BY <2>3, <3>1, <3>3, FreeBlockOnce
      <3>5. A = {b}
        BY <3>2, <3>4
      <3>6. B = {} /\ C = {}
        BY <2>4, <2>5, <2>7
      <3>7. Counted(A, B, C, k)
        BY <2>6, <3>5, <3>6, CountOne
      <3> QED BY <3>7 DEF A, B, C, k
    <2>8. CASE type[p] = "ALLOCATED" /\ p \in owned
      <3>1. p \in B
        BY <1>2, <2>1, <2>8
      <3>2. \A c \in CPU : call[c].p # p
        BY <1>1, <2>8 DEF Holding
      <3>3. \A c \in C : c \in CPU
        OBVIOUS
      <3> HIDE DEF A, B, C, k
      <3>4. B = {p}
        BY <2>4, <3>1
      <3>5. A = {} /\ C = {}
        BY <2>3, <2>5, <2>8, <3>2, <3>3
      <3>6. Counted(A, B, C, k)
        BY <2>6, <3>4, <3>5, CountOne
      <3> QED BY <3>6 DEF A, B, C, k
    <2>9. CASE type[p] = "ALLOCATED" /\ p \notin owned
      <3>1. PICK c \in CPU : call[c].p = p
        BY <1>1, <2>9 DEF Holding
      <3>2. p # NULL
        BY PageFacts
      <3>3. c \in C
        BY <1>2, <2>1, <3>1, <3>2
      <3>4. \A d \in CPU : call[d].p = p => d = c
        BY <1>1, <3>1, <3>2 DEF Holding
      <3>5. (\A d \in C : d \in CPU) /\ (\A r \in B : r \in owned)
        OBVIOUS
      <3> HIDE DEF A, B, C, k
      <3>6. C = {c}
        BY <2>5, <3>3, <3>4, <3>5
      <3>7. A = {} /\ B = {}
        BY <2>3, <2>4, <2>9, <3>5
      <3>8. Counted(A, B, C, k)
        BY <2>6, <3>6, <3>7, CountOne
      <3> QED BY <3>8 DEF A, B, C, k
    <2> QED BY <2>1, <2>7, <2>8, <2>9 DEF IsHead
  <1> QED BY <1>6, <1>7

LEMMA FieldsRight == PageInv => FieldsAgree
  <1> SUFFICES ASSUME PageInv PROVE FieldsAgree
    OBVIOUS
  <1>1. Tiling(type, allocsize, Kept) /\ Ready /\ allocsize \in [Page -> Size]
    BY PageInvFacts
  <1>2. ASSUME NEW p \in Page, type[p] = "NOT_HEAD"
        PROVE  p % PageCount[allocsize[p] + 1] = PageCount[allocsize[p]]
    <2>1. OddMultiple(p, PageCount[allocsize[p]])
      BY <1>1, <1>2 DEF Tiling, Uppers
    <2>2. PICK w \in Nat \ {0} : w = PageCount[allocsize[p]]
      BY <1>1, PageFacts
    <2>3. PageCount[allocsize[p] + 1] = 2 * w
      BY <1>1, <2>2, PageFacts
    <2>4. p \in Nat
      BY PageFacts
    <2>5. p % (2 * w) = w
      BY <2>1, <2>2, <2>4, OddCase
    <2> QED BY <2>2, <2>3, <2>5
  <1>3. ~asserted
    BY <1>1 DEF Ready
  <1> QED BY <1>2, <1>3, FreeBlockOnce DEF FieldsAgree

(***************************************************************************)
(* mm_page_alloc() and mm_page_free() hand out no page twice and lose      *)
(* none, for every number of processors, pages and sizes: although         *)
(* mm_lock is released while a block is on its way down, every page is in  *)
(* exactly one free block, one caller's block, one block that is being     *)
(* split, or among the pages never freed.                                  *)
(***************************************************************************)
THEOREM NoPageTwice == Spec => []EachPageOnce
  <1>1. Spec => []PageInv
    BY PageInit, PageStep, PTL DEF Spec
  <1> QED BY <1>1, PagesCounted, PTL

(***************************************************************************)
(* The assertion on old_type in mm_page_alloc() never fails, and the types *)
(* and sizes that mm_page_free() reads of pages it does not own agree with *)
(* the lists: a block is merged only with a free buddy of its size, and a  *)
(* block is split exactly as it was merged.                                *)
(***************************************************************************)
THEOREM FieldsTrustworthy == Spec => []FieldsAgree
  <1>1. Spec => []PageInv
    BY PageInit, PageStep, PTL DEF Spec
  <1> QED BY <1>1, FieldsRight, PTL
=============================================================================
