------------------------------ MODULE SmpProofs ------------------------------
(***************************************************************************)
(* Proofs about the locks, the barrier, panic() and the clock, for any     *)
(* number of processors and any width of tickets and counters.  Each part  *)
(* has an inductive invariant of its own: lemmas show that the part's own  *)
(* steps keep it, and the theorems at the end combine them for a behaviour *)
(* of module MCSmp.                                                        *)
(***************************************************************************)
EXTENDS MCSmp, Lemmas, FiniteSetTheorems, FunctionTheorems

USE TicketAssumption, SmpAssumption

-----------------------------------------------------------------------------
(* The byte lock: the byte is 1 while somebody is in.                      *)
ByteInv ==
    /\ Byte!TypeOK
    /\ \A c \in CPU : bytepc[c] = "in" => byte = 1
    /\ Byte!MutualExclusion

LEMMA ByteInit == Byte!Init => ByteInv
  BY DEF Byte!Init, ByteInv, Byte!TypeOK, Byte!MutualExclusion

LEMMA ByteStep == ByteInv /\ [Byte!Next]_bytevars => ByteInv'
  <1> SUFFICES ASSUME ByteInv, [Byte!Next]_bytevars PROVE ByteInv'
    OBVIOUS
  <1> USE DEF ByteInv, Byte!TypeOK, Byte!MutualExclusion
  <1>1. ASSUME NEW c \in CPU, Byte!Want(c) PROVE ByteInv'
    BY <1>1 DEF Byte!Want
  <1>2. ASSUME NEW c \in CPU, Byte!Xchg(c) PROVE ByteInv'
    <2>1. CASE byte = 0
      BY <1>2, <2>1 DEF Byte!Xchg, Byte!Got
    <2>2. CASE byte = 1
      BY <1>2, <2>2 DEF Byte!Xchg, Byte!Got
    <2> QED BY <2>1, <2>2
  <1>3. ASSUME NEW c \in CPU, Byte!Spin(c) PROVE ByteInv'
    BY <1>3 DEF Byte!Spin
  <1>4. ASSUME NEW c \in CPU, Byte!spinlock_unlock(c) PROVE ByteInv'
    BY <1>4 DEF Byte!spinlock_unlock
  <1>5. CASE UNCHANGED bytevars
    BY <1>5 DEF bytevars
  <1> QED BY <1>1, <1>2, <1>3, <1>4, <1>5 DEF Byte!Next

-----------------------------------------------------------------------------
(* panic(): OneMessage is inductive once the places in panic() are known   *)
(* to be those of the code.                                                *)
PanicInv == Pan!TypeOK /\ Pan!OneMessage

LEMMA PanicInit == Pan!Init => PanicInv
  BY DEF Pan!Init, PanicInv, Pan!TypeOK, Pan!OneMessage

LEMMA PanicStep == PanicInv /\ [Pan!Next]_panicvars => PanicInv'
  <1> SUFFICES ASSUME PanicInv, [Pan!Next]_panicvars PROVE PanicInv'
    OBVIOUS
  <1> USE DEF PanicInv, Pan!TypeOK, Pan!OneMessage, Pan!Go
  <1>1. ASSUME NEW c \in CPU, Pan!panic(c) PROVE PanicInv'
    BY <1>1 DEF Pan!panic, Pan!Call
  <1>2. ASSUME NEW c \in CPU, Pan!panic_test(c) PROVE PanicInv'
    BY <1>2 DEF Pan!panic_test, Pan!Call
  <1>3. ASSUME NEW c \in CPU, Pan!wait_for_other_cpu(c) PROVE PanicInv'
    BY <1>3 DEF Pan!wait_for_other_cpu, Pan!MayClaim
  <1>4. ASSUME NEW c \in CPU, Pan!Spin(c) PROVE PanicInv'
    BY <1>4 DEF Pan!Spin
  <1>5. ASSUME NEW c \in CPU, Pan!Format(c) PROVE PanicInv'
    BY <1>5 DEF Pan!Format
  <1>6. ASSUME NEW c \in CPU, Pan!Message(c) PROVE PanicInv'
    BY <1>6 DEF Pan!Message
  <1>7. ASSUME NEW c \in CPU, Pan!Release(c) PROVE PanicInv'
    BY <1>7 DEF Pan!Release
  <1>8. ASSUME NEW c \in CPU, Pan!panic_wakeup_all(c) PROVE PanicInv'
    BY <1>8 DEF Pan!panic_wakeup_all
  <1>9. ASSUME NEW c \in CPU, Pan!Swap(c) PROVE PanicInv'
    BY <1>9 DEF Pan!Swap
  <1>10. CASE UNCHANGED panicvars
    BY <1>10 DEF panicvars
  <1> QED
    BY <1>1, <1>2, <1>3, <1>4, <1>5, <1>6, <1>7, <1>8, <1>9, <1>10
    DEF Pan!Next, Pan!InPanic

-----------------------------------------------------------------------------
(***************************************************************************)
(* The barrier.  m meetings have ended.  A processor is outside, having    *)
(* left all of them, or waits in the next one, or is still about to leave  *)
(* the last one: its id is not the current one.  sync_count counts those   *)
(* that wait, so the last to come finds all the others waiting, and nobody *)
(* of them in the last meeting any more: one bit of sync_id is enough.     *)
(***************************************************************************)
Waiting == {c \in CPU : syncpc[c] = "in" /\ id[c] = sync_id}

Meeting(m) ==
    \A c \in CPU :
        /\ syncpc[c] = "out" => calls[c] = m /\ returns[c] = m
        /\ c \in Waiting => calls[c] = m + 1 /\ returns[c] = m
        /\ syncpc[c] = "in" /\ c \notin Waiting => calls[c] = m /\ returns[c] = m - 1

SyncInv ==
    /\ sync_id \in 0 .. 2^SyncW - 1
    /\ syncpc \in [CPU -> {"out", "in"}]
    /\ id \in [CPU -> 0 .. 2^SyncW - 1]
    /\ calls \in [CPU -> Int] /\ returns \in [CPU -> Int]
    /\ sync_count = Cardinality(Waiting)
    /\ \E m \in Nat : Meeting(m)

LEMMA SyncInit == Sync!Init => SyncInv
  <1> SUFFICES ASSUME Sync!Init PROVE SyncInv
    OBVIOUS
  <1> USE DEF Sync!Init
  <1>1. Waiting = {} /\ Cardinality(Waiting) = 0
    BY FS_EmptySet DEF Waiting
  <1>2. Meeting(0)
    BY <1>1 DEF Meeting
  <1> QED BY <1>1, <1>2 DEF SyncInv

(* The barrier counts with the same Cardinality. *)
LEMMA SameCardinality == \A S : Sync!Cardinality(S) = Cardinality(S)
  BY DEF Sync!Cardinality, Cardinality, Sync!IsFiniteSet, IsFiniteSet

(* The last to come finds all the others waiting. *)
LEMMA AllWait ==
  ASSUME SyncInv, NEW c \in CPU, c \notin Waiting, Sync!LastToCome
  PROVE  Waiting = CPU \ {c}
  <1>1. Waiting \in SUBSET (CPU \ {c}) /\ IsFiniteSet(CPU \ {c})
    BY FS_RemoveElement DEF Waiting
  <1>2. Cardinality(CPU \ {c}) = Cardinality(CPU) - 1 /\ Cardinality(CPU) \in Nat
    BY FS_RemoveElement, FS_CardinalityType
  <1>3. IsFiniteSet(Waiting) /\ Cardinality(Waiting) \in Nat
    BY <1>1, FS_Subset, FS_CardinalityType
  <1>4. Cardinality(Waiting) = Cardinality(CPU \ {c})
    BY <1>2, <1>3, SameCardinality DEF SyncInv, Sync!LastToCome
  <1> QED BY <1>1, <1>4, FS_Subset

LEMMA SyncStep == SyncInv /\ [Sync!Next]_syncvars => SyncInv'
  <1> SUFFICES ASSUME SyncInv, [Sync!Next]_syncvars PROVE SyncInv'
    OBVIOUS
  <1> IsFiniteSet(Waiting) /\ Cardinality(Waiting) \in Nat
    BY FS_Subset, FS_CardinalityType DEF Waiting
  <1>1. PICK m \in Nat : Meeting(m)
    BY DEF SyncInv
  <1>2. ASSUME NEW c \in CPU, Sync!sync_all_processors(c), Sync!LastToCome
        PROVE  SyncInv'
    <2>1. Waiting = CPU \ {c}
      BY <1>2, AllWait DEF Sync!sync_all_processors, Waiting
    <2>2. sync_id' \in 0 .. 2^SyncW - 1 /\ sync_id' # sync_id
      BY <1>2 DEF Sync!sync_all_processors, SyncInv
    <2>3. \A d \in CPU \ {c} : id'[d] = sync_id
      BY <1>2, <2>1 DEF Sync!sync_all_processors, SyncInv, Waiting
    <2>4. Waiting' = {} /\ Cardinality(Waiting') = 0
      BY <1>2, <2>2, <2>3, FS_EmptySet DEF Sync!sync_all_processors, SyncInv, Waiting
    <2>5. Meeting(m + 1)'
      BY <1>1, <1>2, <2>1, <2>4 DEF Sync!sync_all_processors, SyncInv, Meeting
    <2>6. sync_count' = Cardinality(Waiting')
      BY <1>2, <2>4 DEF Sync!sync_all_processors, Sync!Count
    <2> QED
      BY <1>2, <2>2, <2>5, <2>6 DEF Sync!sync_all_processors, SyncInv
  <1>3. ASSUME NEW c \in CPU, Sync!sync_all_processors(c), ~Sync!LastToCome
        PROVE  SyncInv'
    <2>1. Waiting' = Waiting \cup {c} /\ c \notin Waiting
      BY <1>3 DEF Sync!sync_all_processors, SyncInv, Waiting
    <2>2. sync_count' = Cardinality(Waiting')
      BY <1>3, <2>1, FS_AddElement DEF Sync!sync_all_processors, Sync!Count, SyncInv
    <2>3. Meeting(m)'
      BY <1>1, <1>3, <2>1 DEF Sync!sync_all_processors, SyncInv, Meeting
    <2> QED
      BY <1>3, <2>2, <2>3 DEF Sync!sync_all_processors, SyncInv
  <1>4. ASSUME NEW c \in CPU, Sync!Leave(c) PROVE SyncInv'
    <2>1. Waiting' = Waiting /\ c \notin Waiting
      BY <1>4 DEF Sync!Leave, Sync!Over, SyncInv, Waiting
    <2>2. Meeting(m)'
      BY <1>1, <1>4, <2>1 DEF Sync!Leave, SyncInv, Meeting
    <2> QED
      BY <1>4, <2>1, <2>2 DEF Sync!Leave, SyncInv
  <1>5. CASE UNCHANGED syncvars
    BY <1>5 DEF syncvars, SyncInv, Waiting, Meeting
  <1> QED BY <1>2, <1>3, <1>4, <1>5 DEF Sync!Next

LEMMA SyncSafe == SyncInv => NobodyLeavesEarly
  BY DEF SyncInv, Meeting, NobodyLeavesEarly, Sync!NobodyLeavesEarly

-----------------------------------------------------------------------------
(***************************************************************************)
(* The reader-writer lock.  The word is the number of readers, the waiting *)
(* ones included, plus the sign while a writer is in.  There are fewer     *)
(* processors than the sign, so the count never runs into it.              *)
(***************************************************************************)
Readers == {c \in CPU : wordpc[c] \in {"sh", "sh_wait"}}

WriterIn == \E c \in CPU : wordpc[c] = "ex"

RwInv ==
    /\ wordpc \in [CPU -> {"out", "sh_wait", "sh", "ex_wait", "ex"}]
    /\ word = Cardinality(Readers) + (IF WriterIn THEN Rw!Sign ELSE 0)
    /\ Rw!WriterAlone

LEMMA SignIsLarge ==
    /\ Rw!Sign \in Nat
    /\ Cardinality(CPU) \in Nat /\ Cardinality(CPU) < Rw!Sign
    /\ Rw!Word = 2 * Rw!Sign
  <1>1. (W + 1) - 1 = W
    OBVIOUS
  <1>2. Rw!Sign = 2^W
    BY <1>1 DEF Rw!Sign
  <1>3. Cardinality(CPU) \in Nat
    BY FS_CardinalityType
  <1> QED BY <1>2, <1>3 DEF Rw!Word

(* A processor that is not yet a reader leaves room for one more. *)
LEMMA ReadersFinite ==
    /\ IsFiniteSet(Readers)
    /\ Cardinality(Readers) \in Nat
    /\ Cardinality(Readers) <= Cardinality(CPU)
    /\ Readers = {} <=> Cardinality(Readers) = 0
    /\ \A c : /\ Cardinality(Readers \cup {c}) =
                    IF c \in Readers THEN Cardinality(Readers) ELSE Cardinality(Readers) + 1
              /\ Cardinality(Readers \ {c}) =
                    IF c \in Readers THEN Cardinality(Readers) - 1 ELSE Cardinality(Readers)
  <1>1. Readers \in SUBSET CPU
    BY DEF Readers
  <1>2. IsFiniteSet(Readers) /\ Cardinality(Readers) <= Cardinality(CPU)
    BY <1>1, FS_Subset
  <1>3. Cardinality(Readers) \in Nat /\ (Readers = {} <=> Cardinality(Readers) = 0)
    BY <1>2, FS_CardinalityType, FS_EmptySet
  <1> QED BY <1>2, <1>3, FS_AddElement, FS_RemoveElement

LEMMA RwInit == Rw!Init => RwInv
  <1> SUFFICES ASSUME Rw!Init PROVE RwInv
    OBVIOUS
  <1>1. Readers = {} /\ ~WriterIn
    BY DEF Rw!Init, Readers, WriterIn
  <1> QED BY <1>1, FS_EmptySet DEF Rw!Init, RwInv, Rw!WriterAlone

LEMMA RwStep == RwInv /\ [Rw!Next]_rwvars => RwInv'
  <1> SUFFICES ASSUME RwInv, [Rw!Next]_rwvars PROVE RwInv'
    OBVIOUS
  <1> USE SignIsLarge, ReadersFinite
  <1>0. word \in Nat /\ word < Rw!Word /\ (Rw!Negative(word) <=> WriterIn)
    BY DEF RwInv, Rw!Negative
  <1>1. ASSUME NEW c \in CPU, Rw!rw_spinlock_lock_sh(c) PROVE RwInv'
    <2> USE DEF Rw!rw_spinlock_lock_sh
    <2>1. c \notin Readers /\ Readers' = Readers \cup {c} /\ WriterIn' = WriterIn
      BY <1>1 DEF RwInv, Readers, WriterIn
    <2>2. Cardinality(Readers') = Cardinality(Readers) + 1
      BY <2>1
    <2>3. Cardinality(Readers') <= Cardinality(CPU)
      BY <2>1, FS_Subset DEF Readers
    <2>4. word + 1 < Rw!Word
      BY <2>2, <2>3 DEF RwInv
    <2>5. word' = word + 1
      BY <1>0, <1>1, <2>4
    <2>6. Rw!Negative(word') <=> WriterIn
      BY <2>2, <2>3, <2>5 DEF Rw!Negative, RwInv
    <2>7. Rw!WriterAlone'
      BY <1>1, <2>6 DEF RwInv, Rw!WriterAlone, WriterIn
    <2> QED
      BY <1>1, <2>1, <2>2, <2>5, <2>7 DEF RwInv
  <1>2. ASSUME NEW c \in CPU, Rw!EnterShared(c) PROVE RwInv'
    <2> USE DEF Rw!EnterShared
    <2>1. Readers' = Readers /\ WriterIn' = WriterIn /\ ~WriterIn
      BY <1>0, <1>2 DEF RwInv, Readers, WriterIn, Rw!WriterGone
    <2> QED
      BY <1>2, <2>1 DEF RwInv, Rw!WriterAlone, WriterIn
  <1>3. ASSUME NEW c \in CPU, Rw!rw_spinlock_unlock_sh(c) PROVE RwInv'
    <2> USE DEF Rw!rw_spinlock_unlock_sh
    <2>1. c \in Readers /\ Readers' = Readers \ {c} /\ WriterIn' = WriterIn
      BY <1>3 DEF RwInv, Readers, WriterIn
    <2>2. Cardinality(Readers') = Cardinality(Readers) - 1 /\ Cardinality(Readers) > 0
      BY <2>1
    <2>3. word - 1 \in 0 .. Rw!Word - 1 /\ Rw!Word \in Nat \ {0}
      BY <1>0, <2>2 DEF RwInv
    <2>4. word' = word - 1
      BY <1>3, <2>3, SmallRemainder
    <2> QED
      BY <1>3, <2>1, <2>2, <2>4 DEF RwInv, Rw!WriterAlone
  <1>4. ASSUME NEW c \in CPU, Rw!EnterExclusive(c) PROVE RwInv'
    <2> USE DEF Rw!EnterExclusive
    <2>1. Readers = {} /\ ~WriterIn
      BY <1>4 DEF RwInv
    <2>2. Readers' = {} /\ WriterIn'
      BY <1>4, <2>1 DEF RwInv, Readers, WriterIn
    <2>3. Rw!WriterAlone'
      BY <1>4, <2>1, <2>2 DEF RwInv, Rw!WriterAlone, WriterIn, Readers
    <2> QED
      BY <1>4, <2>2, <2>3, FS_EmptySet DEF RwInv
  <1>5. ASSUME NEW c \in CPU, Rw!WaitExclusive(c) PROVE RwInv'
    <2>1. Readers' = Readers /\ WriterIn' = WriterIn
      BY <1>5 DEF Rw!WaitExclusive, RwInv, Readers, WriterIn
    <2> QED
      BY <1>5, <2>1 DEF Rw!WaitExclusive, RwInv, Rw!WriterAlone
  <1>6. ASSUME NEW c \in CPU, Rw!rw_spinlock_unlock_ex(c) PROVE RwInv'
    <2> USE DEF Rw!rw_spinlock_unlock_ex
    <2>1. Readers' = Readers /\ WriterIn /\ ~WriterIn'
      BY <1>6 DEF RwInv, Readers, WriterIn, Rw!WriterAlone
    <2>2. word = Cardinality(Readers) + Rw!Sign
      BY <2>1 DEF RwInv
    <2>3. word % Rw!Sign = Cardinality(Readers)
      BY <2>2, OneTurnRemainder
    <2> QED
      BY <1>6, <2>1, <2>3 DEF RwInv, Rw!WriterAlone, Rw!WithoutWriter
  <1>7. CASE UNCHANGED rwvars
    BY <1>7 DEF rwvars, RwInv, Rw!WriterAlone, Readers, WriterIn
  <1> QED BY <1>1, <1>2, <1>3, <1>4, <1>5, <1>6, <1>7 DEF Rw!Next

-----------------------------------------------------------------------------
(***************************************************************************)
(* The ticket lock.  The tickets between now_serving and next_ticket, as   *)
(* the wrap-around counts, are in the hands of one processor each, and who *)
(* is in has the one that is served.  There are fewer processors than      *)
(* tickets, so next_ticket never catches up with now_serving from behind.  *)
(***************************************************************************)
Issued == (next_ticket - now_serving) % 2^W

Holders == {c \in CPU : pc[c] \in {"wait", "in"}}

TicketInv ==
    /\ TypeOK
    /\ \A c \in Holders : Distance(c) < Issued
    /\ \A c, d \in Holders : Distance(c) = Distance(d) => c = d
    /\ \A i \in 0 .. Issued - 1 : \E c \in Holders : Distance(c) = i
    /\ \A c \in CPU : pc[c] = "in" => Distance(c) = 0

LEMMA TicketsExist == 2^W \in Nat \ {0}
  <1>1. Cardinality(CPU) \in Nat
    BY FS_CardinalityType
  <1> QED BY <1>1

(* Distances and increments without the modulus. *)
LEMMA Between ==
  ASSUME NEW x \in Ticket, NEW y \in Ticket
  PROVE  (x - y) % 2^W = IF x >= y THEN x - y ELSE x - y + 2^W
  <1> DEFINE M == 2^W
  <1>1. M \in Nat \ {0}
    BY TicketsExist
  <1> SUFFICES (x - y) % M = IF x >= y THEN x - y ELSE x - y + M
    OBVIOUS
  <1>2. x \in 0 .. M - 1 /\ y \in 0 .. M - 1
    BY DEF Ticket
  <1> HIDE DEF M
  <1>3. CASE x >= y
    BY <1>1, <1>2, <1>3
  <1>4. CASE x < y
    BY <1>1, <1>2, <1>4
  <1> QED BY <1>2, <1>3, <1>4

LEMMA IncIs ==
  ASSUME NEW x \in Ticket
  PROVE  Inc(x) \in Ticket /\ Inc(x) = IF x = 2^W - 1 THEN 0 ELSE x + 1
  BY TicketsExist DEF Inc, Ticket

LEMMA IncFirst ==
  ASSUME NEW x \in Ticket, NEW y \in Ticket, (x - y) % 2^W < 2^W - 1
  PROVE  (Inc(x) - y) % 2^W = ((x - y) % 2^W) + 1
  <1> DEFINE M == 2^W
  <1>1. M \in Nat \ {0} /\ x \in 0 .. M - 1 /\ y \in 0 .. M - 1
    BY TicketsExist DEF Ticket
  <1>2. Inc(x) \in Ticket /\ Inc(x) = IF x = M - 1 THEN 0 ELSE x + 1
    BY IncIs
  <1>3. (x - y) % M = IF x >= y THEN x - y ELSE x - y + M
    BY Between
  <1>4. (Inc(x) - y) % M = IF Inc(x) >= y THEN Inc(x) - y ELSE Inc(x) - y + M
    BY <1>2, Between
  <1>5. (x - y) % M < M - 1
    OBVIOUS
  <1> HIDE DEF M
  <1>6. (Inc(x) - y) % M = ((x - y) % M) + 1
    BY <1>1, <1>2, <1>3, <1>4, <1>5
  <1> QED BY <1>6 DEF M

LEMMA IncSecond ==
  ASSUME NEW x \in Ticket, NEW y \in Ticket, (x - y) % 2^W # 0
  PROVE  (x - Inc(y)) % 2^W = ((x - y) % 2^W) - 1
  <1> DEFINE M == 2^W
  <1>1. M \in Nat \ {0} /\ x \in 0 .. M - 1 /\ y \in 0 .. M - 1
    BY TicketsExist DEF Ticket
  <1>2. Inc(y) \in Ticket /\ Inc(y) = IF y = M - 1 THEN 0 ELSE y + 1
    BY IncIs
  <1>3. (x - y) % M = IF x >= y THEN x - y ELSE x - y + M
    BY Between
  <1>4. (x - Inc(y)) % M = IF x >= Inc(y) THEN x - Inc(y) ELSE x - Inc(y) + M
    BY <1>2, Between
  <1>5. (x - y) % M # 0
    OBVIOUS
  <1> HIDE DEF M
  <1>6. (x - Inc(y)) % M = ((x - y) % M) - 1
    BY <1>1, <1>2, <1>3, <1>4, <1>5
  <1> QED BY <1>6 DEF M

LEMMA TicketInit == Init => TicketInv
  <1> SUFFICES ASSUME Init PROVE TicketInv
    OBVIOUS
  <1>1. TypeOK /\ Holders = {}
    BY TicketsExist DEF Init, TypeOK, Ticket, Holders
  <1>2. Issued = 0
    BY TicketsExist, Between, <1>1 DEF Init, TypeOK, Issued
  <1> QED BY <1>1, <1>2 DEF Init, TicketInv

(* As many tickets are issued as processors hold one. *)
LEMMA IssuedIsCount ==
  ASSUME TicketInv
  PROVE  Issued \in 0 .. 2^W - 1 /\ Issued = Cardinality(Holders)
  <1>1. Issued \in 0 .. 2^W - 1 /\ \A c \in CPU : Distance(c) \in 0 .. 2^W - 1
    BY TicketsExist, Between DEF TicketInv, TypeOK, Issued, Distance, Ticket
  <1> DEFINE f == [c \in Holders |-> Distance(c)]
  <1>2. Holders \in SUBSET CPU
    BY DEF Holders
  <1>3. f \in Bijection(Holders, 0 .. Issued - 1)
    <2>1. f \in [Holders -> 0 .. Issued - 1]
      BY <1>1, <1>2 DEF TicketInv
    <2>2. \A c, d \in Holders : f[c] = f[d] => c = d
      BY DEF TicketInv
    <2>3. \A i \in 0 .. Issued - 1 : \E c \in Holders : f[c] = i
      BY DEF TicketInv
    <2> HIDE DEF f
    <2> QED BY <2>1, <2>2, <2>3, Fun_IsBij
  <1>4. Cardinality(0 .. Issued - 1) = Cardinality(Holders)
    BY <1>2, <1>3, FS_Subset, FS_Bijection DEF ExistsBijection
  <1> QED BY <1>1, <1>4, FS_Interval

(* A processor without a ticket finds one: next_ticket is not about to     *)
(* catch up with now_serving.                                              *)
LEMMA RoomForOne ==
  ASSUME TicketInv, NEW c \in CPU, c \notin Holders
  PROVE  Issued < 2^W - 1
  <1>1. Holders \in SUBSET (CPU \ {c})
    BY DEF Holders
  <1>2. IsFiniteSet(CPU \ {c}) /\ Cardinality(CPU \ {c}) = Cardinality(CPU) - 1
    BY FS_RemoveElement
  <1>3. Cardinality(Holders) <= Cardinality(CPU) - 1
    BY <1>1, <1>2, FS_Subset
  <1>4. Cardinality(CPU) \in Nat
    BY FS_CardinalityType
  <1> QED BY <1>3, <1>4, IssuedIsCount, TicketsExist

(* How the three steps that matter move tickets. *)
LEMMA TakeMoves ==
  ASSUME TicketInv, NEW c \in CPU, TakeTicket(c)
  PROVE  /\ TypeOK'
         /\ Issued' = Issued + 1
         /\ Holders' = Holders \cup {c} /\ c \notin Holders
         /\ Distance(c)' = Issued
         /\ \A d \in CPU : Distance(d)' = Distance(d)
  <1> USE DEF TakeTicket
  <1>1. c \notin Holders /\ Holders' = Holders \cup {c}
    BY DEF TicketInv, TypeOK, Holders
  <1>2. TypeOK'
    BY IncIs DEF TicketInv, TypeOK
  <1>3. \A d \in CPU : Distance(d)' = Distance(d)
    BY DEF Distance
  <1>4. Distance(c)' = Issued
    BY DEF Distance, Issued, Compare
  <1>5. Issued' = Issued + 1
    BY <1>1, RoomForOne, IncFirst DEF TicketInv, TypeOK, Issued, Compare
  <1> QED BY <1>1, <1>2, <1>3, <1>4, <1>5

LEMMA UnlockMoves ==
  ASSUME TicketInv, NEW c \in CPU, ticketlock_unlock(c)
  PROVE  /\ TypeOK'
         /\ Issued' = Issued - 1 /\ Issued \in Nat \ {0}
         /\ Holders' = Holders \ {c} /\ c \in Holders
         /\ \A d \in Holders' : Distance(d)' = Distance(d) - 1 /\ Distance(d) \in Nat \ {0}
  <1> USE DEF ticketlock_unlock, Serve
  <1>1. c \in Holders /\ Holders' = Holders \ {c} /\ Distance(c) = 0
    BY DEF TicketInv, TypeOK, Holders
  <1>2. TypeOK'
    BY IncIs DEF TicketInv, TypeOK
  <1>3. Issued \in Nat \ {0}
    BY <1>1, IssuedIsCount DEF TicketInv
  <1>4. Issued' = Issued - 1
    BY <1>3, IncSecond DEF TicketInv, TypeOK, Issued
  <1>5. ASSUME NEW d \in Holders'
        PROVE  Distance(d)' = Distance(d) - 1 /\ Distance(d) \in Nat \ {0}
    <2>1. d \in CPU /\ d \in Holders /\ d # c
      BY <1>1, <1>5 DEF Holders
    <2>2. Distance(d) \in Nat \ {0}
      BY <1>1, <2>1, Between, TicketsExist DEF TicketInv, TypeOK, Distance, Ticket
    <2> QED
      BY <2>1, <2>2, IncSecond DEF TicketInv, TypeOK, Distance
  <1> QED BY <1>1, <1>2, <1>3, <1>4, <1>5

LEMMA TicketStep == TicketInv /\ [Next]_vars => TicketInv'
  <1> SUFFICES ASSUME TicketInv, [Next]_vars PROVE TicketInv'
    OBVIOUS
  <1>1. ASSUME NEW c \in CPU, ReadTicket(c) \/ RetryTicket(c) PROVE TicketInv'
    <2>1. TypeOK' /\ Holders' = Holders /\ c \notin Holders /\ Issued' = Issued
      BY <1>1 DEF ReadTicket, RetryTicket, TicketInv, TypeOK, Holders, Issued
    <2>2. \A d \in CPU : d # c => Distance(d)' = Distance(d) /\ pc'[d] = pc[d]
      BY <1>1 DEF ReadTicket, RetryTicket, TicketInv, TypeOK, Distance
    <2>3. pc'[c] # "in" /\ \A d \in Holders : d \in CPU /\ d # c
      BY <1>1, <2>1 DEF ReadTicket, RetryTicket, TicketInv, TypeOK, Holders
    <2> QED BY <2>1, <2>2, <2>3 DEF TicketInv
  <1>2. ASSUME NEW c \in CPU, TakeTicket(c) PROVE TicketInv'
    <2>1. Issued \in Nat /\ \A d \in Holders : d \in CPU /\ Distance(d) \in Nat
      BY IssuedIsCount, Between, TicketsExist
      DEF TicketInv, TypeOK, Distance, Holders, Ticket
    <2>2. \A d \in CPU : pc'[d] = "in" => pc[d] = "in"
      BY <1>2 DEF TakeTicket, TicketInv, TypeOK
    <2> QED BY <1>2, <2>1, <2>2, TakeMoves DEF TicketInv
  <1>3. ASSUME NEW c \in CPU, Enter(c) PROVE TicketInv'
    <2>1. TypeOK' /\ Holders' = Holders /\ Issued' = Issued
      BY <1>3 DEF Enter, TicketInv, TypeOK, Holders, Issued
    <2>2. \A d \in CPU : Distance(d)' = Distance(d)
      BY <1>3 DEF Enter, Distance
    <2>3. Distance(c) = 0
      BY <1>3, Between DEF Enter, Served, TicketInv, TypeOK, Distance, Ticket
    <2>4. \A d \in CPU : d # c => pc'[d] = pc[d]
      BY <1>3 DEF Enter, TicketInv, TypeOK
    <2>5. Holders \subseteq CPU
      BY DEF Holders
    <2> QED BY <2>1, <2>2, <2>3, <2>4, <2>5 DEF TicketInv
  <1>4. ASSUME NEW c \in CPU, ticketlock_unlock(c) PROVE TicketInv'
    <2>1. \A d \in CPU : pc'[d] = "in" => d \in Holders'
      BY DEF Holders
    <2>2. \A d \in CPU : pc'[d] # "in"
      <3> SUFFICES ASSUME NEW d \in CPU, pc'[d] = "in" PROVE FALSE
        OBVIOUS
      <3>1. d # c /\ pc[d] = "in"
        BY <1>4 DEF ticketlock_unlock, TicketInv, TypeOK
      <3> QED BY <1>4, <2>1, <3>1, UnlockMoves DEF TicketInv
    <2>3. Distance(c) = 0
      BY <1>4 DEF ticketlock_unlock, TicketInv
    <2>4. \A i \in 0 .. Issued' - 1 : \E d \in Holders' : Distance(d)' = i
      <3> SUFFICES ASSUME NEW i \in 0 .. Issued' - 1
                   PROVE  \E d \in Holders' : Distance(d)' = i
        OBVIOUS
      <3>1. i + 1 \in 0 .. Issued - 1
        BY <1>4, UnlockMoves
      <3>2. PICK d \in Holders : Distance(d) = i + 1
        BY <3>1 DEF TicketInv
      <3> QED BY <1>4, <2>3, <3>2, UnlockMoves
    <2> QED BY <1>4, <2>2, <2>4, UnlockMoves DEF TicketInv
  <1>5. CASE UNCHANGED vars
    BY <1>5 DEF vars, TicketInv, TypeOK, Holders, Issued, Distance
  <1> QED BY <1>1, <1>2, <1>3, <1>4, <1>5 DEF Next

LEMMA TicketSafe == TicketInv => MutualExclusion
  BY DEF TicketInv, MutualExclusion, Holders

-----------------------------------------------------------------------------
(***************************************************************************)
(* The ticket lock implements FifoLock.  The waiting processors hold the   *)
(* tickets First .. Issued - 1 ahead of now_serving, so the queue of the   *)
(* refinement mapping lists them in the order of their tickets.            *)
(***************************************************************************)
First == IF \E c \in CPU : pc[c] = "in" THEN 1 ELSE 0

IsQueue(q) ==
    /\ q \in [1 .. Issued - First -> Waiters]
    /\ \A i \in 1 .. Issued - First : Distance(q[i]) = i - 1 + First

LEMMA WaitersAre ==
  ASSUME TicketInv
  PROVE  /\ Waiters \subseteq Holders
         /\ Issued \in Nat /\ First \in {0, 1} /\ First <= Issued
         /\ \A c \in Waiters : Distance(c) \in First .. Issued - 1
         /\ \A c, d \in Waiters : Distance(c) = Distance(d) => c = d
         /\ \A i \in First .. Issued - 1 : \E c \in Waiters : Distance(c) = i
  <1>1. Waiters \subseteq Holders /\ \A c \in Holders : c \in Waiters \/ pc[c] = "in"
    BY DEF Waiters, Holders
  <1>2. Issued \in Nat /\ First \in {0, 1}
    BY IssuedIsCount DEF First
  <1>3. \A c \in Holders : c \in CPU /\ Distance(c) \in 0 .. Issued - 1
    BY <1>2, Between, TicketsExist DEF TicketInv, TypeOK, Distance, Holders, Ticket
  <1>4. \A c \in CPU : pc[c] = "in" => c \in Holders /\ c \notin Waiters /\ Distance(c) = 0
    BY DEF TicketInv, Holders, Waiters
  <1>5. \A c \in Waiters : Distance(c) \in First .. Issued - 1
    <2>1. CASE \E c \in CPU : pc[c] = "in"
      BY <1>1, <1>3, <1>4, <2>1 DEF TicketInv, First
    <2>2. CASE ~\E c \in CPU : pc[c] = "in"
      BY <1>1, <1>3, <2>2 DEF First
    <2> QED BY <2>1, <2>2
  <1>6. First <= Issued
    <2>1. CASE \E c \in CPU : pc[c] = "in"
      BY <1>2, <1>3, <1>4, <2>1 DEF First
    <2>2. CASE ~\E c \in CPU : pc[c] = "in"
      BY <1>2, <2>2 DEF First
    <2> QED BY <2>1, <2>2
  <1>7. ASSUME NEW i \in First .. Issued - 1 PROVE \E c \in Waiters : Distance(c) = i
    <2>1. i \in 0 .. Issued - 1
      BY <1>2
    <2>2. PICK c \in Holders : Distance(c) = i
      BY <2>1 DEF TicketInv
    <2>3. pc[c] # "in"
      BY <1>2, <1>3, <1>4, <2>2 DEF First
    <2> QED BY <1>1, <2>2, <2>3
  <1> QED BY <1>1, <1>2, <1>5, <1>6, <1>7 DEF TicketInv

(* The rank of a waiting processor is the distance of its ticket. *)
LEMMA CountBelow ==
  ASSUME TicketInv, NEW k \in First .. Issued
  PROVE  Cardinality({d \in Waiters : Distance(d) < k}) = k - First
  <1> DEFINE S == {d \in Waiters : Distance(d) < k}
             f == [d \in S |-> Distance(d)]
  <1> USE WaitersAre
  <1>1. f \in [S -> First .. k - 1]
    OBVIOUS
  <1>2. \A c, d \in S : f[c] = f[d] => c = d
    OBVIOUS
  <1>3. \A i \in First .. k - 1 : \E d \in S : f[d] = i
    <2> SUFFICES ASSUME NEW i \in First .. k - 1 PROVE \E d \in S : f[d] = i
      OBVIOUS
    <2>1. PICK d \in Waiters : Distance(d) = i
      OBVIOUS
    <2> QED BY <2>1
  <1>4. IsFiniteSet(S)
    BY FS_Subset DEF Waiters
  <1>5. f \in Bijection(S, First .. k - 1)
    <2> HIDE DEF f, S
    <2> QED BY <1>1, <1>2, <1>3, Fun_IsBij
  <1>6. Cardinality(First .. k - 1) = Cardinality(S)
    BY <1>4, <1>5, FS_Bijection DEF ExistsBijection
  <1>7. First \in Int /\ k \in Int /\ k - 1 \in Int
    OBVIOUS
  <1>8. Cardinality(First .. k - 1) = IF First > k - 1 THEN 0 ELSE (k - 1) - First + 1
    BY <1>7, FS_Interval
  <1> QED BY <1>6, <1>7, <1>8

LEMMA QueueIs == TicketInv => IsQueue(Queue)
  <1> SUFFICES ASSUME TicketInv PROVE IsQueue(Queue)
    OBVIOUS
  <1> USE WaitersAre
  <1>1. Cardinality(Waiters) = Issued - First
    <2>1. {d \in Waiters : Distance(d) < Issued} = Waiters
      OBVIOUS
    <2> QED BY <2>1, CountBelow
  <1>2. \A c \in Waiters : Rank(c) = Distance(c) - First + 1
    <2> SUFFICES ASSUME NEW c \in Waiters PROVE Rank(c) = Distance(c) - First + 1
      OBVIOUS
    <2>1. Distance(c) \in First .. Issued
      OBVIOUS
    <2> QED BY <2>1, CountBelow DEF Rank
  <1>3. ASSUME NEW i \in 1 .. Issued - First
        PROVE  \E c \in Waiters : Rank(c) = i
    <2>1. i - 1 + First \in First .. Issued - 1
      OBVIOUS
    <2>2. PICK c \in Waiters : Distance(c) = i - 1 + First
      BY <2>1
    <2> QED BY <1>2, <2>2
  <1>4. ASSUME NEW i \in 1 .. Issued - First
        PROVE  Queue[i] \in Waiters /\ Rank(Queue[i]) = i
    BY <1>1, <1>3, <1>4 DEF Queue
  <1>5. Queue = [i \in 1 .. Issued - First |-> Queue[i]]
    BY <1>1 DEF Queue
  <1>6. ASSUME NEW i \in 1 .. Issued - First
        PROVE  Distance(Queue[i]) = i - 1 + First
    <2>1. Queue[i] \in Waiters /\ Rank(Queue[i]) = i
      BY <1>4
    <2>2. Distance(Queue[i]) \in Int
      BY <2>1
    <2> QED BY <1>2, <2>1, <2>2
  <1> QED BY <1>4, <1>5, <1>6 DEF IsQueue

LEMMA QueueUnique == TicketInv => \A p, q : IsQueue(p) /\ IsQueue(q) => p = q
  <1> SUFFICES ASSUME TicketInv, NEW p, NEW q, IsQueue(p), IsQueue(q) PROVE p = q
    OBVIOUS
  <1> DEFINE D == 1 .. Issued - First
  <1>1. p \in [D -> Waiters] /\ q \in [D -> Waiters]
    BY DEF IsQueue
  <1>2. \A i \in D : Distance(p[i]) = Distance(q[i])
    BY DEF IsQueue
  <1> HIDE DEF D
  <1>3. \A i \in D : p[i] = q[i]
    BY <1>1, <1>2, WaitersAre
  <1> QED BY <1>1, <1>3

LEMMA NextQueueIs == TicketInv' => IsQueue(Queue)'
  BY QueueIs, PTL

LEMMA NextQueueUnique == TicketInv' => (\A p, q : IsQueue(p) /\ IsQueue(q) => p = q)'
  BY QueueUnique, PTL

(* How to recognise the queue after a step. *)
LEMMA NextQueue ==
  ASSUME TicketInv', NEW q, q \in [1 .. Issued' - First' -> Waiters'],
         \A i \in 1 .. Issued' - First' : \A d \in Waiters' :
             d = q[i] => Distance(d)' = i - 1 + First'
  PROVE  Queue' = q
  <1>1. IsQueue(Queue)'
    BY NextQueueIs
  <1>2. IsQueue(q)'
    <2>1. \A i \in 1 .. Issued' - First' : q[i] \in Waiters'
      OBVIOUS
    <2>2. \A i \in 1 .. Issued' - First' : Distance(q[i])' = i - 1 + First'
      BY <2>1
    <2> QED BY <2>2 DEF IsQueue
  <1>3. (\A p, r : IsQueue(p) /\ IsQueue(r) => p = r)'
    BY NextQueueUnique
  <1> QED BY <1>1, <1>2, <1>3

LEMMA HolderIs ==
  ASSUME TicketInv
  PROVE  /\ \A c \in CPU : pc[c] = "in" => Holder = c
         /\ (\A c \in CPU : pc[c] # "in") => Holder = NULL
  BY TicketSafe DEF Holder, MutualExclusion

LEMMA FifoInit == Init => Fifo!Init
  <1> SUFFICES ASSUME Init PROVE Fifo!Init
    OBVIOUS
  <1>1. Waiters = {} /\ Cardinality(Waiters) = 0
    BY FS_EmptySet DEF Init, Waiters
  <1>2. Queue = <<>>
    BY <1>1 DEF Queue
  <1>3. Holder = NULL
    BY DEF Init, Holder
  <1> QED BY <1>2, <1>3 DEF Fifo!Init

LEMMA FifoStep == TicketInv /\ TicketInv' /\ [Next]_vars => [Fifo!Next]_(Fifo!vars)
  <1> SUFFICES ASSUME TicketInv, TicketInv', [Next]_vars
               PROVE  Fifo!Next \/ UNCHANGED Fifo!vars
    OBVIOUS
  <1>1. IsQueue(Queue)
    BY QueueIs
  <1>2. Issued \in Nat /\ First \in {0, 1} /\ First <= Issued
    BY WaitersAre
  <1>3. Queue \in Seq(Waiters) /\ Len(Queue) = Issued - First
    BY <1>1, <1>2, SequenceOf DEF IsQueue
  <1>4. /\ \A c \in CPU : pc'[c] = "in" => Holder' = c
        /\ (\A c \in CPU : pc'[c] # "in") => Holder' = NULL
    <2>1. MutualExclusion'
      BY TicketSafe, PTL
    <2> QED BY <2>1 DEF Holder, MutualExclusion
  <1>5. ASSUME NEW c \in CPU, ReadTicket(c) \/ RetryTicket(c)
        PROVE  UNCHANGED Fifo!vars
    <2>1. Waiters' = Waiters /\ c \notin Waiters /\ Issued' = Issued /\ First' = First
      BY <1>5 DEF ReadTicket, RetryTicket, TicketInv, TypeOK, Waiters, Issued, First
    <2>2. \A d \in Waiters : Distance(d)' = Distance(d)
      BY <1>5, <2>1 DEF ReadTicket, RetryTicket, TicketInv, TypeOK, Distance, Waiters
    <2>3. Queue' = Queue
      BY <1>1, <2>1, <2>2, NextQueue DEF IsQueue
    <2>4. Holder' = Holder
      BY <1>5, <1>4, HolderIs DEF ReadTicket, RetryTicket, TicketInv, TypeOK
    <2> QED BY <2>3, <2>4 DEF Fifo!vars
  <1>6. ASSUME NEW c \in CPU, TakeTicket(c) PROVE Fifo!Enqueue(c)
    <2>1. Issued' = Issued + 1 /\ \A d \in CPU : Distance(d)' = Distance(d)
      BY <1>6, TakeMoves
    <2>2. Waiters' = Waiters \cup {c} /\ First' = First /\ Distance(c)' = Issued
      <3>1. Waiters' = Waiters \cup {c}
        BY <1>6 DEF TakeTicket, TicketInv, TypeOK, Waiters
      <3>2. First' = First
        BY <1>6 DEF TakeTicket, TicketInv, TypeOK, First
      <3> QED BY <1>6, <3>1, <3>2, TakeMoves
    <2>3. Append(Queue, c) \in Seq(Waiters') /\ Len(Append(Queue, c)) = Issued' - First'
      BY <1>2, <1>3, <2>1, <2>2
    <2>4. Append(Queue, c) \in [1 .. Issued' - First' -> Waiters']
      BY <2>3, FunctionOf
    <2>5. ASSUME NEW i \in 1 .. Issued' - First', NEW d \in Waiters', d = Append(Queue, c)[i]
          PROVE  Distance(d)' = i - 1 + First'
      <3>1. CASE i = Len(Queue) + 1
        BY <1>2, <1>3, <2>1, <2>2, <2>5, <3>1
      <3>2. CASE i \in 1 .. Len(Queue)
        <4>1. d = Queue[i] /\ d \in Waiters /\ d \in CPU
          BY <1>1, <1>3, <2>5, <3>2 DEF IsQueue, Waiters
        <4> QED BY <1>1, <1>3, <2>1, <2>2, <3>2, <4>1 DEF IsQueue
      <3> QED BY <1>2, <1>3, <2>1, <2>2, <3>1, <3>2
    <2>6. Queue' = Append(Queue, c)
      BY <2>4, <2>5, NextQueue
    <2>7. Holder' = Holder
      BY <1>4, <1>6, HolderIs DEF TakeTicket, TicketInv, TypeOK
    <2> QED BY <2>6, <2>7 DEF Fifo!Enqueue
  <1>7. ASSUME NEW c \in CPU, Enter(c) PROVE Fifo!Acquire
    <2>1. Distance(c) = 0 /\ c \in Waiters /\ pc'[c] = "in"
      BY <1>7, Between DEF Enter, Served, TicketInv, TypeOK, Distance, Ticket, Waiters
    <2>2. \A d \in CPU : pc[d] # "in"
      BY <2>1 DEF TicketInv, Holders, Waiters
    <2>3. First = 0 /\ First' = 1
      BY <2>1, <2>2 DEF First
    <2>4. Issued' = Issued /\ Waiters' = Waiters \ {c}
      BY <1>7 DEF Enter, Issued, Waiters, TicketInv, TypeOK
    <2>5. \A d \in CPU : Distance(d)' = Distance(d)
      BY <1>7 DEF Enter, Distance
    <2>6. Issued > 0 /\ Len(Queue) = Issued
      BY <1>2, <1>3, <2>1, <2>3 DEF TicketInv, Holders, Waiters
    <2>7. Queue # <<>> /\ Head(Queue) = Queue[1]
      BY <1>2, <1>3, <2>6
    <2>8. Queue[1] = c
      BY <1>1, <1>2, <2>1, <2>3, <2>6, WaitersAre DEF IsQueue
    <2>9. Tail(Queue) \in [1 .. Issued' - First' -> Waiters']
      <3>1. Len(Tail(Queue)) = Issued - 1 /\ Tail(Queue) \in Seq(Waiters)
        BY <1>2, <1>3, <2>6, <2>7
      <3>2. \A i \in 1 .. Issued - 1 : Tail(Queue)[i] = Queue[i + 1]
        BY <1>2, <1>3, <2>6, <2>7
      <3>3. \A i \in 1 .. Issued - 1 : Tail(Queue)[i] \in Waiters /\ Tail(Queue)[i] # c
        BY <1>1, <1>2, <2>1, <2>3, <3>2 DEF IsQueue
      <3>4. Tail(Queue) \in [1 .. Issued - 1 -> Waiters]
        BY <3>1, FunctionOf
      <3> QED BY <2>3, <2>4, <3>3, <3>4
    <2>10. ASSUME NEW i \in 1 .. Issued' - First', NEW d \in Waiters', d = Tail(Queue)[i]
           PROVE  Distance(d)' = i - 1 + First'
      <3>1. i + 1 \in 1 .. Issued /\ d = Queue[i + 1] /\ d \in CPU
        BY <1>2, <1>3, <2>3, <2>4, <2>6, <2>7, <2>10 DEF Waiters
      <3> QED BY <1>1, <1>2, <2>3, <2>4, <2>5, <3>1 DEF IsQueue
    <2>11. Queue' = Tail(Queue)
      BY <2>9, <2>10, NextQueue
    <2>12. Holder = NULL /\ Holder' = c
      BY <1>4, <2>1, <2>2, HolderIs
    <2> QED BY <2>7, <2>8, <2>11, <2>12 DEF Fifo!Acquire
  <1>8. ASSUME NEW c \in CPU, ticketlock_unlock(c) PROVE Fifo!Release
    <2>1. pc[c] = "in" /\ Waiters' = Waiters
      BY <1>8 DEF ticketlock_unlock, Waiters, TicketInv, TypeOK
    <2>2. \A d \in CPU : pc'[d] # "in"
      BY <1>8, <2>1, TicketSafe DEF ticketlock_unlock, TicketInv, TypeOK, MutualExclusion
    <2>3. First = 1 /\ First' = 0
      BY <2>1, <2>2 DEF First
    <2>4. Issued' - First' = Issued - First
      BY <1>2, <1>8, <2>3, UnlockMoves
    <2>5. \A d \in Waiters : Distance(d)' = Distance(d) - 1 /\ Distance(d) \in Nat
      BY <1>8, <2>1, UnlockMoves DEF Waiters, Holders
    <2>6. Queue' = Queue
      <3>1. Queue \in [1 .. Issued' - First' -> Waiters']
        BY <1>1, <2>1, <2>4 DEF IsQueue
      <3>2. ASSUME NEW i \in 1 .. Issued' - First', NEW d \in Waiters', d = Queue[i]
            PROVE  Distance(d)' = i - 1 + First'
        BY <1>1, <2>1, <2>3, <2>4, <2>5, <3>2 DEF IsQueue
      <3> QED BY <3>1, <3>2, NextQueue
    <2>7. Holder = c /\ Holder' = NULL
      BY <1>4, <2>1, <2>2, HolderIs
    <2> QED BY <2>6, <2>7 DEF Fifo!Release
  <1>9. CASE UNCHANGED vars
    <2>1. Queue' = Queue
      BY <1>9 DEF vars, Queue, Waiters, Rank, Distance
    <2>2. Holder' = Holder
      BY <1>9 DEF vars, Holder
    <2> QED BY <2>1, <2>2 DEF Fifo!vars
  <1> QED
    BY <1>5, <1>6, <1>7, <1>8, <1>9 DEF Next, Fifo!Next

-----------------------------------------------------------------------------
(***************************************************************************)
(* The clock.  A processor's next result cannot be less than the last one: *)
(* either its own counter has passed that, or the last time has, which the *)
(* processor loads before.  (The second case is that of a counter that     *)
(* starts again.)  With the ACPI timer, less than one round lies between   *)
(* the time loaded and the timer, so its W bits determine the time.        *)
(***************************************************************************)
ClockType ==
    /\ source \in {"tsc", "acpi"}
    /\ last \in Nat /\ now \in Nat /\ sleeps \in Nat
    /\ clockpc \in [TwoCPU -> {"idle", "read", "store"}]
    /\ {tsc, timediff, time, result, oldnow, start} \subseteq [TwoCPU -> Nat]
    /\ \A c \in TwoCPU : clockpc[c] # "idle" => oldnow[c] <= last

TscInv ==
    \A c \in TwoCPU :
        /\ clockpc[c] = "idle" => result[c] <= tsc[c] + timediff[c] \/ result[c] <= last
        /\ clockpc[c] = "read" => result[c] <= tsc[c] + timediff[c] \/ result[c] <= oldnow[c]
        /\ clockpc[c] = "store" => /\ result[c] <= time[c] \/ result[c] <= oldnow[c]
                                   /\ time[c] <= tsc[c] + timediff[c]

AcpiCpu(c) ==
    /\ clockpc[c] = "idle" => start[c] <= result[c] /\ result[c] <= now
    /\ clockpc[c] # "idle" => /\ oldnow[c] <= start[c] /\ start[c] <= now
                              /\ now - oldnow[c] < 2^W
                              /\ result[c] <= start[c]
    /\ clockpc[c] = "store" => \E t \in start[c] .. now : time[c] = t % 2^W

AcpiInv ==
    /\ last <= now /\ now - last < 2^W
    /\ \A c \in TwoCPU : AcpiCpu(c)

ClockInv ==
    /\ ClockType
    /\ source = "tsc" => TscInv
    /\ source = "acpi" => AcpiInv

(* What NeverBack says of one step. *)
ForwardOnly ==
    last' >= last /\ \A c \in TwoCPU : result'[c] >= result[c] \/ sleeps' # sleeps

LEMMA ClockInit == Clk!Init => ClockInv
  BY TicketsExist DEF Clk!Init, ClockInv, ClockType, TscInv, AcpiInv, AcpiCpu

(* The timer's bits and a time less than a round before give the time. *)
LEMMA ExtendIs ==
  ASSUME NEW old \in Nat, NEW t \in Nat, old <= t, t - old < 2^W
  PROVE  Clk!Extend(old, t % 2^W) = t
  <1> DEFINE M == 2^W
             q == old \div M
             r == old % M
             p == t \div M
             u == t % M
  <1>1. M \in Nat \ {0} /\ t - old < M
    BY TicketsExist
  <1>2. Clk!Extend(old, u) = old + (IF u < r THEN u + M ELSE u) - r
    BY DEF Clk!Extend
  <1> HIDE DEF M
  <1>3. old = M * q + r /\ q \in Int /\ r \in 0 .. M - 1
    BY <1>1
  <1>4. t = M * p + u /\ p \in Int /\ u \in 0 .. M - 1
    BY <1>1
  <1> HIDE DEF q, r, p, u
  <1>5. t - old = M * (p - q) + (u - r)
    BY <1>1, <1>3, <1>4
  <1>6. CASE p = q
    <2>1. t - old = u - r
      BY <1>1, <1>3, <1>4, <1>5, <1>6
    <2> QED BY <1>2, <1>3, <1>4, <2>1 DEF M, u
  <1>7. CASE p = q + 1
    <2>1. t - old = M + u - r
      BY <1>1, <1>3, <1>4, <1>5, <1>7
    <2>2. u < r
      BY <1>1, <1>3, <1>4, <2>1
    <2> QED BY <1>1, <1>2, <1>3, <1>4, <2>1, <2>2 DEF M, u
  <1>8. CASE p < q
    <2>1. M * (p - q) <= -M
      BY <1>1, <1>3, <1>4, <1>8
    <2> QED BY <1>1, <1>3, <1>4, <1>5, <2>1
  <1>9. CASE p > q + 1
    <2>1. M * (p - q) >= M * 2
      BY <1>1, <1>3, <1>4, <1>9
    <2> QED BY <1>1, <1>3, <1>4, <1>5, <2>1
  <1> QED BY <1>3, <1>4, <1>6, <1>7, <1>8, <1>9

LEMMA ClockStep == ClockInv /\ [Clk!Next]_clockvars => ClockInv' /\ [ForwardOnly]_clockvars
  <1> SUFFICES ASSUME ClockInv, [Clk!Next]_clockvars
               PROVE  ClockInv' /\ [ForwardOnly]_clockvars
    OBVIOUS
  <1> USE TicketsExist
  <1>1. ASSUME Clk!TickAcpi PROVE ClockInv' /\ ForwardOnly
    <2>1. ClockType' /\ ForwardOnly
      BY <1>1 DEF Clk!TickAcpi, ClockInv, ClockType, ForwardOnly
    <2>2. AcpiInv'
      BY <1>1 DEF Clk!TickAcpi, ClockInv, ClockType, AcpiInv, AcpiCpu
    <2> QED BY <1>1, <2>1, <2>2 DEF Clk!TickAcpi, ClockInv
  <1>2. ASSUME Clk!time_wakeup PROVE ClockInv' /\ ForwardOnly
    <2>1. ClockType' /\ TscInv'
      BY <1>2 DEF Clk!time_wakeup, ClockInv, ClockType, TscInv
    <2>2. ForwardOnly
      <3>1. sleeps' = sleeps + 1 /\ last' = last /\ sleeps \in Nat
        BY <1>2 DEF Clk!time_wakeup, ClockInv, ClockType
      <3> QED BY <3>1 DEF ForwardOnly, ClockInv, ClockType
    <2> QED BY <1>2, <2>1, <2>2 DEF Clk!time_wakeup, ClockInv
  <1>3. ASSUME NEW c \in TwoCPU, Clk!TickTsc(c) PROVE ClockInv' /\ ForwardOnly
    <2>1. ClockType' /\ ForwardOnly
      BY <1>3 DEF Clk!TickTsc, ClockInv, ClockType, ForwardOnly
    <2>2. TscInv'
      BY <1>3 DEF Clk!TickTsc, ClockInv, ClockType, TscInv
    <2> QED BY <1>3, <2>1, <2>2 DEF Clk!TickTsc, ClockInv
  <1>4. ASSUME NEW c \in TwoCPU, Clk!Load(c) PROVE ClockInv' /\ ForwardOnly
    <2>1. ClockType' /\ ForwardOnly
      BY <1>4 DEF Clk!Load, ClockInv, ClockType, ForwardOnly
    <2>2. source = "tsc" => TscInv'
      BY <1>4 DEF Clk!Load, ClockInv, ClockType, TscInv
    <2>3. ASSUME source = "acpi" PROVE AcpiInv'
      <3>1. AcpiInv
        BY <2>3 DEF ClockInv
      <3>2. /\ clockpc'[c] = "read" /\ oldnow'[c] = last /\ start'[c] = now
            /\ result'[c] = result[c] /\ result[c] <= now
        BY <1>4, <3>1 DEF Clk!Load, ClockInv, ClockType, AcpiInv, AcpiCpu
      <3>3. last' = last /\ now' = now /\ now \in Nat
        BY <1>4 DEF Clk!Load, ClockInv, ClockType
      <3>4. ASSUME NEW d \in TwoCPU, d # c PROVE AcpiCpu(d)'
        BY <1>4, <3>1, <3>4 DEF Clk!Load, ClockInv, ClockType, AcpiInv, AcpiCpu
      <3>5. AcpiCpu(c)'
        BY <3>1, <3>2, <3>3 DEF AcpiInv, AcpiCpu
      <3> QED BY <3>1, <3>3, <3>4, <3>5 DEF AcpiInv
    <2> QED BY <1>4, <2>1, <2>2, <2>3 DEF Clk!Load, ClockInv
  <1>5. ASSUME NEW c \in TwoCPU, Clk!Read(c) PROVE ClockInv' /\ ForwardOnly
    <2>1. ClockType' /\ ForwardOnly
      BY <1>5 DEF Clk!Read, ClockInv, ClockType, ForwardOnly
    <2>2. source = "tsc" => TscInv'
      BY <1>5 DEF Clk!Read, ClockInv, ClockType, TscInv
    <2>3. source = "acpi" => AcpiInv'
      BY <1>5 DEF Clk!Read, ClockInv, ClockType, AcpiInv, AcpiCpu
    <2> QED BY <1>5, <2>1, <2>2, <2>3 DEF Clk!Read, ClockInv
  <1>6. ASSUME NEW c \in TwoCPU, Clk!get_cpu_time(c) PROVE ClockInv' /\ ForwardOnly
    <2> USE DEF Clk!get_cpu_time, Clk!Cmpxchg, Clk!Return, Clk!Behind
    <2>1. ClockType'
      BY <1>6 DEF ClockInv, ClockType
    <2>2. ForwardOnly
      BY <1>6 DEF ClockInv, ClockType, TscInv, ForwardOnly
    <2>3. TscInv'
      BY <1>6 DEF ClockInv, ClockType, TscInv
    <2> QED BY <1>6, <2>1, <2>2, <2>3 DEF ClockInv
  <1>7. ASSUME NEW c \in TwoCPU, Clk!get_acpi_time(c) PROVE ClockInv' /\ ForwardOnly
    <2>1. PICK t \in start[c] .. now : time[c] = t % 2^W
      BY <1>7 DEF Clk!get_acpi_time, ClockInv, AcpiInv, AcpiCpu
    <2>2. Clk!Extend(oldnow[c], time[c]) = t
      <3>1. /\ oldnow[c] \in Nat /\ start[c] \in Nat /\ now \in Nat
            /\ oldnow[c] <= start[c] /\ now - oldnow[c] < 2^W
        BY <1>7 DEF Clk!get_acpi_time, ClockInv, ClockType, AcpiInv, AcpiCpu
      <3>2. t \in Nat /\ oldnow[c] <= t /\ t - oldnow[c] < 2^W
        BY <3>1
      <3> QED BY <2>1, <3>1, <3>2, ExtendIs
    <2> USE DEF Clk!get_acpi_time, Clk!Cmpxchg, Clk!Return
    <2>3. ClockType' /\ ForwardOnly
      BY <1>7, <2>1, <2>2 DEF ClockInv, ClockType, AcpiInv, AcpiCpu, ForwardOnly
    <2>4. AcpiInv'
      BY <1>7, <2>1, <2>2 DEF ClockInv, ClockType, AcpiInv, AcpiCpu
    <2> QED BY <1>7, <2>3, <2>4 DEF ClockInv
  <1>8. CASE UNCHANGED clockvars
    BY <1>8 DEF clockvars, ClockInv, ClockType, TscInv, AcpiInv, AcpiCpu
  <1> QED BY <1>1, <1>2, <1>3, <1>4, <1>5, <1>6, <1>7, <1>8 DEF Clk!Next

LEMMA ClockSafe == ClockInv => Clk!TrueTime
  BY DEF ClockInv, AcpiInv, AcpiCpu, Clk!TrueTime

-----------------------------------------------------------------------------
(* All parts together: a step of MCSmp is one of each part, or leaves it   *)
(* alone.                                                                  *)
SmpInv == TicketInv /\ ByteInv /\ RwInv /\ SyncInv /\ PanicInv /\ ClockInv

LEMMA SmpParts ==
  ASSUME [SmpNext]_smpvars
  PROVE  /\ [Next]_vars /\ [Byte!Next]_bytevars /\ [Rw!Next]_rwvars
         /\ [Sync!Next]_syncvars /\ [Pan!Next]_panicvars /\ [Clk!Next]_clockvars
  <1>1. CASE SmpNext
    BY <1>1 DEF SmpNext
  <1>2. CASE UNCHANGED smpvars
    BY <1>2 DEF smpvars
  <1> QED BY <1>1, <1>2

LEMMA SmpInvInit == SmpInit => SmpInv
  BY TicketInit, ByteInit, RwInit, SyncInit, PanicInit, ClockInit DEF SmpInit, SmpInv

LEMMA SmpInvStep == SmpInv /\ [SmpNext]_smpvars => SmpInv'
  BY SmpParts, TicketStep, ByteStep, RwStep, SyncStep, PanicStep, ClockStep DEF SmpInv

THEOREM SmpInvariant == SmpSpec => []SmpInv
  <1>1. SmpSpec => SmpInit /\ [][SmpNext]_smpvars
    BY DEF SmpSpec
  <1> QED BY <1>1, SmpInvInit, SmpInvStep, PTL

(* The ticket lock behind thread_lock has one holder, for any number of    *)
(* processors that the tickets can count, across their wrap-around.        *)
THEOREM TicketLockExcludes == SmpSpec => []MutualExclusion
  <1>1. SmpInv => MutualExclusion
    BY TicketSafe DEF SmpInv
  <1> QED BY <1>1, SmpInvariant, PTL

(* The byte lock has one holder; a writer of the reader-writer lock is     *)
(* alone, whoever counts itself meanwhile.                                 *)
THEOREM OtherLocksExclude == SmpSpec => []LocksExclude
  <1>1. SmpInv => LocksExclude
    BY DEF SmpInv, ByteInv, RwInv, LocksExclude
  <1> QED BY <1>1, SmpInvariant, PTL

(* Nobody returns from sync_all_processors() before everybody has come, at *)
(* any meeting, with a sync_id of any width, one bit included.             *)
THEOREM BarrierHolds == SmpSpec => []NobodyLeavesEarly
  <1>1. SmpInv => NobodyLeavesEarly
    BY SyncSafe DEF SmpInv
  <1> QED BY <1>1, SmpInvariant, PTL

(* The message kept by panic() is the first one, whole, and one processor  *)
(* dumps at a time.                                                        *)
THEOREM PanicKeepsOneMessage == SmpSpec => []OneMessage
  <1>1. SmpInv => OneMessage
    BY DEF SmpInv, PanicInv, OneMessage
  <1> QED BY <1>1, SmpInvariant, PTL

(* The lock is granted in the order in which tickets were taken: the       *)
(* ticket lock implements FifoLock.                                        *)
THEOREM TicketLockIsFifo == SmpSpec => FirstComeFirstServed
  <1>1. SmpInit => Fifo!Init
    BY FifoInit DEF SmpInit
  <1>2. SmpInv /\ SmpInv' /\ [SmpNext]_smpvars => [Fifo!Next]_(Fifo!vars)
    BY SmpParts, FifoStep DEF SmpInv
  <1>3. SmpSpec => SmpInit /\ [][SmpNext]_smpvars
    BY DEF SmpSpec
  <1> QED BY <1>1, <1>2, <1>3, SmpInvariant, PTL DEF FirstComeFirstServed, Fifo!Spec

(* get_time() does not go back on any processor, and the time from the     *)
(* ACPI timer is one that the timer had during the call.                   *)
THEOREM ClockIsRight == SmpSpec => TimeRight
  <1>1. SmpInv /\ [SmpNext]_smpvars => [ForwardOnly]_clockvars
    BY SmpParts, ClockStep DEF SmpInv
  <1>2. SmpInv => Clk!TrueTime
    BY ClockSafe DEF SmpInv
  <1>3. SmpSpec => SmpInit /\ [][SmpNext]_smpvars
    BY DEF SmpSpec
  <1>4. SmpSpec => [][ForwardOnly]_clockvars
    BY <1>1, <1>3, SmpInvariant, PTL
  <1>5. [][ForwardOnly]_clockvars => Clk!NeverBack
    BY DEF Clk!NeverBack, Clk!vars, clockvars, ForwardOnly
  <1> QED BY <1>2, <1>4, <1>5, SmpInvariant, PTL DEF TimeRight
=============================================================================
