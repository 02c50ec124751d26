------------------------------- MODULE Lemmas -------------------------------
(***************************************************************************)
(* Facts that several proof modules use: what the list operations do to    *)
(* the set of linked elements, and that they keep every element linked at  *)
(* most once; remainders, least elements and sequences.                    *)
(***************************************************************************)
EXTENDS List1, Subsequence, SequenceTheorems, WellFoundedInduction, TLAPS

(* A function on 1 .. n is a sequence, and a sequence a function. *)
LEMMA SequenceOf ==
  ASSUME NEW n \in Nat, NEW S, NEW q \in [1 .. n -> S]
  PROVE  q \in Seq(S) /\ Len(q) = n
  OBVIOUS

LEMMA FunctionOf ==
  ASSUME NEW S, NEW q \in Seq(S)
  PROVE  q \in [1 .. Len(q) -> S]
  OBVIOUS

(* Elements, longer and shorter sequences *)
LEMMA ElementOf ==
  ASSUME NEW S, NEW s \in Seq(S), NEW i \in 1 .. Len(s)
  PROVE  s[i] \in S
  OBVIOUS

LEMMA Widen ==
  ASSUME NEW S, NEW T, S \subseteq T, NEW s \in Seq(S)
  PROVE  s \in Seq(T)
  <1>1. s \in [1 .. Len(s) -> T] /\ Len(s) \in Nat
    OBVIOUS
  <1> QED BY <1>1

LEMMA Concatenation ==
  ASSUME NEW S, NEW s \in Seq(S), NEW t \in Seq(S)
  PROVE  /\ s \o t \in Seq(S)
         /\ Len(s \o t) = Len(s) + Len(t)
         /\ \A k \in 1 .. Len(s) : (s \o t)[k] = s[k]
         /\ \A k \in 1 .. Len(t) : (s \o t)[Len(s) + k] = t[k]
  OBVIOUS

LEMMA WithoutHead ==
  ASSUME NEW S, NEW s \in Seq(S), s # <<>>, NEW u, u = <<>> \/ u = Tail(s)
  PROVE  \A j \in 1 .. Len(u) : j + 1 \in 1 .. Len(s) /\ 1 < j + 1 /\ u[j] = s[j + 1]
  <1>1. CASE u = <<>>
    BY <1>1
  <1>2. CASE u = Tail(s)
    <2>1. Len(s) \in Nat /\ Len(u) = Len(s) - 1
      BY <1>2
    <2>2. \A j \in 1 .. Len(s) - 1 : u[j] = s[j + 1]
      BY <1>2
    <2> QED BY <2>1, <2>2
  <1> QED BY <1>1, <1>2

-----------------------------------------------------------------------------
(* LIST1_ADD links an element that was not linked yet at the tail.         *)
LEMMA AddProperties ==
    ASSUME NEW S, NEW l \in Seq(S), NEW e \in S
    PROVE  /\ LIST1_ADD(l, e) \in Seq(S)
           /\ Range(LIST1_ADD(l, e)) = Range(l) \cup {e}
           /\ IsInjective(l) /\ e \notin Range(l) => IsInjective(LIST1_ADD(l, e))
  <1> DEFINE m == Append(l, e)
  <1>1. /\ m \in Seq(S)
        /\ Len(m) = Len(l) + 1
        /\ DOMAIN m = 1 .. Len(l) + 1
        /\ m[Len(l) + 1] = e
        /\ \A j \in 1 .. Len(l) : m[j] = l[j]
        /\ DOMAIN l = 1 .. Len(l)
        /\ Len(l) \in Nat
    OBVIOUS
  <1> HIDE DEF m
  <1>2. Range(m) = Range(l) \cup {e}
    <2>1. \A x \in Range(m) : x \in Range(l) \cup {e}
      BY <1>1, SMT DEF Range
    <2>2. \A x \in Range(l) : x \in Range(m)
      BY <1>1, SMT DEF Range
    <2>3. e \in Range(m)
      BY <1>1, SMT DEF Range
    <2>4. QED  BY <2>1, <2>2, <2>3
  <1>3. ASSUME IsInjective(l), e \notin Range(l)
        PROVE  IsInjective(m)
    <2>1. \A j \in 1 .. Len(l) : l[j] # e
      BY <1>1, <1>3 DEF Range
    <2>2. QED  BY <1>1, <1>3, <2>1, SMT DEF IsInjective
  <1>4. QED  BY <1>1, <1>2, <1>3 DEF LIST1_ADD, m

(* Unlinking the element at position i removes that element and no other.  *)
LEMMA DeleteAtProperties ==
    ASSUME NEW S, NEW l \in Seq(S), NEW i \in 1 .. Len(l), IsInjective(l)
    PROVE  /\ DeleteAt(l, i) \in Seq(S)
           /\ Len(DeleteAt(l, i)) = Len(l) - 1
           /\ l[i] \in Range(l)
           /\ Range(DeleteAt(l, i)) = Range(l) \ {l[i]}
           /\ IsInjective(DeleteAt(l, i))
  <1> DEFINE m == DeleteAt(l, i)
  <1>1. /\ m = [j \in 1 .. Len(l) - 1 |-> IF j < i THEN l[j] ELSE l[j + 1]]
        /\ DOMAIN l = 1 .. Len(l)
        /\ Len(l) \in Nat
        /\ \A j \in 1 .. Len(l) : l[j] \in S
    BY DEF DeleteAt
  <1>2. /\ m \in Seq(S)
        /\ Len(m) = Len(l) - 1
        /\ DOMAIN m = 1 .. Len(l) - 1
        /\ \A j \in 1 .. Len(l) - 1 : m[j] = IF j < i THEN l[j] ELSE l[j + 1]
    <2> HIDE DEF m
    <2>1. \A j \in 1 .. Len(l) - 1 : (IF j < i THEN l[j] ELSE l[j + 1]) \in S
      BY <1>1, SMT
    <2>2. m \in [1 .. Len(l) - 1 -> S]
      BY <1>1, <2>1
    <2>3. Len(l) - 1 \in Nat
      BY <1>1, SMT
    <2>4. QED  BY <1>1, <2>2, <2>3, SMT
  <1> HIDE DEF m
  <1>3. \A j \in 1 .. Len(l) - 1 : m[j] \in Range(l) /\ m[j] # l[i]
    BY <1>1, <1>2, SMT DEF Range, IsInjective
  <1>4. \A j \in 1 .. Len(l) : j # i => l[j] \in Range(m)
    <2> TAKE j \in 1 .. Len(l)
    <2>1. CASE j < i
      <3>1. j \in 1 .. Len(l) - 1 /\ m[j] = l[j]
        BY <1>1, <1>2, <2>1, SMT
      <3>2. QED  BY <1>2, <3>1 DEF Range
    <2>2. CASE j > i
      <3>1. j - 1 \in 1 .. Len(l) - 1 /\ m[j - 1] = l[j]
        BY <1>1, <1>2, <2>2, SMT
      <3>2. QED  BY <1>2, <3>1 DEF Range
    <2>3. QED  BY <1>1, <2>1, <2>2, SMT
  <1>5. Range(m) = Range(l) \ {l[i]}
    <2>1. \A x \in Range(m) : x \in Range(l) \ {l[i]}
      BY <1>2, <1>3 DEF Range
    <2>2. ASSUME NEW x \in Range(l) \ {l[i]}
          PROVE  x \in Range(m)
      <3>1. PICK j \in 1 .. Len(l) : x = l[j] /\ j # i
        BY <1>1, <2>2 DEF Range
      <3>2. QED  BY <1>4, <3>1
    <2>3. QED  BY <2>1, <2>2
  <1>6. IsInjective(m)
    BY <1>1, <1>2, SMT DEF IsInjective
  <1>7. QED  BY <1>1, <1>2, <1>5, <1>6 DEF m, Range

(* LIST1_POP unlinks the head.                                             *)
LEMMA PopProperties ==
    ASSUME NEW S, NEW l \in Seq(S), l # <<>>, IsInjective(l)
    PROVE  /\ LIST1_POP(l) \in Seq(S)
           /\ Head(l) \in S
           /\ Head(l) \in Range(l)
           /\ Range(LIST1_POP(l)) = Range(l) \ {Head(l)}
           /\ IsInjective(LIST1_POP(l))
  <1>1. 1 \in 1 .. Len(l) /\ Head(l) = l[1] /\ l[1] \in S
    OBVIOUS
  <1>2. QED  BY <1>1, DeleteAtProperties DEF LIST1_POP

(* LIST1_DEL unlinks the element, wherever it is linked, and the others    *)
(* keep their order.                                                       *)
LEMMA DelProperties ==
    ASSUME NEW S, NEW l \in Seq(S), NEW e \in Range(l), IsInjective(l)
    PROVE  /\ LIST1_DEL(l, e) \in Seq(S)
           /\ Range(LIST1_DEL(l, e)) = Range(l) \ {e}
           /\ IsInjective(LIST1_DEL(l, e))
           /\ \E k \in 1 .. Len(l) : LIST1_DEL(l, e) = DeleteAt(l, k)
  <1>1. \E k \in 1 .. Len(l) : l[k] = e
    BY DEF Range
  <1>2. Position(l, e) \in 1 .. Len(l) /\ l[Position(l, e)] = e
    BY <1>1 DEF Position
  <1>3. /\ DeleteAt(l, Position(l, e)) \in Seq(S)
        /\ Range(DeleteAt(l, Position(l, e))) = Range(l) \ {l[Position(l, e)]}
        /\ IsInjective(DeleteAt(l, Position(l, e)))
    BY <1>2, DeleteAtProperties
  <1> QED BY <1>2, <1>3 DEF LIST1_DEL

(* LIST1_INSERT links the element where it is told to. *)
LEMMA InsertProperties ==
    ASSUME NEW S, NEW l \in Seq(S), NEW e \in S, NEW i \in 1 .. Len(l) + 1
    PROVE  /\ LIST1_INSERT(l, i, e) \in Seq(S)
           /\ Len(LIST1_INSERT(l, i, e)) = Len(l) + 1
           /\ \A j \in 1 .. Len(l) + 1 :
                 LIST1_INSERT(l, i, e)[j] = IF j < i THEN l[j] ELSE IF j = i THEN e ELSE l[j - 1]
           /\ Range(LIST1_INSERT(l, i, e)) = Range(l) \cup {e}
           /\ IsInjective(l) /\ e \notin Range(l) => IsInjective(LIST1_INSERT(l, i, e))
  <1> DEFINE m == LIST1_INSERT(l, i, e)
             n == Len(l)
  <1>1. /\ m = [j \in 1 .. n + 1 |-> IF j < i THEN l[j] ELSE IF j = i THEN e ELSE l[j - 1]]
        /\ DOMAIN l = 1 .. n /\ n \in Nat
        /\ \A j \in 1 .. n : l[j] \in S
    BY DEF LIST1_INSERT
  <1> HIDE DEF m
  <1>2. /\ m \in Seq(S) /\ Len(m) = n + 1 /\ DOMAIN m = 1 .. n + 1
        /\ \A j \in 1 .. n + 1 : m[j] = IF j < i THEN l[j] ELSE IF j = i THEN e ELSE l[j - 1]
    <2>1. \A j \in 1 .. n + 1 : (IF j < i THEN l[j] ELSE IF j = i THEN e ELSE l[j - 1]) \in S
      BY <1>1
    <2>2. m \in [1 .. n + 1 -> S] /\ n + 1 \in Nat
      BY <1>1, <2>1
    <2>3. m \in Seq(S) /\ Len(m) = n + 1
      BY <2>2, SequenceOf
    <2> QED BY <1>1, <2>3
  <1> HIDE DEF n
  <1>3. i \in 1 .. n + 1
    BY DEF n
  <1>4. Range(m) = Range(l) \cup {e}
    <2>1. \A x \in Range(m) : x \in Range(l) \cup {e}
      <3> SUFFICES ASSUME NEW j \in 1 .. n + 1 PROVE m[j] \in Range(l) \cup {e}
        BY <1>2 DEF Range
      <3>1. CASE j < i
        <4>1. j \in 1 .. n /\ m[j] = l[j]
          BY <1>1, <1>2, <1>3, <3>1
        <4> QED BY <1>1, <4>1 DEF Range
      <3>2. CASE j = i
        BY <1>2, <3>2
      <3>3. CASE j > i
        <4>1. j - 1 \in 1 .. n /\ m[j] = l[j - 1]
          BY <1>1, <1>2, <1>3, <3>3
        <4> QED BY <1>1, <4>1 DEF Range
      <3> QED BY <1>3, <3>1, <3>2, <3>3
    <2>2. \A x \in Range(l) : x \in Range(m)
      <3> SUFFICES ASSUME NEW j \in 1 .. n PROVE l[j] \in Range(m)
        BY <1>1 DEF Range
      <3>1. CASE j < i
        <4>1. j \in 1 .. n + 1 /\ m[j] = l[j]
          BY <1>1, <1>2, <3>1
        <4> QED BY <1>2, <4>1 DEF Range
      <3>2. CASE j >= i
        <4>1. j + 1 \in 1 .. n + 1 /\ m[j + 1] = l[j]
          <5>1. j + 1 \in 1 .. n + 1 /\ ~(j + 1 < i) /\ j + 1 # i /\ (j + 1) - 1 = j
            BY <1>1, <1>3, <3>2
          <5> QED BY <1>2, <5>1
        <4> QED BY <1>2, <4>1 DEF Range
      <3> QED BY <1>3, <3>1, <3>2
    <2>3. e \in Range(m)
      <3>1. m[i] = e
        BY <1>2, <1>3
      <3> QED BY <1>2, <1>3, <3>1 DEF Range
    <2> QED BY <2>1, <2>2, <2>3
  <1>5. ASSUME IsInjective(l), e \notin Range(l)
        PROVE  IsInjective(m)
    <2>1. \A j \in 1 .. n : l[j] # e
      BY <1>1, <1>5 DEF Range
    <2>2. \A j, k \in 1 .. n : l[j] = l[k] => j = k
      BY <1>1, <1>5 DEF IsInjective
    <2> SUFFICES \A j, k \in 1 .. n + 1 : j < k => m[j] # m[k]
      <3>1. \A j, k \in 1 .. n + 1 : m[j] = m[k] => j = k
        <4> HIDE DEF m
        <4>1. \A j, k \in 1 .. n + 1 : j < k \/ k < j \/ j = k
          BY <1>1
        <4> QED BY <4>1
      <3> QED BY <1>2, <3>1 DEF IsInjective
    <2> SUFFICES ASSUME NEW j \in 1 .. n + 1, NEW k \in 1 .. n + 1, j < k PROVE m[j] # m[k]
      OBVIOUS
    <2>3. CASE k < i
      BY <1>1, <1>2, <1>3, <2>2, <2>3
    <2>4. CASE k = i
      BY <1>1, <1>2, <1>3, <2>1, <2>4
    <2>5. CASE k > i
      <3>1. k - 1 \in 1 .. n /\ m[k] = l[k - 1]
        BY <1>1, <1>2, <1>3, <2>5
      <3>2. CASE j < i
        BY <1>1, <1>2, <1>3, <2>2, <2>5, <3>1, <3>2
      <3>3. CASE j = i
        BY <1>1, <1>2, <1>3, <2>1, <3>1, <3>3
      <3>4. CASE j > i
        <4>1. j - 1 \in 1 .. n /\ m[j] = l[j - 1]
          BY <1>1, <1>2, <1>3, <3>4
        <4> QED BY <2>2, <3>1, <4>1
      <3> QED BY <1>3, <3>2, <3>3, <3>4
    <2> QED BY <1>3, <2>3, <2>4, <2>5
  <1> QED BY <1>2, <1>4, <1>5 DEF m, n

-----------------------------------------------------------------------------
(* Facts about % for a divisor that is not a number.                       *)
LEMMA RemainderUnique ==
  ASSUME NEW n \in Nat \ {0}, NEW p \in Int, NEW q \in Int,
         NEW r \in 0 .. n - 1, NEW t \in 0 .. n - 1, n * p + r = n * q + t
  PROVE  r = t
  <1>1. n * (p - q) = n * p - n * q
    OBVIOUS
  <1>2. CASE p < q
    <2>1. n * (p - q) <= -n
      BY <1>2
    <2> QED BY <1>1, <2>1
  <1>3. CASE p > q
    <2>1. n * (p - q) >= n
      BY <1>3
    <2> QED BY <1>1, <2>1
  <1> QED BY <1>2, <1>3

LEMMA Remainder ==
  ASSUME NEW n \in Nat \ {0}, NEW q \in Int, NEW r \in 0 .. n - 1
  PROVE  (n * q + r) % n = r
  <1> DEFINE x == n * q + r
  <1>1. x \in Int
    OBVIOUS
  <1> HIDE DEF x
  <1>2. x = n * (x \div n) + (x % n) /\ x % n \in 0 .. n - 1 /\ x \div n \in Int
    BY <1>1
  <1>3. n * q + r = n * (x \div n) + (x % n)
    BY <1>2 DEF x
  <1>4. r = x % n
    BY <1>2, <1>3, RemainderUnique
  <1> QED BY <1>4 DEF x

LEMMA SmallRemainder ==
  ASSUME NEW n \in Nat \ {0}, NEW x \in 0 .. n - 1
  PROVE  x % n = x
  OBVIOUS

LEMMA OneTurnRemainder ==
  ASSUME NEW n \in Nat \ {0}, NEW x \in 0 .. n - 1
  PROVE  (x + n) % n = x
  <1>1. (n * 1 + x) % n = x
    BY Remainder
  <1> QED BY <1>1

(* A set of natural numbers has a least element, a bounded one a greatest. *)
LEMMA HasLeast ==
  ASSUME NEW S \in SUBSET Nat, S # {}
  PROVE  \E x \in S : \A y \in S : x <= y
  <1> DEFINE R == {ss \in Nat \X Nat : ss[1] < ss[2]}
  <1>1. IsWellFoundedOn(R, Nat)
    BY NatLessThanWellFounded, Zenon DEF OpToRel
  <1>2. PICK x \in S : \A y \in S : ~(<<y, x>> \in R)
    <2> HIDE DEF R
    <2> QED BY <1>1, WFMin
  <1>3. ASSUME NEW y \in S, ~(x <= y) PROVE FALSE
    <2>1. y < x /\ x \in Nat /\ y \in Nat
      BY <1>3
    <2>2. <<y, x>> \in R
      BY <2>1
    <2> QED BY <1>2, <2>2
  <1> QED BY <1>3

LEMMA HasGreatest ==
  ASSUME NEW n \in Nat, NEW S \in SUBSET (0 .. n), S # {}
  PROVE  \E x \in S : \A y \in S : x >= y
  <1> DEFINE T == {n - y : y \in S}
  <1>1. T \in SUBSET Nat /\ T # {}
    <2>1. \A y \in S : n - y \in Nat
      OBVIOUS
    <2> QED BY <2>1
  <1>2. PICK t \in T : \A u \in T : t <= u
    <2> HIDE DEF T
    <2> QED BY <1>1, HasLeast
  <1>3. PICK x \in S : t = n - x
    OBVIOUS
  <1>4. ASSUME NEW y \in S PROVE x >= y
    <2>1. n - y \in T
      OBVIOUS
    <2>2. n - x <= n - y
      BY <1>2, <1>3, <2>1
    <2>3. x \in Int /\ y \in Int
      OBVIOUS
    <2> HIDE DEF T
    <2> QED BY <2>2, <2>3
  <1> QED BY <1>4

(* Iteration: functions of a sequence are applied one after the other. *)
Iterates(f, c, g, m) == f[0] = c /\ \A k \in 1 .. m : f[k] = g[k][f[k - 1]]

LEMMA IterationExists ==
  ASSUME NEW S, NEW c \in S, NEW g, NEW n \in Nat, \A k \in 1 .. n : g[k] \in [S -> S]
  PROVE  \E f \in [0 .. n -> S] : Iterates(f, c, g, n)
  <1> DEFINE B == {m \in 0 .. n : ~\E f \in [0 .. m -> S] : Iterates(f, c, g, m)}
  <1>0. B = {} => n \notin B
    OBVIOUS
  <1> SUFFICES ASSUME B # {} PROVE FALSE
    BY <1>0
  <1>a. B \in SUBSET Nat
    OBVIOUS
  <1>1. PICK x \in B : \A y \in B : x <= y
    BY <1>a, HasLeast
  <1>2. CASE x = 0
    <2> DEFINE f == [k \in 0 .. 0 |-> c]
    <2>1. f \in [0 .. 0 -> S] /\ Iterates(f, c, g, 0)
      BY DEF Iterates
    <2> QED BY <1>2, <2>1
  <1>3. CASE x # 0
    <2>1. x \in 1 .. n /\ x - 1 \in 0 .. n /\ x - 1 < x
      BY <1>3
    <2>2. x - 1 \notin B
      <3> HIDE DEF B
      <3> QED BY <1>1, <1>a, <2>1
    <2>3. PICK f \in [0 .. x - 1 -> S] : Iterates(f, c, g, x - 1)
      BY <2>1, <2>2
    <2> DEFINE h == [k \in 0 .. x |-> IF k = x THEN g[x][f[x - 1]] ELSE f[k]]
    <2>4. f[0] = c /\ \A k \in 1 .. x - 1 : f[k] = g[k][f[k - 1]]
      BY <2>3 DEF Iterates
    <2>5. \A k \in 0 .. x : k # x => k \in 0 .. x - 1
      BY <2>1
    <2>6. h \in [0 .. x -> S]
      <3>1. f[x - 1] \in S /\ g[x] \in [S -> S]
        BY <2>1, <2>3
      <3>2. g[x][f[x - 1]] \in S
        BY <3>1
      <3> QED BY <2>3, <2>5, <3>2
    <2>7. h[0] = c
      BY <1>3, <2>1, <2>4
    <2>8. ASSUME NEW k \in 1 .. x PROVE h[k] = g[k][h[k - 1]]
      <3>1. k \in 0 .. x /\ k - 1 \in 0 .. x /\ k - 1 # x
        BY <2>1
      <3>2. h[k - 1] = f[k - 1]
        BY <3>1
      <3>3. CASE k = x
        BY <3>1, <3>2, <3>3
      <3>4. CASE k # x
        <4>1. k \in 1 .. x - 1
          BY <2>1, <3>4
        <4> QED BY <2>4, <3>1, <3>2, <3>4, <4>1
      <3> QED BY <3>3, <3>4
    <2>9. Iterates(h, c, g, x)
      BY <2>7, <2>8 DEF Iterates
    <2> QED BY <2>6, <2>9
  <1> QED BY <1>2, <1>3

-----------------------------------------------------------------------------
(***************************************************************************)
(* Subsequences.  OnlyUpto is a recursive function; that it satisfies its  *)
(* recursion rests on the existence of every beginning of it.              *)
(***************************************************************************)
Extended(u, e, S) == IF e \in S THEN Append(u, e) ELSE u

Recurs(f, s, S, m) ==
    f[0] = <<>> /\ \A k \in 1 .. m : f[k] = Extended(f[k - 1], s[k], S)

LEMMA RecursExists ==
  ASSUME NEW s, NEW S
  PROVE  \A m \in Nat : \E f \in [0 .. m -> Seq(S)] : Recurs(f, s, S, m)
  <1> DEFINE B == {m \in Nat : ~\E f \in [0 .. m -> Seq(S)] : Recurs(f, s, S, m)}
  <1> SUFFICES ASSUME B # {} PROVE FALSE
    OBVIOUS
  <1>1. PICK x \in B : \A y \in B : x <= y
    BY HasLeast
  <1>2. CASE x = 0
    <2> DEFINE f == [k \in 0 .. 0 |-> <<>>]
    <2>1. f \in [0 .. 0 -> Seq(S)] /\ Recurs(f, s, S, 0)
      BY DEF Recurs
    <2> QED BY <1>2, <2>1
  <1>3. CASE x # 0
    <2>1. x \in Nat /\ x - 1 \in Nat /\ x - 1 < x
      BY <1>3
    <2>2. x - 1 \notin B
      <3> HIDE DEF B
      <3> QED BY <1>1, <2>1
    <2>3. PICK f \in [0 .. x - 1 -> Seq(S)] : Recurs(f, s, S, x - 1)
      BY <2>1, <2>2
    <2> DEFINE g == [k \in 0 .. x |-> IF k = x THEN Extended(f[x - 1], s[x], S) ELSE f[k]]
    <2>4. f[0] = <<>> /\ \A k \in 1 .. x - 1 : f[k] = Extended(f[k - 1], s[k], S)
      BY <2>3 DEF Recurs
    <2>5. \A k \in 0 .. x : k # x => k \in 0 .. x - 1
      BY <2>1
    <2>6. g \in [0 .. x -> Seq(S)]
      <3>1. f[x - 1] \in Seq(S)
        BY <2>1, <2>3
      <3>2. Extended(f[x - 1], s[x], S) \in Seq(S)
        BY <3>1 DEF Extended
      <3> QED BY <2>3, <2>5, <3>2
    <2>7. g[0] = <<>>
      BY <1>3, <2>1, <2>4
    <2>8. ASSUME NEW k \in 1 .. x PROVE g[k] = Extended(g[k - 1], s[k], S)
      <3>1. k \in 0 .. x /\ k - 1 \in 0 .. x /\ k - 1 # x
        BY <2>1
      <3>2. g[k - 1] = f[k - 1]
        BY <3>1
      <3>3. CASE k = x
        BY <3>1, <3>2, <3>3
      <3>4. CASE k # x
        <4>1. k \in 1 .. x - 1
          BY <2>1, <3>4
        <4> QED BY <2>4, <3>1, <3>2, <3>4, <4>1
      <3> QED BY <3>3, <3>4
    <2>9. Recurs(g, s, S, x)
      BY <2>7, <2>8 DEF Recurs
    <2> QED BY <2>6, <2>9
  <1> QED BY <1>2, <1>3

(* It depends on the beginning of the sequence only. *)
LEMMA RecursUnique ==
  ASSUME NEW s, NEW t, NEW S, NEW m \in Nat, NEW f, NEW g,
         Recurs(f, s, S, m), Recurs(g, t, S, m), \A k \in 1 .. m : s[k] = t[k]
  PROVE  \A k \in 0 .. m : f[k] = g[k]
  <1> DEFINE B == {k \in 0 .. m : f[k] # g[k]}
  <1> SUFFICES ASSUME B # {} PROVE FALSE
    OBVIOUS
  <1>1. B \in SUBSET Nat
    OBVIOUS
  <1>2. PICK x \in B : \A y \in B : x <= y
    BY <1>1, HasLeast
  <1>3. /\ f[0] = <<>> /\ g[0] = <<>>
        /\ \A k \in 1 .. m : f[k] = Extended(f[k - 1], s[k], S)
        /\ \A k \in 1 .. m : g[k] = Extended(g[k - 1], t[k], S)
    BY DEF Recurs
  <1>4. x # 0
    BY <1>3
  <1>5. x \in 1 .. m /\ x - 1 \in 0 .. m /\ x - 1 < x
    BY <1>4
  <1>6. x - 1 \notin B
    BY <1>1, <1>2, <1>5
  <1>7. f[x - 1] = g[x - 1]
    BY <1>5, <1>6
  <1>8. f[x] = g[x]
    BY <1>3, <1>5, <1>7
  <1> QED BY <1>8

LEMMA OnlyRecurs ==
  ASSUME NEW X, NEW s \in Seq(X), NEW S
  PROVE  /\ Recurs(OnlyUpto(s, S), s, S, Len(s))
         /\ \A k \in 0 .. Len(s) : OnlyUpto(s, S)[k] \in Seq(S)
         /\ Only(s, S) \in Seq(S)
  <1>1. Len(s) \in Nat
    OBVIOUS
  <1>2. PICK f \in [0 .. Len(s) -> Seq(S)] : Recurs(f, s, S, Len(s))
    BY <1>1, RecursExists
  <1> DEFINE Rest(g, n) == IF n = 0 THEN <<>>
                           ELSE IF s[n] \in S THEN Append(g[n - 1], s[n]) ELSE g[n - 1]
  <1>3. \A n \in 0 .. Len(s) : f[n] = Rest(f, n)
    <2> SUFFICES ASSUME NEW n \in 0 .. Len(s) PROVE f[n] = Rest(f, n)
      OBVIOUS
    <2>1. CASE n = 0
      BY <1>2, <2>1 DEF Recurs
    <2>2. CASE n # 0
      <3>1. n \in 1 .. Len(s)
        BY <1>1, <2>2
      <3>2. f[n] = Extended(f[n - 1], s[n], S)
        BY <1>2, <3>1 DEF Recurs
      <3> QED BY <2>2, <3>2 DEF Extended
    <2> QED BY <2>1, <2>2
  <1>4. f = [n \in 0 .. Len(s) |-> Rest(f, n)]
    <2> HIDE DEF Rest
    <2> QED BY <1>3
  <1>5. OnlyUpto(s, S) = [n \in 0 .. Len(s) |-> Rest(OnlyUpto(s, S), n)]
    BY <1>4, Zenon DEF OnlyUpto
  <1>6. PICK g : g = OnlyUpto(s, S)
    OBVIOUS
  <1>7. \A n \in 0 .. Len(s) : g[n] = Rest(g, n)
    <2> HIDE DEF Rest
    <2> QED BY <1>5, <1>6
  <1>8. Recurs(g, s, S, Len(s))
    <2>1. g[0] = <<>>
      BY <1>1, <1>7
    <2>2. \A k \in 1 .. Len(s) : k \in 0 .. Len(s) /\ k # 0
      OBVIOUS
    <2>3. \A k \in 1 .. Len(s) : g[k] = Extended(g[k - 1], s[k], S)
      BY <1>7, <2>2 DEF Extended
    <2> QED BY <2>1, <2>3 DEF Recurs
  <1>9. \A k \in 0 .. Len(s) : g[k] = f[k]
    BY <1>1, <1>2, <1>8, RecursUnique
  <1>10. \A k \in 0 .. Len(s) : g[k] \in Seq(S)
    BY <1>2, <1>9
  <1>11. g[Len(s)] \in Seq(S)
    BY <1>1, <1>10
  <1> QED BY <1>6, <1>8, <1>10, <1>11 DEF Only

LEMMA OnlyEmpty ==
  ASSUME NEW S PROVE Only(<<>>, S) = <<>>
  <1>0. <<>> \in Seq(S) /\ Len(<<>>) = 0
    OBVIOUS
  <1>1. PICK s \in Seq(S) : s = <<>>
    BY <1>0
  <1>2. Recurs(OnlyUpto(s, S), s, S, Len(s)) /\ Len(s) = 0
    BY <1>0, <1>1, OnlyRecurs
  <1>3. OnlyUpto(s, S)[Len(s)] = <<>>
    BY <1>2 DEF Recurs
  <1> QED BY <1>1, <1>3 DEF Only

(* A beginning of a sequence *)
LEMMA OnlyPrefix ==
  ASSUME NEW X, NEW s \in Seq(X), NEW t \in Seq(X), NEW S,
         Len(t) <= Len(s), \A k \in 1 .. Len(t) : s[k] = t[k]
  PROVE  Only(t, S) = OnlyUpto(s, S)[Len(t)]
  <1>1. Recurs(OnlyUpto(s, S), s, S, Len(s)) /\ Recurs(OnlyUpto(t, S), t, S, Len(t))
    BY OnlyRecurs
  <1>2. Recurs(OnlyUpto(s, S), s, S, Len(t))
    BY <1>1 DEF Recurs
  <1>3. PICK m \in Nat : m = Len(t)
    OBVIOUS
  <1>4. \A k \in 0 .. m : OnlyUpto(s, S)[k] = OnlyUpto(t, S)[k]
    <2>1. PICK f, g : f = OnlyUpto(s, S) /\ g = OnlyUpto(t, S)
      OBVIOUS
    <2>2. Recurs(f, s, S, m) /\ Recurs(g, t, S, m) /\ \A k \in 1 .. m : s[k] = t[k]
      BY <1>1, <1>2, <1>3, <2>1
    <2>3. \A k \in 0 .. m : f[k] = g[k]
      BY <2>2, RecursUnique
    <2> QED BY <2>1, <2>3
  <1> QED BY <1>3, <1>4 DEF Only

LEMMA OnlyAppend ==
  ASSUME NEW X, NEW s \in Seq(X), NEW e \in X, NEW S
  PROVE  Only(Append(s, e), S) = Extended(Only(s, S), e, S)
  <1>0. Append(s, e) \in Seq(X)
    OBVIOUS
  <1>1. PICK w \in Seq(X) : w = Append(s, e)
    BY <1>0
  <1>2. Len(w) = Len(s) + 1 /\ w[Len(s) + 1] = e /\ Len(s) \in Nat /\ \A k \in 1 .. Len(s) : w[k] = s[k]
    BY <1>1
  <1>3. Recurs(OnlyUpto(w, S), w, S, Len(w))
    BY OnlyRecurs
  <1>4. OnlyUpto(w, S)[Len(s) + 1] = Extended(OnlyUpto(w, S)[Len(s)], e, S)
    <2>1. PICK n \in Nat : n = Len(s)
      BY <1>2
    <2>2. n + 1 \in 1 .. Len(w) /\ (n + 1) - 1 = n
      BY <1>2, <2>1
    <2>3. OnlyUpto(w, S)[n + 1] = Extended(OnlyUpto(w, S)[(n + 1) - 1], w[n + 1], S)
      BY <1>3, <2>2 DEF Recurs
    <2> QED BY <1>2, <2>1, <2>2, <2>3
  <1>5. Only(s, S) = OnlyUpto(w, S)[Len(s)]
    BY <1>2, OnlyPrefix
  <1> QED BY <1>1, <1>2, <1>4, <1>5 DEF Only

LEMMA AppendToBoth ==
  ASSUME NEW S, NEW b \in Seq(S), NEW u \in Seq(S), NEW c
  PROVE  Extended(b \o u, c, S) = b \o Extended(u, c, S)
  <1>1. CASE c \in S
    <2>1. b \o u \in Seq(S) /\ <<c>> \in Seq(S)
      BY <1>1, ConcatProperties
    <2>2. Append(b \o u, c) = (b \o u) \o <<c>> /\ Append(u, c) = u \o <<c>>
      BY <1>1, <2>1, AppendIsConcat
    <2>3. (b \o u) \o <<c>> = b \o (u \o <<c>>)
      BY <2>1, ConcatAssociative
    <2> QED BY <1>1, <2>2, <2>3 DEF Extended
  <1>2. CASE c \notin S
    BY <1>2 DEF Extended
  <1> QED BY <1>1, <1>2

(* One more element in front *)
InFront(w, e, s) ==
    Len(w) = Len(s) + 1 /\ w[1] = e /\ \A k \in 1 .. Len(s) : w[k + 1] = s[k]

LEMMA OnlyFront ==
  ASSUME NEW X, NEW s \in Seq(X), NEW e \in X, NEW S, NEW w \in Seq(X), InFront(w, e, s)
  PROVE  Only(w, S) = Extended(<<>>, e, S) \o Only(s, S)
  <1> USE DEF InFront
  <1> DEFINE f == OnlyUpto(w, S)
             g == OnlyUpto(s, S)
             b == Extended(<<>>, e, S)
             B == {k \in 0 .. Len(s) : f[k + 1] # b \o g[k]}
  <1>0. Len(s) \in Nat
    OBVIOUS
  <1>1. Recurs(f, w, S, Len(w)) /\ Recurs(g, s, S, Len(s)) /\ \A k \in 0 .. Len(s) : g[k] \in Seq(S)
    BY OnlyRecurs
  <1>2. /\ f[0] = <<>> /\ g[0] = <<>>
        /\ \A k \in 1 .. Len(s) + 1 : f[k] = Extended(f[k - 1], w[k], S)
        /\ \A k \in 1 .. Len(s) : g[k] = Extended(g[k - 1], s[k], S)
    BY <1>1 DEF Recurs
  <1>3. b \in Seq(S)
    BY DEF Extended
  <1> HIDE DEF f, g, b
  <1>4. ASSUME B # {} PROVE FALSE
    <2>1. B \in SUBSET Nat
      OBVIOUS
    <2>2. PICK x \in B : \A y \in B : x <= y
      BY <1>4, <2>1, HasLeast
    <2>3. x \in Nat /\ x \in 0 .. Len(s) /\ x + 1 \in 1 .. Len(s) + 1 /\ (x + 1) - 1 = x
      BY <1>0
    <2>4. f[x + 1] = Extended(f[x], w[x + 1], S)
      BY <1>2, <2>3
    <2>5. CASE x = 0
      <3>1. f[1] = Extended(<<>>, e, S)
        BY <1>2, <2>4, <2>5
      <3>2. b \o <<>> = b
        BY <1>3
      <3>3. f[x + 1] = b /\ g[x] = <<>>
        BY <1>2, <2>5, <3>1 DEF b
      <3>4. f[x + 1] = b \o g[x]
        BY <3>2, <3>3
      <3> QED BY <3>4
    <2>6. CASE x # 0
      <3>1. x - 1 \in 0 .. Len(s) /\ x - 1 < x /\ (x - 1) + 1 = x /\ x \in 1 .. Len(s)
        BY <2>3, <2>6
      <3>2. x - 1 \notin B
        BY <2>1, <2>2, <3>1
      <3>3. f[x] = b \o g[x - 1]
        BY <3>1, <3>2
      <3>4. g[x] = Extended(g[x - 1], s[x], S) /\ w[x + 1] = s[x] /\ g[x - 1] \in Seq(S)
        BY <1>1, <1>2, <3>1
      <3>5. PICK u \in Seq(S) : u = g[x - 1]
        BY <3>4
      <3>6. PICK d \in Seq(S) : d = b
        BY <1>3
      <3>7. Extended(b \o u, s[x], S) = b \o Extended(u, s[x], S)
        BY <3>6, AppendToBoth
      <3>8. f[x + 1] = b \o g[x]
        BY <2>4, <3>3, <3>4, <3>5, <3>7
      <3> QED BY <3>8
    <2> QED BY <2>5, <2>6
  <1>5. f[Len(s) + 1] = b \o g[Len(s)]
    BY <1>0, <1>4
  <1> QED BY <1>5 DEF Only, f, g, b
=============================================================================
