---------------------------- MODULE NotifyProofs ----------------------------
(***************************************************************************)
(* Proofs for module Notify: whatever the network and the guest do, text   *)
(* is never in the dialog of another message, and without a dialog only    *)
(* when the guest has changed its graphics mode twice at the wrong moment; *)
(* it is, for every content of the receive buffers and every other traffic *)
(* that does not carry the keyword to DisasVisor's port, information that  *)
(* the public server has published; and on a network that keeps the order  *)
(* the screen does not go back to older information.                       *)
(***************************************************************************)
EXTENDS Notify, Lemmas

-----------------------------------------------------------------------------
(***************************************************************************)
(* The dialog.  Between the picture and the text, when letters would be    *)
(* visible, the picture on the screen is the one of the job, for it was    *)
(* drawn with vga_active set; or the guest has left the graphics mode in   *)
(* between, and the screen has been cleared.  Outside the graphics mode    *)
(* the screen shows nothing of DisasVisor.                                 *)
(***************************************************************************)
JobInv ==
    /\ job = [stage |-> job.stage, picture |-> job.picture, text |-> job.text]
    /\ job.stage \in {"none", "picture", "text"}
    /\ job.stage # "none" => job.picture # 0

ScreenInv ==
    /\ screen = [picture |-> screen.picture, of |-> screen.of, text |-> screen.text]
    /\ graphics \in BOOLEAN /\ vga_active \in BOOLEAN
    /\ ~graphics => screen = Blank
    /\ job.stage = "text" /\ Visible
          => \/ screen.picture = job.picture /\ screen.of = job.text
             \/ screen.picture = 0 /\ left

DialogInv == JobInv /\ ScreenInv /\ TextHasDialog

LEMMA DialogInit == Init => DialogInv
  <1> SUFFICES ASSUME Init PROVE DialogInv
    OBVIOUS
  <1>1. graphics \in BOOLEAN
    BY NotifyAssumption DEF Init, EnvironmentType
  <1> QED BY <1>1 DEF Init, DialogInv, JobInv, ScreenInv, TextHasDialog, Visible, NoJob, Blank

LEMMA DialogStep == DialogInv /\ [Next]_vars => DialogInv'
  <1> SUFFICES ASSUME DialogInv, [Next]_vars PROVE DialogInv'
    OBVIOUS
  <1> USE DEF DialogInv, JobInv, ScreenInv, TextHasDialog, Visible
  <1>1. CASE UNCHANGED <<job, vgavars>>
    BY <1>1 DEF vgavars
  <1>2. CASE HandlePacket
    <2>1. /\ UNCHANGED <<graphics, vga_active, screen, left>>
          /\ \/ job' = NoJob
             \/ \E n, s : n # 0 /\ job' = [stage |-> "picture", picture |-> n, text |-> s]
      BY <1>2 DEF HandlePacket, vgavars
    <2> QED BY <2>1 DEF NoJob
  <1>3. CASE ShowPicture
    <2>1. /\ vga_active' = graphics /\ graphics' = graphics /\ job.stage = "picture"
          /\ job' = [job EXCEPT !.stage = "text"]
          /\ screen' = IF graphics THEN [picture |-> job.picture, of |-> job.text, text |-> <<>>]
                       ELSE screen
      BY <1>3 DEF ShowPicture, vga_is_ready
    <2>2. CASE graphics
      BY <2>1, <2>2
    <2>3. CASE ~graphics
      BY <2>1, <2>3 DEF Blank
    <2> QED BY <2>2, <2>3
  <1>4. CASE ShowText
    <2>1. /\ job.stage = "text" /\ job' = NoJob
          /\ screen' = IF Visible THEN [screen EXCEPT !.text = job.text] ELSE screen
          /\ UNCHANGED <<graphics, vga_active, left>>
      BY <1>4 DEF ShowText
    <2> QED BY <2>1 DEF NoJob
  <1>5. CASE GuestGraphics
    BY <1>5 DEF GuestGraphics, Blank
  <1>6. CASE UNCHANGED vars
    BY <1>1, <1>6 DEF vars
  <1>7. CASE Earthquake \/ Poll \/ ServerDies \/ ServerRestarts
    BY <1>1, <1>7 DEF Earthquake, Poll, ServerDies, ServerRestarts
  <1>8. CASE NetDeliver \/ NetLose \/ NetDuplicate \/ OtherArrives \/ Receive
    BY <1>1, <1>8 DEF NetDeliver, NetLose, NetDuplicate, OtherArrives, Receive
  <1> QED BY <1>2, <1>3, <1>4, <1>5, <1>6, <1>7, <1>8 DEF Next

(* vga_display_disaster_warning(): text is never in the picture of another *)
(* message, whenever the guest changes the mode; it is without any picture *)
(* only if the guest has left the graphics mode between the picture of the *)
(* same message and its text, and has come back.                           *)
THEOREM TextInItsDialog == Spec => []TextHasDialog
  <1>1. DialogInv => TextHasDialog
    BY DEF DialogInv
  <1> QED BY <1>1, DialogInit, DialogStep, PTL DEF Spec

-----------------------------------------------------------------------------
(***************************************************************************)
(* What the parser makes of a message.  The bytes of a message are known   *)
(* one by one, behind the keyword; what follows them in the buffer is not. *)
(***************************************************************************)
Fixed(t, e) == <<32, 49, 46, 48, 32, t, 32, 48, 48, 56, 48, 32, 48, 48, 52, 48,
                 32, 32, 32, 32, 32, 64 + e, 58, 32, 64 + e, 10>>

(* The assumptions on the instance: the width of disaster_type is that of   *)
(* the code, a message fits into a datagram and its length into a variable; *)
(* the page of the public server always has rows.                           *)
Deployed ==
    /\ TypeBits = 8
    /\ Len(Keyword) + 26 < 2^16
    /\ 5 < 2^LenBits
    /\ BlankEvent = {}
    /\ Remains \subseteq Seq(0 .. 255)

LEMMA MinIs ==
  ASSUME NEW S \in SUBSET Int, NEW k \in S, \A j \in S : k <= j
  PROVE  Min(S) = k
  <1>1. \E x \in S : \A y \in S : x <= y
    OBVIOUS
  <1>2. Min(S) \in S /\ \A y \in S : Min(S) <= y
    BY <1>1 DEF Min
  <1>3. Min(S) <= k /\ k <= Min(S) /\ Min(S) \in Int /\ k \in Int
    BY <1>2
  <1> QED BY <1>3

LEMMA MessageBytes ==
  ASSUME NEW t \in 0 .. 255, NEW e \in Nat
  PROVE  /\ Message(t, Row(e)) \in Seq(Int)
         /\ Len(Message(t, Row(e))) = Len(Keyword) + 26
         /\ \A k \in 1 .. Len(Keyword) : Message(t, Row(e))[k] = Keyword[k]
         /\ \A k \in 1 .. 26 : Message(t, Row(e))[Len(Keyword) + k] = Fixed(t, e)[k]
  <1> DEFINE f == Fixed(t, e)
             g == <<32, 49, 46, 48, 32, t, 32, 48, 48, 56, 48, 32, 48, 48, 52, 48,
                    32, 32, 32, 32, 32>>
             r == Row(e)
             a == Keyword \o g
             m == Message(t, Row(e))
             L == Len(Keyword)
  <1>1. /\ g \in Seq(Int) /\ Len(g) = 21
        /\ r \in Seq(Int) /\ Len(r) = 5
    BY DEF Row
  <1>2. Keyword \in Seq(Int)
    <2>1. Keyword \in Seq(1 .. 255) /\ 1 .. 255 \subseteq Int
      BY MessageAssumption
    <2> QED BY <2>1, Widen
  <1>3. m = a \o r
    BY DEF Message
  <1>4. \A k \in 1 .. 21 : g[k] = f[k]
    BY DEF Fixed
  <1>5. \A k \in 1 .. 5 : r[k] = f[21 + k]
    BY DEF Fixed, Row
  <1> HIDE DEF f, m, g, r, a
  <1>6. /\ a \in Seq(Int) /\ Len(a) = L + 21
        /\ \A k \in 1 .. L : a[k] = Keyword[k]
        /\ \A k \in 1 .. 21 : a[L + k] = f[k]
    <2>1. /\ Keyword \o g \in Seq(Int) /\ Len(Keyword \o g) = Len(Keyword) + Len(g)
          /\ \A k \in 1 .. Len(Keyword) : (Keyword \o g)[k] = Keyword[k]
          /\ \A k \in 1 .. Len(g) : (Keyword \o g)[Len(Keyword) + k] = g[k]
      <3>1. g \in Seq(Int)
        BY <1>1
      <3> QED BY <1>2, <3>1, Concatenation
    <2> QED BY <1>1, <1>4, <2>1 DEF a
  <1>7. L \in Nat
    BY <1>2
  <1> HIDE DEF L
  <1>8. /\ m \in Seq(Int) /\ Len(m) = L + 26
        /\ \A k \in 1 .. L + 21 : m[k] = a[k]
        /\ \A k \in 1 .. 5 : m[L + 21 + k] = f[21 + k]
    <2>1. /\ a \o r \in Seq(Int) /\ Len(a \o r) = Len(a) + Len(r)
          /\ \A k \in 1 .. Len(a) : (a \o r)[k] = a[k]
          /\ \A k \in 1 .. Len(r) : (a \o r)[Len(a) + k] = r[k]
      <3>1. a \in Seq(Int) /\ r \in Seq(Int)
        BY <1>1, <1>6
      <3> QED BY <3>1, Concatenation
    <2>2. m \in Seq(Int) /\ Len(m) = L + 26
      BY <1>1, <1>3, <1>6, <1>7, <2>1
    <2>3. \A k \in 1 .. L + 21 : m[k] = a[k]
      BY <1>3, <1>6, <2>1
    <2>4. \A k \in 1 .. 5 : m[L + 21 + k] = f[21 + k]
      <3>1. \A k \in 1 .. Len(r) : m[Len(a) + k] = r[k]
        BY <1>3, <2>1
      <3> QED BY <1>1, <1>5, <1>6, <3>1
    <2> QED BY <2>2, <2>3, <2>4
  <1>9. \A k \in 1 .. 26 : m[L + k] = f[k]
    <2>1. ASSUME NEW k \in 1 .. 21 PROVE m[L + k] = f[k]
      <3>1. L + k \in 1 .. L + 21
        BY <1>7
      <3> QED BY <1>6, <1>8, <3>1
    <2>2. ASSUME NEW k \in 22 .. 26 PROVE m[L + k] = f[k]
      <3>1. k - 21 \in 1 .. 5 /\ L + 21 + (k - 21) = L + k /\ 21 + (k - 21) = k
        BY <1>7
      <3> QED BY <1>8, <3>1
    <2> QED BY <2>1, <2>2
  <1>10. \A k \in 1 .. L : m[k] = Keyword[k]
    <2>1. \A k \in 1 .. L : k \in 1 .. L + 21
      BY <1>7
    <2> QED BY <1>6, <1>8, <2>1
  <1> QED BY <1>8, <1>9, <1>10 DEF f, m, L
(* What the three loops of the parser stop at *)
LEMMA Delimiters ==
  ASSUME NEW c, is_delimiter(c)
  PROVE  c \in Int /\ c \notin Digit /\ c # NUL
  BY DEF is_delimiter, Digit, NUL

LEMMA SkipTo ==
  ASSUME NEW mem \in Seq(Int), NEW a \in 1 .. Len(mem), NEW b \in a .. Len(mem),
         \A j \in a .. b - 1 : is_delimiter(mem[j]), ~is_delimiter(mem[b]), mem[b] # NUL
  PROVE  SKIP_DELIMITERS(mem, a) = b
  <1> DEFINE S == {j \in a .. Len(mem) : ~is_delimiter(mem[j])}
  <1>1. S \in SUBSET Int /\ b \in S /\ a # Stop
    BY DEF Stop
  <1>2. \A j \in S : b <= j
    OBVIOUS
  <1>3. Min(S) = b
    <2> HIDE DEF S
    <2> QED BY <1>1, <1>2, MinIs
  <1> QED BY <1>1, <1>3 DEF SKIP_DELIMITERS

LEMMA VersionTo ==
  ASSUME NEW mem \in Seq(Int), NEW a \in 1 .. Len(mem), NEW b \in a .. Len(mem),
         \A j \in a .. b - 1 : ~is_delimiter(mem[j]) /\ mem[j] # NUL, is_delimiter(mem[b])
  PROVE  SkipVersion(mem, a) = b
  <1> DEFINE S == {j \in a .. Len(mem) : is_delimiter(mem[j]) \/ mem[j] = NUL}
  <1>1. S \in SUBSET Int /\ b \in S /\ a # Stop
    BY DEF Stop
  <1>2. \A j \in S : b <= j
    OBVIOUS
  <1>3. Min(S) = b
    <2> HIDE DEF S
    <2> QED BY <1>1, <1>2, MinIs
  <1>4. mem[b] # NUL
    BY DEF is_delimiter, NUL
  <1> QED BY <1>1, <1>3, <1>4 DEF SkipVersion

LEMMA NumberTo ==
  ASSUME NEW mem \in Seq(Int), NEW a \in 1 .. Len(mem), NEW b \in a .. Len(mem),
         \A j \in a .. b - 1 : mem[j] \in Digit, is_delimiter(mem[b])
  PROVE  IntegerEnd(mem, a) = b
  <1> DEFINE S == {j \in a .. Len(mem) : mem[j] \notin Digit}
  <1>1. mem[b] \notin Digit
    BY Delimiters
  <1>2. S \in SUBSET Int /\ b \in S /\ a # Stop
    BY <1>1 DEF Stop
  <1>3. \A j \in S : b <= j
    OBVIOUS
  <1>4. Min(S) = b
    <2> HIDE DEF S
    <2> QED BY <1>2, <1>3, MinIs
  <1> QED BY <1>2, <1>4 DEF IntegerEnd

(* The classes of the bytes of a message behind the keyword *)
LEMMA FixedBytes ==
  ASSUME NEW t \in Digit, NEW e \in Nat, NEW b, b = Fixed(t, e)
  PROVE  /\ \A k \in {1, 5, 7, 12, 17, 18, 19, 20, 21} : is_delimiter(b[k])
         /\ \A k \in {2, 3, 4, 6, 8, 13, 22} : ~is_delimiter(b[k]) /\ b[k] # NUL
         /\ \A k \in {6, 8, 9, 10, 11, 13, 14, 15, 16} : b[k] \in Digit
  <1>1. /\ b[1] = 32 /\ b[5] = 32 /\ b[7] = 32 /\ b[12] = 32 /\ b[17] = 32
        /\ b[18] = 32 /\ b[19] = 32 /\ b[20] = 32 /\ b[21] = 32
    BY DEF Fixed
  <1>2. b[2] = 49 /\ b[3] = 46 /\ b[4] = 48 /\ b[6] = t /\ b[22] = 64 + e
    BY DEF Fixed
  <1>3. /\ b[8] = 48 /\ b[9] = 48 /\ b[10] = 56 /\ b[11] = 48
        /\ b[13] = 48 /\ b[14] = 48 /\ b[15] = 52 /\ b[16] = 48
    BY DEF Fixed
  <1>4. \A c \in Digit \cup {46} : ~is_delimiter(c) /\ c # NUL
    BY DEF is_delimiter, Digit, NUL
  <1>5. ~is_delimiter(64 + e) /\ 64 + e # NUL
    BY DEF is_delimiter, NUL
  <1>6. is_delimiter(32)
    BY DEF is_delimiter
  <1>7. {48, 49, 52, 56, t} \subseteq Digit
    BY DEF Digit
  <1>8. \A k \in {1, 5, 7, 12, 17, 18, 19, 20, 21} : is_delimiter(b[k])
    BY <1>1, <1>6
  <1>9. \A k \in {2, 3, 4, 6, 8, 13, 22} : ~is_delimiter(b[k]) /\ b[k] # NUL
    BY <1>2, <1>3, <1>4, <1>5, <1>7
  <1>10. \A k \in {6, 8, 9, 10, 11, 13, 14, 15, 16} : b[k] \in Digit
    BY <1>2, <1>3, <1>7
  <1> QED BY <1>8, <1>9, <1>10

(* mem has the bytes of a message behind position L. *)
Holds(mem, L, b) == Len(mem) >= L + 26 /\ \A k \in 1 .. 26 : mem[L + k] = b[k]

SliceOf(mem, L, b, x, y) ==
    /\ L + x \in 1 .. Len(mem) /\ L + y \in L + x .. Len(mem)
    /\ mem[L + y] = b[y]
    /\ \A j \in L + x .. (L + y) - 1 : \E k \in x .. y - 1 : mem[j] = b[k]

LEMMA Slice ==
  ASSUME NEW mem \in Seq(Int), NEW L \in Nat, NEW b, Holds(mem, L, b),
         NEW x \in 1 .. 26, NEW y \in x .. 26
  PROVE  SliceOf(mem, L, b, x, y)
  <1> DEFINE n == Len(mem)
  <1>1. n \in Nat /\ n >= L + 26
    BY DEF Holds
  <1>2. \A k \in 1 .. 26 : mem[L + k] = b[k]
    BY DEF Holds
  <1> HIDE DEF n
  <1>3. L + x \in 1 .. n /\ L + y \in L + x .. n
    BY <1>1
  <1>4. mem[L + y] = b[y]
    <2>1. y \in 1 .. 26
      OBVIOUS
    <2> QED BY <1>2, <2>1
  <1>5. ASSUME NEW j \in L + x .. (L + y) - 1 PROVE \E k \in x .. y - 1 : mem[j] = b[k]
    <2>1. j - L \in x .. y - 1 /\ j - L \in 1 .. 26 /\ L + (j - L) = j
      OBVIOUS
    <2>2. mem[L + (j - L)] = b[j - L]
      BY <1>2, <2>1 DEF SliceOf
    <2> QED BY <2>1, <2>2
  <1> QED BY <1>3, <1>4, <1>5 DEF n, SliceOf

(* The positions at which the parser finds the fields of a message *)
LEMMA Fields ==
  ASSUME NEW t \in Digit, NEW e \in Nat, NEW mem \in Seq(Int), NEW L \in Nat,
         Holds(mem, L, Fixed(t, e))
  PROVE  /\ SKIP_DELIMITERS(mem, L + 1) = L + 2
         /\ SkipVersion(mem, L + 2) = L + 5
         /\ SKIP_DELIMITERS(mem, L + 5) = L + 6
         /\ IntegerEnd(mem, L + 6) = L + 7
         /\ SKIP_DELIMITERS(mem, L + 7) = L + 8
         /\ IntegerEnd(mem, L + 8) = L + 12
         /\ SKIP_DELIMITERS(mem, L + 12) = L + 13
         /\ IntegerEnd(mem, L + 13) = L + 17
         /\ SKIP_DELIMITERS(mem, L + 17) = L + 22
  <1> DEFINE b == Fixed(t, e)
  <1>1. /\ \A k \in {1, 5, 7, 12, 17, 18, 19, 20, 21} : is_delimiter(b[k])
        /\ \A k \in {2, 3, 4, 6, 8, 13, 22} : ~is_delimiter(b[k]) /\ b[k] # NUL
        /\ \A k \in {6, 8, 9, 10, 11, 13, 14, 15, 16} : b[k] \in Digit
    BY FixedBytes
  <1> HIDE DEF b
  <1>2. \A x \in 1 .. 26 : \A y \in x .. 26 : SliceOf(mem, L, b, x, y)
    <2>1. Holds(mem, L, b)
      BY DEF b
    <2> TAKE x \in 1 .. 26
    <2> TAKE y \in x .. 26
    <2> QED BY <2>1, Slice
  <1>3. SKIP_DELIMITERS(mem, L + 1) = L + 2
    <2>1. 1 \in 1 .. 26 /\ 2 \in 1 .. 26 /\ 1 .. 2 - 1 = {1}
      OBVIOUS
    <2>2. /\ L + 1 \in 1 .. Len(mem) /\ L + 2 \in L + 1 .. Len(mem)
          /\ mem[L + 2] = b[2]
          /\ \A j \in L + 1 .. (L + 2) - 1 : \E k \in {1} : mem[j] = b[k]
      <3>1. PICK u \in 1 .. 26 : u = 1
        BY <2>1
      <3>2. \A y \in u .. 26 :
              /\ L + u \in 1 .. Len(mem) /\ L + y \in L + u .. Len(mem)
              /\ mem[L + y] = b[y]
              /\ \A j \in L + u .. (L + y) - 1 : \E k \in u .. y - 1 : mem[j] = b[k]
        BY <1>2 DEF SliceOf
      <3> QED BY <2>1, <3>1, <3>2
    <2>3. \A j \in L + 1 .. (L + 2) - 1 : is_delimiter(mem[j])
      BY <1>1, <2>2
    <2>4. ~is_delimiter(mem[L + 2]) /\ mem[L + 2] # NUL
      BY <1>1, <2>2
    <2> QED BY <2>2, <2>3, <2>4, SkipTo
  <1>4. SkipVersion(mem, L + 2) = L + 5
    <2>1. 2 \in 1 .. 26 /\ 5 \in 2 .. 26 /\ 2 .. 5 - 1 = {2, 3, 4}
      OBVIOUS
    <2>2. /\ L + 2 \in 1 .. Len(mem) /\ L + 5 \in L + 2 .. Len(mem)
          /\ mem[L + 5] = b[5]
          /\ \A j \in L + 2 .. (L + 5) - 1 : \E k \in {2, 3, 4} : mem[j] = b[k]
      BY <1>2, <2>1 DEF SliceOf
    <2>3. \A j \in L + 2 .. (L + 5) - 1 : ~is_delimiter(mem[j]) /\ mem[j] # NUL
      BY <1>1, <2>2
    <2>4. is_delimiter(mem[L + 5])
      BY <1>1, <2>2
    <2> QED BY <2>2, <2>3, <2>4, VersionTo
  <1>5. SKIP_DELIMITERS(mem, L + 5) = L + 6
    <2>1. 5 \in 1 .. 26 /\ 6 \in 5 .. 26 /\ 5 .. 6 - 1 = {5}
      OBVIOUS
    <2>2. /\ L + 5 \in 1 .. Len(mem) /\ L + 6 \in L + 5 .. Len(mem)
          /\ mem[L + 6] = b[6]
          /\ \A j \in L + 5 .. (L + 6) - 1 : \E k \in {5} : mem[j] = b[k]
      BY <1>2, <2>1 DEF SliceOf
    <2>3. \A j \in L + 5 .. (L + 6) - 1 : is_delimiter(mem[j])
      BY <1>1, <2>2
    <2>4. ~is_delimiter(mem[L + 6]) /\ mem[L + 6] # NUL
      BY <1>1, <2>2
    <2> QED BY <2>2, <2>3, <2>4, SkipTo
  <1>6. IntegerEnd(mem, L + 6) = L + 7
    <2>1. 6 \in 1 .. 26 /\ 7 \in 6 .. 26 /\ 6 .. 7 - 1 = {6}
      OBVIOUS
    <2>2. /\ L + 6 \in 1 .. Len(mem) /\ L + 7 \in L + 6 .. Len(mem)
          /\ mem[L + 7] = b[7]
          /\ \A j \in L + 6 .. (L + 7) - 1 : \E k \in {6} : mem[j] = b[k]
      BY <1>2, <2>1 DEF SliceOf
    <2>3. \A j \in L + 6 .. (L + 7) - 1 : mem[j] \in Digit
      BY <1>1, <2>2
    <2>4. is_delimiter(mem[L + 7])
      BY <1>1, <2>2
    <2> QED BY <2>2, <2>3, <2>4, NumberTo
  <1>7. SKIP_DELIMITERS(mem, L + 7) = L + 8
    <2>1. 7 \in 1 .. 26 /\ 8 \in 7 .. 26 /\ 7 .. 8 - 1 = {7}
      OBVIOUS
    <2>2. /\ L + 7 \in 1 .. Len(mem) /\ L + 8 \in L + 7 .. Len(mem)
          /\ mem[L + 8] = b[8]
          /\ \A j \in L + 7 .. (L + 8) - 1 : \E k \in {7} : mem[j] = b[k]
      BY <1>2, <2>1 DEF SliceOf
    <2>3. \A j \in L + 7 .. (L + 8) - 1 : is_delimiter(mem[j])
      BY <1>1, <2>2
    <2>4. ~is_delimiter(mem[L + 8]) /\ mem[L + 8] # NUL
      BY <1>1, <2>2
    <2> QED BY <2>2, <2>3, <2>4, SkipTo
  <1>8. IntegerEnd(mem, L + 8) = L + 12
    <2>1. 8 \in 1 .. 26 /\ 12 \in 8 .. 26 /\ 8 .. 12 - 1 = {8, 9, 10, 11}
      OBVIOUS
    <2>2. /\ L + 8 \in 1 .. Len(mem) /\ L + 12 \in L + 8 .. Len(mem)
          /\ mem[L + 12] = b[12]
          /\ \A j \in L + 8 .. (L + 12) - 1 : \E k \in {8, 9, 10, 11} : mem[j] = b[k]
      BY <1>2, <2>1 DEF SliceOf
    <2>3. \A j \in L + 8 .. (L + 12) - 1 : mem[j] \in Digit
      BY <1>1, <2>2
    <2>4. is_delimiter(mem[L + 12])
      BY <1>1, <2>2
    <2> QED BY <2>2, <2>3, <2>4, NumberTo
  <1>9. SKIP_DELIMITERS(mem, L + 12) = L + 13
    <2>1. 12 \in 1 .. 26 /\ 13 \in 12 .. 26 /\ 12 .. 13 - 1 = {12}
      OBVIOUS
    <2>2. /\ L + 12 \in 1 .. Len(mem) /\ L + 13 \in L + 12 .. Len(mem)
          /\ mem[L + 13] = b[13]
          /\ \A j \in L + 12 .. (L + 13) - 1 : \E k \in {12} : mem[j] = b[k]
      BY <1>2, <2>1 DEF SliceOf
    <2>3. \A j \in L + 12 .. (L + 13) - 1 : is_delimiter(mem[j])
      BY <1>1, <2>2
    <2>4. ~is_delimiter(mem[L + 13]) /\ mem[L + 13] # NUL
      BY <1>1, <2>2
    <2> QED BY <2>2, <2>3, <2>4, SkipTo
  <1>10. IntegerEnd(mem, L + 13) = L + 17
    <2>1. 13 \in 1 .. 26 /\ 17 \in 13 .. 26 /\ 13 .. 17 - 1 = {13, 14, 15, 16}
      OBVIOUS
    <2>2. /\ L + 13 \in 1 .. Len(mem) /\ L + 17 \in L + 13 .. Len(mem)
          /\ mem[L + 17] = b[17]
          /\ \A j \in L + 13 .. (L + 17) - 1 : \E k \in {13, 14, 15, 16} : mem[j] = b[k]
      BY <1>2, <2>1 DEF SliceOf
    <2>3. \A j \in L + 13 .. (L + 17) - 1 : mem[j] \in Digit
      BY <1>1, <2>2
    <2>4. is_delimiter(mem[L + 17])
      BY <1>1, <2>2
    <2> QED BY <2>2, <2>3, <2>4, NumberTo
  <1>11. SKIP_DELIMITERS(mem, L + 17) = L + 22
    <2>1. 17 \in 1 .. 26 /\ 22 \in 17 .. 26 /\ 17 .. 22 - 1 = {17, 18, 19, 20, 21}
      OBVIOUS
    <2>2. /\ L + 17 \in 1 .. Len(mem) /\ L + 22 \in L + 17 .. Len(mem)
          /\ mem[L + 22] = b[22]
          /\ \A j \in L + 17 .. (L + 22) - 1 : \E k \in {17, 18, 19, 20, 21} : mem[j] = b[k]
      BY <1>2, <2>1 DEF SliceOf
    <2>3. \A j \in L + 17 .. (L + 22) - 1 : is_delimiter(mem[j])
      BY <1>1, <2>2
    <2>4. ~is_delimiter(mem[L + 22]) /\ mem[L + 22] # NUL
      BY <1>1, <2>2
    <2> QED BY <2>2, <2>3, <2>4, SkipTo
  <1> QED BY <1>3, <1>4, <1>5, <1>6, <1>7, <1>8, <1>9, <1>10, <1>11
LEMMA RowBytes ==
  ASSUME NEW t, NEW e \in Nat
  PROVE  \A k \in 1 .. 5 : Fixed(t, e)[21 + k] = Row(e)[k]
  BY DEF Fixed, Row

(* A message in the buffer, with something behind it *)
LEMMA InBuffer ==
  ASSUME NEW t \in Digit, NEW e \in Nat, NEW rest \in Seq(Int),
         NEW mem, mem = Message(t, Row(e)) \o rest
  PROVE  /\ mem \in Seq(Int) /\ Len(Keyword) \in Nat
         /\ Holds(mem, Len(Keyword), Fixed(t, e))
         /\ SubSeq(mem, 1, Len(Keyword)) = Keyword
         /\ SubSeq(mem, Len(Keyword) + 22, Len(Keyword) + 26) = Row(e)
  <1> DEFINE m == Message(t, Row(e))
             L == Len(Keyword)
             n == Len(mem)
             d == Len(rest)
  <1>1. t \in 0 .. 255
    BY DEF Digit
  <1>2. /\ m \in Seq(Int) /\ Len(m) = L + 26
        /\ \A k \in 1 .. L : m[k] = Keyword[k]
        /\ \A k \in 1 .. 26 : m[L + k] = Fixed(t, e)[k]
    BY <1>1, MessageBytes
  <1>3. L \in Nat /\ Keyword \in Seq(Int)
    <2>1. Keyword \in Seq(1 .. 255) /\ 1 .. 255 \subseteq Int
      BY MessageAssumption
    <2>2. Keyword \in Seq(Int)
      BY <2>1, Widen
    <2> QED BY <2>2
  <1> HIDE DEF m
  <1>4. /\ mem \in Seq(Int) /\ n = Len(m) + d
        /\ \A k \in 1 .. Len(m) : mem[k] = m[k]
    <2>1. m \in Seq(Int) /\ mem = m \o rest
      BY <1>2 DEF m
    <2> QED BY <2>1, Concatenation
  <1>5. d \in Nat /\ n \in Nat
    BY <1>4
  <1> HIDE DEF L, n, d
  <1>6. n >= L + 26
    BY <1>2, <1>3, <1>4, <1>5
  <1>7. \A k \in 1 .. 26 : mem[L + k] = Fixed(t, e)[k]
    <2>1. \A k \in 1 .. 26 : L + k \in 1 .. L + 26
      BY <1>3
    <2> QED BY <1>2, <1>4, <2>1
  <1>8. \A k \in 1 .. L : mem[k] = Keyword[k]
    <2>1. \A k \in 1 .. L : k \in 1 .. L + 26
      BY <1>3
    <2> QED BY <1>2, <1>4, <2>1
  <1>9. SubSeq(mem, 1, L) = Keyword
    <2>1. SubSeq(mem, 1, L) = [k \in 1 .. L |-> mem[k]]
      BY <1>3, <1>4, <1>6 DEF n
    <2>2. Keyword = [k \in 1 .. L |-> Keyword[k]]
      BY <1>3 DEF L
    <2> QED BY <1>8, <2>1, <2>2
  <1>10. SubSeq(mem, L + 22, L + 26) = Row(e)
    <2>1. SubSeq(mem, L + 22, L + 26) = [k \in 1 .. 5 |-> mem[L + (21 + k)]]
      BY <1>3, <1>4, <1>6 DEF n
    <2>2. \A k \in 1 .. 5 : mem[L + (21 + k)] = Fixed(t, e)[21 + k]
      <3>1. \A k \in 1 .. 5 : 21 + k \in 1 .. 26
        OBVIOUS
      <3> QED BY <1>7, <3>1
    <2>3. \A k \in 1 .. 5 : Fixed(t, e)[21 + k] = Row(e)[k]
      BY RowBytes
    <2>4. Row(e) = [k \in 1 .. 5 |-> Row(e)[k]]
      BY DEF Row
    <2> QED BY <2>1, <2>2, <2>3, <2>4
  <1> QED BY <1>3, <1>4, <1>6, <1>7, <1>9, <1>10 DEF L, n, Holds

(* handle_disasvisor_message() finds the information behind the offsets, and *)
(* takes its length from the length of the datagram.                         *)
LEMMA ParseMessage ==
  ASSUME Deployed, NEW t \in Digit, NEW e \in Nat, NEW mem \in Seq(Int),
         Holds(mem, Len(Keyword), Fixed(t, e)), SubSeq(mem, 1, Len(Keyword)) = Keyword,
         NEW r, r = handle_disasvisor_message(mem, Len(Keyword) + 26)
  PROVE  /\ r.shown
         /\ r.disaster_type = READ_INTEGER(mem, Len(Keyword) + 6, TypeBits)
         /\ r.detailed_info = Len(Keyword) + 22
         /\ r.detailed_info_len = 5
  <1> DEFINE L == Len(Keyword)
  <1>1. L \in Nat /\ Holds(mem, L, Fixed(t, e)) /\ SubSeq(mem, 1, L) = Keyword
    BY MessageAssumption
  <1> HIDE DEF L
  <1>2. is_delimiter(mem[L + 1])
    <2>1. mem[L + 1] = Fixed(t, e)[1]
      <3>1. \A k \in 1 .. 26 : mem[L + k] = Fixed(t, e)[k]
        BY <1>1 DEF Holds
      <3> QED BY <3>1
    <2>2. Fixed(t, e)[1] = 32
      BY DEF Fixed
    <2> QED BY <2>1, <2>2 DEF is_delimiter
  <1>3. (L + 26) - ((L + 22) - 1) = 5 /\ 5 % 2^LenBits = 5
    <2>1. 2^LenBits \in Int /\ 5 < 2^LenBits
      BY MessageAssumption DEF Deployed
    <2>2. \A n \in Int : 5 < n => 5 % n = 5
      OBVIOUS
    <2> QED BY <1>1, <2>1, <2>2
  <1>4. r = [shown |-> TRUE,
             disaster_type     |-> READ_INTEGER(mem, L + 6, TypeBits),
             dialog_offset_x   |-> READ_INTEGER(mem, L + 8, OffsetBits),
             dialog_offset_y   |-> READ_INTEGER(mem, L + 13, OffsetBits),
             detailed_info     |-> L + 22,
             detailed_info_len |-> ((L + 26) - ((L + 22) - 1)) % 2^LenBits]
    <2>1. /\ SKIP_DELIMITERS(mem, L + 1) = L + 2
          /\ SkipVersion(mem, L + 2) = L + 5
          /\ SKIP_DELIMITERS(mem, L + 5) = L + 6
          /\ IntegerEnd(mem, L + 6) = L + 7
          /\ SKIP_DELIMITERS(mem, L + 7) = L + 8
          /\ IntegerEnd(mem, L + 8) = L + 12
          /\ SKIP_DELIMITERS(mem, L + 12) = L + 13
          /\ IntegerEnd(mem, L + 13) = L + 17
          /\ SKIP_DELIMITERS(mem, L + 17) = L + 22
      BY <1>1, Fields
    <2>2. ~(L + 26 < L) /\ L + 22 # Stop
      BY <1>1 DEF Stop
    <2> QED BY <1>1, <1>2, <2>1, <2>2 DEF handle_disasvisor_message, L
  <1> QED BY <1>3, <1>4 DEF L
LEMMA OneByte ==
  ASSUME NEW mem \in Seq(Int), NEW a \in 1 .. Len(mem)
  PROVE  SubSeq(mem, a, a) = <<mem[a]>>
  <1> DEFINE s == SubSeq(mem, a, a)
  <1>1. s \in Seq(Int) /\ Len(s) = 1 /\ s[1] = mem[a]
    OBVIOUS
  <1> HIDE DEF s
  <1>2. s = <<mem[a]>>
    BY <1>1
  <1> QED BY <1>2 DEF s

(* READ_INTEGER of one digit takes one step. *)
LEMMA OneDigit ==
  ASSUME NEW w \in Nat, NEW c \in Digit
  PROVE  ReadUpto(<<c>>, w)[1] = (c - 48) % 2^w
  <1> DEFINE F(it) == [k \in 0 .. 1 |->
                         IF k = 0 THEN 0 ELSE (it[k - 1] * 10 + (<<c>>[k] - 48)) % 2^w]
             g == [k \in 0 .. 1 |-> IF k = 0 THEN 0 ELSE (c - 48) % 2^w]
             read == CHOOSE it : it = F(it)
  <1>1. Len(<<c>>) = 1 /\ <<c>>[1] = c /\ 1 - 1 = 0 /\ 0 * 10 + (c - 48) = c - 48
    BY DEF Digit
  <1>2. \A k \in 0 .. 1 : k # 0 => k = 1
    OBVIOUS
  <1>3. \A it : it = F(it) => it[1] = (c - 48) % 2^w
    <2> SUFFICES ASSUME NEW it, it = F(it) PROVE it[1] = (c - 48) % 2^w
      OBVIOUS
    <2>1. it[0] = 0
      OBVIOUS
    <2>2. it[1] = (it[1 - 1] * 10 + (<<c>>[1] - 48)) % 2^w
      OBVIOUS
    <2> HIDE DEF F
    <2> QED BY <1>1, <2>1, <2>2
  <1>4. g = F(g)
    <2>1. g[0] = 0 /\ g[1] = (c - 48) % 2^w
      OBVIOUS
    <2>2. \A k \in 0 .. 1 : g[k] = IF k = 0 THEN 0 ELSE (g[k - 1] * 10 + (<<c>>[k] - 48)) % 2^w
      <3> HIDE DEF g
      <3> QED BY <1>1, <1>2, <2>1
    <2> QED BY <2>2
  <1>5. read = F(read)
    <2> HIDE DEF F
    <2> QED BY <1>4
  <1>6. ReadUpto(<<c>>, w) = read
    BY <1>1 DEF ReadUpto
  <1> HIDE DEF F, read
  <1> QED BY <1>3, <1>5, <1>6
-----------------------------------------------------------------------------
(* The frames.  The condition of HandlePacket for a warning, and its text: *)
Displays(p) ==
    /\ IsForPort(p) /\ ~EndsBatch(p)
    /\ Parsed[p].shown /\ PictureOf(Parsed[p].disaster_type) # 0

TextOf(p) == Letters(DetailedInfo(p, Parsed[p]))

(* The length of a datagram that carries a whole message *)
LEMMA PayloadLength ==
  ASSUME Deployed
  PROVE  Len(Keyword) \in Nat /\ ((8 + (Len(Keyword) + 26)) - 8) % 2^16 = Len(Keyword) + 26
  <1>1. Len(Keyword) \in Nat /\ Len(Keyword) + 26 < 2^16
    BY MessageAssumption DEF Deployed
  <1>2. \A x, n \in Int : 0 <= x /\ x < n => ((8 + x) - 8) % n = x
    OBVIOUS
  <1>3. 2^16 \in Int /\ Len(Keyword) + 26 \in Int
    BY <1>1
  <1> QED BY <1>1, <1>2, <1>3

(* A frame with a message: the text is the information, whatever follows   *)
(* the datagram in the receive buffer.                                     *)
LEMMA MessageText ==
  ASSUME Deployed, NEW e \in Nat \ {0}, NEW f \in MessageFrames(e), f \in Frames
  PROVE  TextOf(f) = Letters(Info(e))
  <1> DEFINE L == Len(Keyword)
  <1>1. Info(e) = Row(e) /\ e \in Nat
    BY DEF Info, Deployed
  <1>2. PICK rest \in Remains : f = Buffered(Datagram(DISASVISOR_PORT, Message(49, Info(e))), rest)
    BY DEF MessageFrames
  <1>3. rest \in Seq(Int)
    <2>1. rest \in Seq(0 .. 255) /\ 0 .. 255 \subseteq Int
      BY DEF Deployed
    <2> QED BY <2>1, Widen
  <1> DEFINE mem == Message(49, Row(e)) \o rest
  <1>4. f.udp_payload = mem /\ f.udp_len = 8 + Len(Message(49, Row(e)))
    BY <1>1, <1>2 DEF Buffered, Datagram
  <1>5. 49 \in Digit /\ 49 \in 0 .. 255
    BY DEF Digit
  <1>6. Len(Message(49, Row(e))) = L + 26
    BY <1>1, <1>5, MessageBytes
  <1>7. /\ mem \in Seq(Int) /\ L \in Nat
        /\ Holds(mem, L, Fixed(49, e))
        /\ SubSeq(mem, 1, L) = Keyword
        /\ SubSeq(mem, L + 22, L + 26) = Row(e)
    BY <1>1, <1>3, <1>5, InBuffer
  <1> HIDE DEF mem
  <1>8. udp_payload_len(f) = L + 26
    BY <1>4, <1>6, PayloadLength DEF udp_payload_len
  <1>9. Parsed[f] = handle_disasvisor_message(mem, L + 26)
    BY <1>4, <1>8 DEF Parsed
  <1>10. Parsed[f].detailed_info = L + 22 /\ Parsed[f].detailed_info_len = 5
    BY <1>1, <1>5, <1>7, <1>9, ParseMessage
  <1>11. Min({Len(mem), (L + 22) + 5 - 1}) = L + 26
    <2>1. Len(mem) \in Nat /\ Len(mem) >= L + 26 /\ (L + 22) + 5 - 1 = L + 26
      BY <1>7 DEF Holds
    <2> DEFINE S == {Len(mem), L + 26}
    <2>2. S \in SUBSET Int /\ L + 26 \in S /\ \A j \in S : L + 26 <= j
      BY <1>7, <2>1
    <2>3. Min(S) = L + 26
      <3> HIDE DEF S
      <3> QED BY <2>2, MinIs
    <2> QED BY <2>1, <2>3
  <1>12. DetailedInfo(f, Parsed[f]) = Row(e)
    BY <1>4, <1>7, <1>10, <1>11 DEF DetailedInfo
  <1> QED BY <1>1, <1>12 DEF TextOf

(* What the buffer begins with, byte by byte *)
LEMMA PrefixBytes ==
  ASSUME NEW u \in Seq(Int), NEW mem \in Seq(Int), IsPrefix(u, mem)
  PROVE  Len(u) <= Len(mem) /\ \A k \in 1 .. Len(u) : mem[k] = u[k]
  <1>1. /\ Len(u) <= Len(mem) /\ Len(u) \in Nat /\ Len(mem) \in Nat
        /\ SubSeq(u, 1, Len(u)) = SubSeq(mem, 1, Len(u))
    BY DEF IsPrefix
  <1>2. ASSUME NEW k \in 1 .. Len(u) PROVE mem[k] = u[k]
    <2>1. SubSeq(u, 1, Len(u))[k] = u[k] /\ SubSeq(mem, 1, Len(u))[k] = mem[k]
      BY <1>1
    <2> QED BY <1>1, <2>1
  <1> QED BY <1>1, <1>2

(* A message of another type: its digit is read as it stands, and there is *)
(* no picture for it.                                                      *)
LEMMA UnknownSilent ==
  ASSUME Deployed, NEW f \in Frames, f.udp_payload \in Seq(Int), UnknownType(f),
         CarriesKeyword(f)
  PROVE  ~Displays(f)
  <1> DEFINE L == Len(Keyword)
             mem == f.udp_payload
  <1>1. PICK t \in Digit \ {49, 50} : /\ udp_payload_len(f) = Len(Message(t, Row(0)))
                                      /\ IsPrefix(Message(t, Row(0)), mem)
    BY DEF UnknownType
  <1>2. PICK z \in Nat : z = 0
    OBVIOUS
  <1>3. t \in Digit /\ t \in 0 .. 255
    BY DEF Digit
  <1> DEFINE m == Message(t, Row(z))
  <1>4. /\ m \in Seq(Int) /\ Len(m) = L + 26 /\ L \in Nat
        /\ \A k \in 1 .. 26 : m[L + k] = Fixed(t, z)[k]
    BY <1>3, MessageBytes, PayloadLength
  <1>5. udp_payload_len(f) = L + 26 /\ IsPrefix(m, mem)
    BY <1>1, <1>2, <1>4
  <1>6. mem \in Seq(Int) /\ SubSeq(mem, 1, L) = Keyword
    BY DEF CarriesKeyword
  <1> HIDE DEF m, mem, L
  <1>a. Len(m) = L + 26 /\ L \in Nat /\ Len(mem) \in Nat
    BY <1>4, <1>6
  <1>7. Len(m) <= Len(mem) /\ \A k \in 1 .. Len(m) : mem[k] = m[k]
    BY <1>4, <1>5, <1>6, PrefixBytes
  <1>8. Holds(mem, L, Fixed(t, z))
    <2>1. ASSUME NEW k \in 1 .. 26 PROVE mem[L + k] = Fixed(t, z)[k]
      <3>1. L + k \in 1 .. Len(m)
        BY <1>a
      <3>2. mem[L + k] = m[L + k]
        BY <1>7, <3>1
      <3> QED BY <1>4, <3>2
    <2>2. Len(mem) >= L + 26
      BY <1>7, <1>a
    <2> QED BY <2>1, <2>2 DEF Holds
  <1>9. Parsed[f] = handle_disasvisor_message(mem, L + 26)
    BY <1>5 DEF Parsed, mem
  <1>10. Parsed[f].disaster_type = READ_INTEGER(mem, L + 6, TypeBits)
    BY <1>3, <1>a, <1>6, <1>8, <1>9, ParseMessage DEF L
  <1>11. IntegerEnd(mem, L + 6) = L + 7
    BY <1>3, <1>a, <1>6, <1>8, Fields
  <1>12. SubSeq(mem, L + 6, (L + 7) - 1) = <<t>>
    <2>1. mem[L + 6] = Fixed(t, z)[6] /\ Len(mem) >= L + 26
      BY <1>8 DEF Holds
    <2>2. Fixed(t, z)[6] = t
      BY DEF Fixed
    <2>3. L + 6 \in 1 .. Len(mem) /\ (L + 7) - 1 = L + 6
      BY <1>a, <2>1
    <2> QED BY <1>6, <2>1, <2>2, <2>3, OneByte
  <1>13. READ_INTEGER(mem, L + 6, TypeBits) = (t - 48) % 2^TypeBits
    <2>1. TypeBits \in Nat
      BY MessageAssumption
    <2>2. Len(<<t>>) = 1
      OBVIOUS
    <2>3. ReadUpto(<<t>>, TypeBits)[1] = (t - 48) % 2^TypeBits
      BY <1>3, <2>1, OneDigit
    <2> QED BY <1>11, <1>12, <2>2, <2>3 DEF READ_INTEGER
  <1>14. (t - 48) % 2^TypeBits \notin {1, 2}
    <2>1. 2^TypeBits = 256
      BY DEF Deployed
    <2>2. t - 48 \in 0 .. 9 /\ t - 48 \notin {1, 2}
      BY DEF Digit
    <2>3. \A x \in 0 .. 9 : x % 256 = x
      OBVIOUS
    <2> QED BY <2>1, <2>2, <2>3
  <1> QED BY <1>10, <1>13, <1>14 DEF Displays, PictureOf

(* None of the other frames is taken for a warning: it fails a test of     *)
(* vpn_callback_wrapper() or of the parser, or the disaster type is not    *)
(* known.                                                                  *)
LEMMA OthersSilent ==
  ASSUME Deployed, NEW name \in DOMAIN Traffic, OtherFrame(name) \in Frames
  PROVE  ~Displays(OtherFrame(name))
  <1> DEFINE f == OtherFrame(name)
  <1>1. /\ Traffic[name] \in FrameType
        /\ IsForPort(f) /\ CarriesKeyword(f) => UnknownType(f)
    BY TrafficAssumption
  <1>2. f = [Traffic[name] EXCEPT !.udp_payload = @ \o <<NUL>>]
    BY DEF OtherFrame, Buffered
  <1>3. f.udp_len \in Int /\ f.udp_payload \in Seq(Int)
    <2>1. f.udp_len = Traffic[name].udp_len /\ f.udp_payload = Traffic[name].udp_payload \o <<NUL>>
      BY <1>1, <1>2 DEF FrameType
    <2>2. Traffic[name].udp_len \in 0 .. 2^16 - 1
      BY <1>1 DEF FrameType
    <2>3. Traffic[name].udp_payload \in Seq(0 .. 255)
      BY <1>1 DEF FrameType
    <2>4. 0 .. 255 \subseteq Int
      OBVIOUS
    <2>5. Traffic[name].udp_payload \in Seq(Int)
      <3> DEFINE u == Traffic[name].udp_payload
                 B == 0 .. 255
      <3>1. u \in Seq(B) /\ B \subseteq Int
        BY <2>3, <2>4
      <3> HIDE DEF u, B
      <3>2. u \in Seq(Int)
        BY <3>1, Widen
      <3> QED BY <3>2 DEF u
    <2>6. <<NUL>> \in Seq(Int)
      BY DEF NUL
    <2>7. f.udp_payload \in Seq(Int)
      <3> HIDE DEF f
      <3>1. \A u, v \in Seq(Int) : u \o v \in Seq(Int)
        OBVIOUS
      <3> QED BY <2>1, <2>5, <2>6, <3>1
    <2>8. f.udp_len \in Int
      <3>1. \A n \in Int : \A x \in 0 .. n - 1 : x \in Int
        OBVIOUS
      <3>2. 2^16 \in Int
        OBVIOUS
      <3> QED BY <2>1, <2>2, <3>1, <3>2
    <2> QED BY <2>7, <2>8
  <1>4. f \in Frames
    OBVIOUS
  <1> HIDE DEF f
  <1>5. udp_payload_len(f) \in Int /\ Len(Keyword) \in Nat
    <2>1. 2^16 \in Nat \ {0}
      OBVIOUS
    <2>2. \A n \in Nat \ {0} : (f.udp_len - 8) % n \in Int
      BY <1>3
    <2> QED BY <2>1, <2>2, PayloadLength DEF udp_payload_len
  <1>6. CASE ~IsForPort(f)
    BY <1>6 DEF Displays, f
  <1>7. CASE ~CarriesKeyword(f)
    <2>1. Parsed[f] = handle_disasvisor_message(f.udp_payload, udp_payload_len(f))
      BY <1>4 DEF Parsed
    <2>2. \/ udp_payload_len(f) < Len(Keyword)
          \/ SubSeq(f.udp_payload, 1, Len(Keyword)) # Keyword
      BY <1>5, <1>7 DEF CarriesKeyword
    <2>3. Parsed[f] = Ignored
      BY <2>1, <2>2 DEF handle_disasvisor_message
    <2> QED BY <2>3 DEF Displays, Ignored, f
  <1>8. CASE CarriesKeyword(f) /\ UnknownType(f)
    BY <1>3, <1>4, <1>8, UnknownSilent DEF f
  <1> QED BY <1>1, <1>6, <1>7, <1>8
-----------------------------------------------------------------------------
(***************************************************************************)
(* Everything on its way to the screen, in the network, in the ring, in    *)
(* the batch or in the job, is about an event that has been published.     *)
(***************************************************************************)
Arrived(n) == {f \in Frames : \/ \E e \in 1 .. n : f \in MessageFrames(e)
                              \/ \E name \in DOMAIN Traffic : f = OtherFrame(name)}

SiteInv == env \in Environment /\ site \in Nat \ {0} /\ site <= env.events

WayInv ==
    /\ net \in Seq(1 .. site)
    /\ q \in Seq(Arrived(site))
    /\ batch \in Seq(Arrived(site))

TextInv == job.stage # "none" => \E e \in 1 .. site : job.text = Letters(Info(e))

PublishInv == JobInv /\ ScreenInv /\ SiteInv /\ WayInv /\ TextInv /\ OnlyPublished

LEMMA DropFirst ==
  ASSUME NEW S, NEW s \in Seq(S), NEW i \in 1 .. Len(s), i = 1,
         NEW u, u = RemoveAt(s, i)
  PROVE  /\ Len(s) \in Nat /\ Len(u) = Len(s) - 1
         /\ \A j \in 1 .. Len(u) : u[j] = s[j + 1] /\ j + 1 \in 1 .. Len(s) /\ 1 < j + 1
  <1>1. RemoveAt(s, 1) = SubSeq(s, 1, 0) \o SubSeq(s, 2, Len(s))
    BY DEF RemoveAt
  <1>2. SubSeq(s, 1, 0) = <<>> /\ SubSeq(s, 2, Len(s)) \in Seq(S)
    OBVIOUS
  <1>3. u = SubSeq(s, 2, Len(s))
    BY <1>1, <1>2
  <1>4. Len(s) \in Nat /\ Len(s) >= 1 /\ 2 \in Int
    OBVIOUS
  <1>5. Len(u) = Len(s) - 1
    BY <1>3, <1>4
  <1>6. \A j \in 1 .. Len(s) - 1 : u[j] = s[j + 1]
    BY <1>3, <1>4
  <1> QED BY <1>4, <1>5, <1>6

LEMMA RemoveAtType ==
  ASSUME NEW S, NEW s \in Seq(S), NEW i \in 1 .. Len(s)
  PROVE  RemoveAt(s, i) \in Seq(S)
  <1>1. SubSeq(s, 1, i - 1) \in Seq(S) /\ SubSeq(s, i + 1, Len(s)) \in Seq(S)
    OBVIOUS
  <1> QED BY <1>1 DEF RemoveAt

LEMMA Published == SiteInv => 1 .. site \subseteq Event /\ env.others \subseteq DOMAIN Traffic
  <1> SUFFICES ASSUME SiteInv PROVE 1 .. site \subseteq Event /\ env.others \subseteq DOMAIN Traffic
    OBVIOUS
  <1>1. env \in Environment /\ env \in EnvironmentType
    BY NotifyAssumption DEF SiteInv
  <1>2. env.events \in Nat
    BY <1>1 DEF EnvironmentType
  <1>3. 1 .. site \subseteq 1 .. env.events
    BY <1>2 DEF SiteInv
  <1>4. 1 .. env.events \subseteq Event
    BY <1>1 DEF Event
  <1>5. env.others \subseteq DOMAIN Traffic
    BY <1>1 DEF EnvironmentType
  <1> QED BY <1>3, <1>4, <1>5

LEMMA PublishInit == Deployed /\ Init => PublishInv
  <1> SUFFICES ASSUME Deployed, Init PROVE PublishInv
    OBVIOUS
  <1>1. JobInv /\ ScreenInv
    BY DialogInit DEF DialogInv
  <1>2. env.events \in Nat \ {0}
    BY NotifyAssumption DEF Init, EnvironmentType
  <1>3. SiteInv
    BY <1>2 DEF Init, SiteInv
  <1>4. WayInv
    BY DEF Init, WayInv, Ring!Init
  <1>5. TextInv /\ OnlyPublished
    BY DEF Init, TextInv, OnlyPublished, NoJob, Blank
  <1> QED BY <1>1, <1>3, <1>4, <1>5 DEF PublishInv

(* The packet at hand: if it is displayed, its text has been published. *)
LEMMA HandledText ==
  ASSUME Deployed, PublishInv, NEW f \in Arrived(site), Displays(f)
  PROVE  \E e \in 1 .. site : TextOf(f) = Letters(Info(e))
  <1>1. f \in Frames /\ SiteInv
    BY DEF Arrived, PublishInv
  <1>2. PICK e \in 1 .. site : f \in MessageFrames(e)
    BY <1>1, OthersSilent DEF Arrived
  <1>3. e \in Nat \ {0}
    BY <1>1 DEF SiteInv
  <1> QED BY <1>1, <1>2, <1>3, MessageText

LEMMA SiteStep == SiteInv /\ [Next]_vars => SiteInv' /\ site' \in site .. site + 1
  <1> SUFFICES ASSUME SiteInv, [Next]_vars PROVE SiteInv' /\ site' \in site .. site + 1
    OBVIOUS
  <1>1. CASE Earthquake /\ UNCHANGED env
    <2>1. env.events \in Nat
      BY NotifyAssumption DEF EnvironmentType, SiteInv
    <2> QED BY <1>1, <2>1 DEF Earthquake, SiteInv
  <1>2. CASE UNCHANGED <<env, site>>
    BY <1>2 DEF SiteInv
  <1>3. CASE UNCHANGED vars
    BY <1>2, <1>3 DEF vars, servervars
  <1>4. CASE Next /\ ~Earthquake
    BY <1>2, <1>4 DEF Next, Poll, ServerDies, ServerRestarts, NetDeliver, NetLose, NetDuplicate,
       OtherArrives, Receive, HandlePacket, ShowPicture, ShowText, GuestGraphics, servervars
  <1> QED BY <1>1, <1>3, <1>4 DEF Next

LEMMA WayStep == Deployed /\ PublishInv /\ [Next]_vars => WayInv'
  <1> SUFFICES ASSUME Deployed, PublishInv, [Next]_vars PROVE WayInv'
    OBVIOUS
  <1> DEFINE A == Arrived(site)
  <1>1. net \in Seq(1 .. site) /\ q \in Seq(A) /\ batch \in Seq(A)
    BY DEF PublishInv, WayInv
  <1>2. SiteInv /\ site' \in site .. site + 1 /\ site \in Nat \ {0}
    BY SiteStep DEF PublishInv, SiteInv
  <1>3. 1 .. site \subseteq 1 .. site' /\ A \subseteq Arrived(site')
    BY <1>2 DEF Arrived
  <1>4. SUFFICES net' \in Seq(1 .. site) \cup Seq(1 .. site') /\ q' \in Seq(A) /\ batch' \in Seq(A)
    <2>1. net' \in Seq(1 .. site')
      BY <1>3, <1>4, Widen
    <2>2. q' \in Seq(Arrived(site')) /\ batch' \in Seq(Arrived(site'))
      <3> HIDE DEF A
      <3> QED BY <1>3, <1>4, Widen
    <2> QED BY <2>1, <2>2 DEF WayInv
  <1>5. CASE UNCHANGED <<net, recvvars>>
    BY <1>1, <1>5 DEF recvvars
  <1>6. CASE Poll
    <2>1. net' = Append(net, site) /\ UNCHANGED <<q, batch>> /\ site \in 1 .. site
      BY <1>2, <1>6 DEF Poll, recvvars
    <2> QED BY <1>1, <2>1
  <1>7. CASE NetDeliver
    <2>1. PICK i \in 1 .. Len(net) : /\ \E f \in MessageFrames(net[i]) : Ring!Arrive(f)
                                     /\ net' = RemoveAt(net, i)
      BY <1>7 DEF NetDeliver
    <2>2. PICK f \in MessageFrames(net[i]) : q' = Append(q, f) /\ UNCHANGED batch
      BY <2>1 DEF Ring!Arrive
    <2>3. net[i] \in 1 .. site
      BY <1>1, ElementOf
    <2>4. net[i] \in Event
      BY <1>2, <2>3, Published
    <2>5. f \in A
      BY <2>2, <2>3, <2>4 DEF Arrived, Frames
    <2>6. net' \in Seq(1 .. site)
      BY <1>1, <2>1, RemoveAtType
    <2> HIDE DEF A
    <2> QED BY <1>1, <2>2, <2>5, <2>6
  <1>8. CASE NetLose
    <2>1. PICK i \in 1 .. Len(net) : net' = RemoveAt(net, i) /\ UNCHANGED <<q, batch>>
      BY <1>8 DEF NetLose, recvvars
    <2> QED BY <1>1, <2>1, RemoveAtType
  <1>9. CASE NetDuplicate
    <2>1. PICK i \in 1 .. Len(net) : net' = Append(net, net[i]) /\ UNCHANGED <<q, batch>>
      BY <1>9 DEF NetDuplicate, recvvars
    <2>2. net[i] \in 1 .. site
      BY <1>1, ElementOf
    <2>3. Append(net, net[i]) \in Seq(1 .. site)
      <3> DEFINE N == 1 .. site
      <3>1. net \in Seq(N) /\ net[i] \in N
        BY <1>1, <2>2
      <3> HIDE DEF N
      <3>2. Append(net, net[i]) \in Seq(N)
        BY <3>1
      <3> QED BY <3>2 DEF N
    <2> QED BY <1>1, <2>1, <2>3
  <1>10. CASE OtherArrives
    <2>1. PICK name \in env.others : Ring!Arrive(OtherFrame(name)) /\ UNCHANGED net
      BY <1>10 DEF OtherArrives
    <2>2. q' = Append(q, OtherFrame(name)) /\ UNCHANGED batch
      BY <2>1 DEF Ring!Arrive
    <2>3. OtherFrame(name) \in Frames
      <3>1. name \in UNION {e.others : e \in Environment}
        BY <1>2 DEF SiteInv
      <3> DEFINE O == {OtherFrame(n) : n \in UNION {e.others : e \in Environment}}
      <3>2. OtherFrame(name) \in O
        BY <3>1
      <3>3. Frames = (UNION {MessageFrames(e) : e \in Event}) \cup O
        BY DEF Frames
      <3> HIDE DEF O
      <3> QED BY <3>2, <3>3
    <2>4. OtherFrame(name) \in A
      BY <1>2, <2>3, Published DEF Arrived
    <2> HIDE DEF A
    <2> QED BY <1>1, <2>1, <2>2, <2>4
  <1>11. CASE Receive
    <2>1. PICK k \in 1 .. BATCH : Ring!Deliver(k) /\ UNCHANGED net
      BY <1>11 DEF Receive
    <2>2. /\ k <= Len(q) /\ k \in Int /\ 1 <= k
          /\ batch' = SubSeq(q, 1, k) /\ q' = SubSeq(q, k + 1, Len(q))
      BY <2>1 DEF Ring!Deliver
    <2> HIDE DEF A
    <2> QED BY <1>1, <2>1, <2>2
  <1>12. CASE HandlePacket
    <2>1. /\ batch # <<>> /\ UNCHANGED <<net, q>>
          /\ batch' = <<>> \/ batch' = Tail(batch)
      BY <1>12 DEF HandlePacket
    <2> HIDE DEF A
    <2>2. Tail(batch) \in Seq(A) /\ <<>> \in Seq(A)
      BY <1>1, <2>1
    <2> QED BY <1>1, <2>1, <2>2
  <1>13. CASE UNCHANGED vars
    BY <1>5, <1>13 DEF vars
  <1>14. CASE Earthquake \/ ServerDies \/ ServerRestarts \/ ShowPicture \/ ShowText \/ GuestGraphics
    BY <1>5, <1>14 DEF Earthquake, ServerDies, ServerRestarts, ShowPicture, ShowText, GuestGraphics
  <1> QED BY <1>6, <1>7, <1>8, <1>9, <1>10, <1>11, <1>12, <1>13, <1>14 DEF Next
LEMMA PublishStep == Deployed /\ PublishInv /\ [Next]_vars => PublishInv'
  <1> SUFFICES ASSUME Deployed, PublishInv, [Next]_vars PROVE PublishInv'
    OBVIOUS
  <1>1. WayInv' /\ SiteInv' /\ site' \in site .. site + 1 /\ site \in Nat
    BY WayStep, SiteStep DEF PublishInv, SiteInv
  <1>2. 1 .. site \subseteq 1 .. site'
    BY <1>1
  <1> USE DEF JobInv, ScreenInv, TextInv, OnlyPublished, Visible
  <1>3. JobInv /\ ScreenInv /\ TextInv /\ OnlyPublished
    BY DEF PublishInv
  <1>4. SUFFICES (JobInv /\ ScreenInv /\ TextInv /\ OnlyPublished)'
    BY <1>1 DEF PublishInv
  <1>5. CASE UNCHANGED <<job, vgavars>>
    BY <1>2, <1>3, <1>5 DEF vgavars
  <1>6. CASE HandlePacket
    <2> DEFINE p == Head(batch)
    <2>1. UNCHANGED <<graphics, vga_active, screen, left, site>>
      BY <1>6 DEF HandlePacket, vgavars, servervars
    <2>2. \/ job' = NoJob
          \/ /\ Displays(p)
             /\ \E n : n # 0 /\ job' = [stage |-> "picture", picture |-> n, text |-> TextOf(p)]
      BY <1>6 DEF HandlePacket, Displays, TextOf
    <2>3. CASE job' = NoJob
      BY <1>3, <2>1, <2>3 DEF NoJob
    <2>4. CASE ~(job' = NoJob)
      <3>1. PICK n : n # 0 /\ job' = [stage |-> "picture", picture |-> n, text |-> TextOf(p)]
        BY <2>2, <2>4
      <3>2. p \in Arrived(site)
        <4>1. batch # <<>> /\ batch \in Seq(Arrived(site))
          BY <1>6 DEF HandlePacket, PublishInv, WayInv
        <4> QED BY <4>1
      <3>3. PICK e \in 1 .. site : TextOf(p) = Letters(Info(e))
        BY <2>2, <2>4, <3>2, HandledText
      <3> HIDE DEF p
      <3>4. /\ job'.stage = "picture" /\ job'.picture = n /\ job'.text = Letters(Info(e))
            /\ job' = [stage |-> job'.stage, picture |-> job'.picture, text |-> job'.text]
        BY <3>1, <3>3
      <3> QED BY <1>3, <2>1, <3>1, <3>3, <3>4
    <2> QED BY <2>3, <2>4
  <1>7. CASE ShowPicture
    <2>1. /\ job.stage = "picture" /\ vga_active' = graphics /\ job' = [job EXCEPT !.stage = "text"]
          /\ screen' = IF vga_active' THEN [picture |-> job.picture, of |-> job.text, text |-> <<>>]
                       ELSE screen
          /\ UNCHANGED <<graphics, site>>
      BY <1>7 DEF ShowPicture, vga_is_ready, servervars
    <2>2. CASE graphics
      BY <1>3, <2>1, <2>2
    <2>3. CASE ~graphics
      BY <1>3, <2>1, <2>3 DEF Blank
    <2> QED BY <1>3, <2>2, <2>3
  <1>8. CASE ShowText
    <2>1. /\ job.stage = "text" /\ job' = NoJob
          /\ screen' = IF Visible THEN [screen EXCEPT !.text = job.text] ELSE screen
          /\ UNCHANGED <<graphics, vga_active, left, site>>
      BY <1>8 DEF ShowText, servervars
    <2> QED BY <1>3, <2>1 DEF NoJob
  <1>9. CASE GuestGraphics
    <2>1. /\ graphics' = ~graphics /\ screen' = Blank /\ UNCHANGED <<job, vga_active, site>>
          /\ left' = (job.stage = "text" /\ vga_active)
      BY <1>9 DEF GuestGraphics, servervars
    <2> QED BY <1>3, <2>1 DEF Blank
  <1>10. CASE UNCHANGED vars
    BY <1>5, <1>10 DEF vars
  <1>11. CASE Earthquake \/ Poll \/ ServerDies \/ ServerRestarts
    BY <1>5, <1>11 DEF Earthquake, Poll, ServerDies, ServerRestarts
  <1>12. CASE NetDeliver \/ NetLose \/ NetDuplicate \/ OtherArrives \/ Receive
    BY <1>5, <1>12 DEF NetDeliver, NetLose, NetDuplicate, OtherArrives, Receive
  <1> QED BY <1>6, <1>7, <1>8, <1>9, <1>10, <1>11, <1>12 DEF Next

LEMMA PublishAlways == ASSUME Deployed PROVE Spec => []PublishInv
  <1>1. Init => PublishInv
    BY PublishInit
  <1>2. PublishInv /\ [Next]_vars => PublishInv'
    BY PublishStep
  <1> QED BY <1>1, <1>2, PTL DEF Spec

(* vpn_callback_wrapper(), handle_disasvisor_message() and the drawing of  *)
(* the text, end to end: whatever the network does to messages, whatever   *)
(* bytes earlier frames have left behind any frame in the receive buffers, *)
(* and for every set of other frames of which none carries the keyword to  *)
(* DisasVisor's port (or only with a type that is not known), the text on  *)
(* the screen is published information, letter by letter, provided that    *)
(* the public server's page is never empty.                                *)
THEOREM OnlyPublishedShown == ASSUME Deployed PROVE Spec => []OnlyPublished
  <1>1. PublishInv => OnlyPublished
    BY DEF PublishInv
  <1> QED BY <1>1, PublishAlways, PTL
-----------------------------------------------------------------------------
(***************************************************************************)
(* Order.  On a network that keeps it, everything on its way to the screen *)
(* is in the order of the events: what is shown, the job, the batch, the   *)
(* ring, the network, and what the public server says now.                 *)
(***************************************************************************)
DistinctTexts == \A d, e \in Event : Letters(Info(d)) = Letters(Info(e)) => d = e

(* The events that a frame, or the job, will show: one, or none *)
About(f) == {e \in Event : Displays(f) /\ TextOf(f) = Letters(Info(e))}

JobEvents == {e \in Event : job.stage # "none" /\ job.text = Letters(Info(e))}

NotAfter(S, T) == \A d \in S, e \in T : d <= e

(* A frame is not about anything that has not been published. *)
LEMMA AboutWhat ==
  ASSUME Deployed, DistinctTexts, NEW n \in Nat, 1 .. n \subseteq Event
  PROVE  /\ \A f \in Arrived(n) : About(f) \subseteq 1 .. n
         /\ \A d \in 1 .. n : \A f \in MessageFrames(d) : f \in Frames => About(f) \subseteq {d}
  <1>1. ASSUME NEW d \in 1 .. n, NEW f \in MessageFrames(d), f \in Frames
        PROVE  About(f) \subseteq {d}
    <2>1. TextOf(f) = Letters(Info(d))
      BY <1>1, MessageText
    <2>2. d \in Event
      OBVIOUS
    <2> QED BY <2>1, <2>2 DEF About, DistinctTexts
  <1>2. ASSUME NEW f \in Arrived(n) PROVE About(f) \subseteq 1 .. n
    <2>1. f \in Frames
      BY DEF Arrived
    <2>2. CASE \E d \in 1 .. n : f \in MessageFrames(d)
      BY <1>1, <2>1, <2>2
    <2>3. CASE \E name \in DOMAIN Traffic : f = OtherFrame(name)
      BY <2>1, <2>3, OthersSilent DEF About
    <2> QED BY <2>2, <2>3 DEF Arrived
  <1> QED BY <1>1, <1>2

BatchOrder ==
    /\ \A j \in 1 .. Len(batch) : NotAfter({shown} \cup JobEvents, About(batch[j]))
    /\ \A i, j \in 1 .. Len(batch) : i < j => NotAfter(About(batch[i]), About(batch[j]))

RingOrder ==
    /\ \A j \in 1 .. Len(q) : NotAfter({shown} \cup JobEvents, About(q[j]))
    /\ \A i \in 1 .. Len(batch) : \A j \in 1 .. Len(q) : NotAfter(About(batch[i]), About(q[j]))
    /\ \A i, j \in 1 .. Len(q) : i < j => NotAfter(About(q[i]), About(q[j]))

NetOrder ==
    /\ \A j \in 1 .. Len(net) : NotAfter({shown} \cup JobEvents, {net[j]})
    /\ \A i \in 1 .. Len(batch) : \A j \in 1 .. Len(net) : NotAfter(About(batch[i]), {net[j]})
    /\ \A i \in 1 .. Len(q) : \A j \in 1 .. Len(net) : NotAfter(About(q[i]), {net[j]})
    /\ \A i, j \in 1 .. Len(net) : i < j => net[i] <= net[j]

ShownOrder == shown \in 0 .. site /\ NotAfter({shown}, JobEvents)

OrderInv ==
    Calm => ShownOrder /\ BatchOrder /\ RingOrder /\ NetOrder

LEMMA OrderInit == Init => OrderInv
  <1> SUFFICES ASSUME Init PROVE OrderInv
    OBVIOUS
  <1>1. JobEvents = {}
    BY DEF Init, JobEvents, NoJob
  <1>2. batch = <<>> /\ q = <<>> /\ net = <<>> /\ shown = 0 /\ site = 1
    BY DEF Init, Ring!Init
  <1> QED BY <1>1, <1>2 DEF OrderInv, ShownOrder, BatchOrder, RingOrder, NetOrder, NotAfter
(* What a step of the network adds is not before anything in front of it. *)
LEMMA OrderNet ==
  ASSUME Deployed, DistinctTexts, PublishInv, OrderInv, Calm, UNCHANGED env,
         Poll \/ NetDeliver \/ NetLose \/ NetDuplicate \/ OtherArrives
  PROVE  OrderInv'
  <1>1. /\ site \in Nat \ {0} /\ SiteInv
        /\ 1 .. site \subseteq Event
        /\ net \in Seq(1 .. site) /\ q \in Seq(Arrived(site)) /\ batch \in Seq(Arrived(site))
    BY Published DEF PublishInv, SiteInv, WayInv
  <1>2. /\ \A f \in Arrived(site) : About(f) \subseteq 1 .. site
        /\ \A d \in 1 .. site : \A f \in MessageFrames(d) : f \in Frames => About(f) \subseteq {d}
    BY <1>1, AboutWhat
  <1>3. JobEvents \subseteq 1 .. site
    BY <1>1 DEF PublishInv, TextInv, JobEvents, DistinctTexts
  <1>4. ShownOrder /\ BatchOrder /\ RingOrder /\ NetOrder
    BY DEF OrderInv
  <1>5. UNCHANGED <<job, shown, site, batch>>
    BY DEF Poll, NetDeliver, NetLose, NetDuplicate, OtherArrives, servervars, vgavars, recvvars, Ring!Arrive
  <1>6. JobEvents' = JobEvents
    BY <1>5 DEF JobEvents
  <1>7. ShownOrder' /\ BatchOrder'
    BY <1>4, <1>5, <1>6 DEF ShownOrder, BatchOrder
  <1>8. CASE Poll
    <2>1. net' = Append(net, site) /\ UNCHANGED q
      BY <1>8 DEF Poll, recvvars
    <2>2. RingOrder'
      BY <1>4, <1>5, <1>6, <2>1 DEF RingOrder
    <2>3. /\ Len(net') = Len(net) + 1 /\ Len(net) \in Nat
          /\ net'[Len(net) + 1] = site
          /\ \A j \in 1 .. Len(net) : net'[j] = net[j] /\ net[j] \in 1 .. site
      BY <1>1, <2>1
    <2>4. \A j \in 1 .. Len(net') : (j \in 1 .. Len(net) /\ net'[j] = net[j]) \/ (j = Len(net) + 1 /\ net'[j] = site)
      BY <2>3
    <2>5. /\ NotAfter({shown} \cup JobEvents, {site})
          /\ \A i \in 1 .. Len(batch) : NotAfter(About(batch[i]), {site})
          /\ \A i \in 1 .. Len(q) : NotAfter(About(q[i]), {site})
      <3>1. \A i \in 1 .. Len(batch) : batch[i] \in Arrived(site)
        BY <1>1, ElementOf
      <3>2. \A i \in 1 .. Len(q) : q[i] \in Arrived(site)
        BY <1>1, ElementOf
      <3>3. \A S \in SUBSET (0 .. site) : NotAfter(S, {site})
        BY DEF NotAfter
      <3>4. {shown} \cup JobEvents \in SUBSET (0 .. site)
        BY <1>3, <1>4 DEF ShownOrder
      <3>5. \A f \in Arrived(site) : About(f) \in SUBSET (0 .. site)
        BY <1>2
      <3> QED BY <3>1, <3>2, <3>3, <3>4, <3>5
    <2>6. \A i, j \in 1 .. Len(net') : i < j => net'[i] <= net'[j]
      <3> SUFFICES ASSUME NEW i \in 1 .. Len(net'), NEW j \in 1 .. Len(net'), i < j PROVE net'[i] <= net'[j]
        OBVIOUS
      <3>1. i \in 1 .. Len(net)
        BY <2>3
      <3>2. CASE j \in 1 .. Len(net)
        BY <1>4, <2>3, <3>1, <3>2 DEF NetOrder
      <3>3. CASE j = Len(net) + 1
        BY <2>3, <3>1, <3>3
      <3> QED BY <2>4, <3>2, <3>3
    <2>7. NetOrder'
      BY <1>4, <1>5, <1>6, <2>1, <2>4, <2>5, <2>6 DEF NetOrder
    <2> QED BY <1>7, <2>2, <2>7 DEF OrderInv
  <1>9. CASE NetDeliver
    <2>1. PICK i \in 1 .. Len(net) : /\ i = 1
                                     /\ \E f \in MessageFrames(net[i]) : Ring!Arrive(f)
                                     /\ net' = RemoveAt(net, i)
      BY <1>9 DEF NetDeliver, Calm
    <2>2. PICK f \in MessageFrames(net[i]) : q' = Append(q, f)
      BY <2>1 DEF Ring!Arrive
    <2>3. net[i] \in 1 .. site
      BY <1>1, ElementOf
    <2>4. f \in Frames
      BY <1>1, <2>3 DEF Frames
    <2>5. About(f) \subseteq {net[i]}
      BY <1>2, <2>2, <2>3, <2>4
    <2>6. /\ Len(q') = Len(q) + 1 /\ Len(q) \in Nat
          /\ \A j \in 1 .. Len(q') : (j \in 1 .. Len(q) /\ q'[j] = q[j]) \/ (j = Len(q) + 1 /\ q'[j] = f)
      BY <1>1, <2>2
    <2>7. /\ Len(net') = Len(net) - 1 /\ Len(net) \in Nat
          /\ \A j \in 1 .. Len(net') : net'[j] = net[j + 1] /\ j + 1 \in 1 .. Len(net) /\ 1 < j + 1
      BY <1>1, <2>1, DropFirst
    <2>8. /\ NotAfter({shown} \cup JobEvents, About(f))
          /\ \A j \in 1 .. Len(batch) : NotAfter(About(batch[j]), About(f))
          /\ \A j \in 1 .. Len(q) : NotAfter(About(q[j]), About(f))
          /\ \A j \in 1 .. Len(net') : NotAfter(About(f), {net'[j]})
      <3>1. /\ NotAfter({shown} \cup JobEvents, {net[i]})
            /\ \A j \in 1 .. Len(batch) : NotAfter(About(batch[j]), {net[i]})
            /\ \A j \in 1 .. Len(q) : NotAfter(About(q[j]), {net[i]})
        BY <1>4 DEF NetOrder
      <3>2. \A j \in 1 .. Len(net') : net[i] <= net'[j]
        BY <1>4, <2>1, <2>7 DEF NetOrder
      <3> QED BY <2>5, <3>1, <3>2 DEF NotAfter
    <2>9. RingOrder'
      <3>1. \A k, j \in 1 .. Len(q') : k < j => NotAfter(About(q'[k]), About(q'[j]))
        <4> SUFFICES ASSUME NEW k \in 1 .. Len(q'), NEW j \in 1 .. Len(q'), k < j
                     PROVE  NotAfter(About(q'[k]), About(q'[j]))
          OBVIOUS
        <4>1. k \in 1 .. Len(q) /\ q'[k] = q[k]
          BY <2>6
        <4>2. CASE j \in 1 .. Len(q) /\ q'[j] = q[j]
          BY <1>4, <4>1, <4>2 DEF RingOrder
        <4>3. CASE j = Len(q) + 1 /\ q'[j] = f
          BY <2>8, <4>1, <4>3
        <4> QED BY <2>6, <4>2, <4>3
      <3>2. \A j \in 1 .. Len(q') : NotAfter({shown} \cup JobEvents, About(q'[j]))
        BY <1>4, <2>6, <2>8 DEF RingOrder
      <3>3. \A k \in 1 .. Len(batch) : \A j \in 1 .. Len(q') : NotAfter(About(batch[k]), About(q'[j]))
        BY <1>4, <2>6, <2>8 DEF RingOrder
      <3> QED BY <1>5, <1>6, <3>1, <3>2, <3>3 DEF RingOrder
    <2>10. NetOrder'
      <3>1. \A j \in 1 .. Len(net') : NotAfter({shown} \cup JobEvents, {net'[j]})
        BY <1>4, <2>7 DEF NetOrder
      <3>2. \A k \in 1 .. Len(batch) : \A j \in 1 .. Len(net') : NotAfter(About(batch[k]), {net'[j]})
        BY <1>4, <2>7 DEF NetOrder
      <3>3. \A k \in 1 .. Len(q') : \A j \in 1 .. Len(net') : NotAfter(About(q'[k]), {net'[j]})
        BY <1>4, <2>6, <2>7, <2>8 DEF NetOrder
      <3>4. \A k, j \in 1 .. Len(net') : k < j => net'[k] <= net'[j]
        <4> SUFFICES ASSUME NEW k \in 1 .. Len(net'), NEW j \in 1 .. Len(net'), k < j PROVE net'[k] <= net'[j]
          OBVIOUS
        <4>1. /\ k + 1 \in 1 .. Len(net) /\ net'[k] = net[k + 1]
              /\ j + 1 \in 1 .. Len(net) /\ net'[j] = net[j + 1] /\ k + 1 < j + 1
          BY <2>7
        <4> QED BY <1>4, <4>1 DEF NetOrder
      <3> QED BY <1>5, <1>6, <3>1, <3>2, <3>3, <3>4 DEF NetOrder
    <2> QED BY <1>7, <2>9, <2>10 DEF OrderInv
  <1>10. CASE NetLose \/ NetDuplicate
    BY <1>10 DEF NetLose, NetDuplicate, Calm
  <1>11. CASE OtherArrives
    <2>1. PICK name \in env.others : Ring!Arrive(OtherFrame(name)) /\ UNCHANGED net
      BY <1>11 DEF OtherArrives
    <2> DEFINE f == OtherFrame(name)
    <2>2. q' = Append(q, f)
      BY <2>1 DEF Ring!Arrive
    <2>3. name \in DOMAIN Traffic
      BY <1>1, Published
    <2>4. f \in Frames
      <3>1. name \in UNION {e.others : e \in Environment}
        BY <1>1 DEF SiteInv
      <3> DEFINE O == {OtherFrame(n) : n \in UNION {e.others : e \in Environment}}
      <3>2. OtherFrame(name) \in O
        BY <3>1
      <3>3. Frames = (UNION {MessageFrames(e) : e \in Event}) \cup O
        BY DEF Frames
      <3> HIDE DEF O
      <3> QED BY <3>2, <3>3
    <2>5. About(f) = {}
      BY <2>3, <2>4, OthersSilent DEF About
    <2> HIDE DEF f
    <2>6. /\ Len(q') = Len(q) + 1 /\ Len(q) \in Nat
          /\ \A j \in 1 .. Len(q') : (j \in 1 .. Len(q) /\ q'[j] = q[j]) \/ (j = Len(q) + 1 /\ q'[j] = f)
      BY <1>1, <2>2
    <2>7. \A S : NotAfter(S, About(f)) /\ NotAfter(About(f), S)
      BY <2>5 DEF NotAfter
    <2>8. RingOrder'
      <3>1. \A k, j \in 1 .. Len(q') : k < j => NotAfter(About(q'[k]), About(q'[j]))
        BY <1>4, <2>6, <2>7 DEF RingOrder
      <3>2. \A j \in 1 .. Len(q') : NotAfter({shown} \cup JobEvents, About(q'[j]))
        BY <1>4, <2>6, <2>7 DEF RingOrder
      <3>3. \A k \in 1 .. Len(batch) : \A j \in 1 .. Len(q') : NotAfter(About(batch[k]), About(q'[j]))
        BY <1>4, <2>6, <2>7 DEF RingOrder
      <3> QED BY <1>5, <1>6, <3>1, <3>2, <3>3 DEF RingOrder
    <2>9. NetOrder'
      <3>1. \A k \in 1 .. Len(q') : \A j \in 1 .. Len(net') : NotAfter(About(q'[k]), {net'[j]})
        BY <1>4, <2>1, <2>6, <2>7 DEF NetOrder
      <3> QED BY <1>4, <1>5, <1>6, <2>1, <3>1 DEF NetOrder
    <2> QED BY <1>7, <2>8, <2>9 DEF OrderInv
  <1> QED BY <1>8, <1>9, <1>10, <1>11
(* The batch moves from the ring to the job, and the job to the screen. *)
LEMMA OrderReceive ==
  ASSUME Deployed, DistinctTexts, PublishInv, OrderInv, Calm, UNCHANGED env,
         Receive \/ HandlePacket \/ ShowPicture \/ ShowText
  PROVE  OrderInv' /\ shown' >= shown
  <1>1. /\ site \in Nat \ {0} /\ SiteInv
        /\ 1 .. site \subseteq Event
        /\ net \in Seq(1 .. site) /\ q \in Seq(Arrived(site)) /\ batch \in Seq(Arrived(site))
    BY Published DEF PublishInv, SiteInv, WayInv
  <1>2. JobEvents \subseteq 1 .. site
    BY <1>1 DEF PublishInv, TextInv, JobEvents, DistinctTexts
  <1>3. ShownOrder /\ BatchOrder /\ RingOrder /\ NetOrder /\ shown \in Nat
    BY DEF OrderInv, ShownOrder
  <1>4. UNCHANGED <<site, net>>
    BY DEF Receive, HandlePacket, ShowPicture, ShowText, servervars
  <1>5. CASE Receive
    <2>1. UNCHANGED <<shown, job>>
      BY <1>5 DEF Receive, vgavars
    <2>2. JobEvents' = JobEvents
      BY <2>1 DEF JobEvents
    <2>3. PICK k \in 1 .. BATCH : Ring!Deliver(k)
      BY <1>5 DEF Receive
    <2>4. /\ k <= Len(q) /\ k \in Int /\ 1 <= k /\ Len(q) \in Nat
          /\ batch' = SubSeq(q, 1, k) /\ q' = SubSeq(q, k + 1, Len(q))
      BY <1>1, <2>3 DEF Ring!Deliver
    <2>5. /\ \A j \in 1 .. Len(batch') : j \in 1 .. Len(q) /\ j <= k /\ batch'[j] = q[j]
          /\ \A j \in 1 .. Len(q') : k + j \in 1 .. Len(q) /\ q'[j] = q[k + j]
      <3>1. /\ Len(batch') = k
            /\ \A j \in 1 .. k : batch'[j] = q[j]
        BY <1>1, <2>4
      <3>2. Len(q') = Len(q) - k
        BY <1>1, <2>4
      <3>3. \A j \in 1 .. Len(q) - k : q'[j] = q[k + j]
        BY <1>1, <2>4
      <3> QED BY <2>4, <3>1, <3>2, <3>3
    <2>6. BatchOrder'
      BY <1>3, <2>1, <2>2, <2>5 DEF BatchOrder, RingOrder
    <2>7. RingOrder'
      <3>1. \A j \in 1 .. Len(q') : NotAfter({shown} \cup JobEvents, About(q'[j]))
        BY <1>3, <2>5 DEF RingOrder
      <3>2. ASSUME NEW i \in 1 .. Len(batch'), NEW j \in 1 .. Len(q')
            PROVE  NotAfter(About(batch'[i]), About(q'[j]))
        <4>1. i \in 1 .. Len(q) /\ k + j \in 1 .. Len(q) /\ i < k + j
          BY <2>4, <2>5
        <4> QED BY <1>3, <2>5, <4>1 DEF RingOrder
      <3>3. ASSUME NEW i \in 1 .. Len(q'), NEW j \in 1 .. Len(q'), i < j
            PROVE  NotAfter(About(q'[i]), About(q'[j]))
        <4>1. k + i \in 1 .. Len(q) /\ k + j \in 1 .. Len(q) /\ k + i < k + j
          BY <2>4, <2>5, <3>3
        <4> QED BY <1>3, <2>5, <4>1 DEF RingOrder
      <3> QED BY <2>1, <2>2, <3>1, <3>2, <3>3 DEF RingOrder
    <2>8. NetOrder'
      <3>1. \A i \in 1 .. Len(batch') : \A j \in 1 .. Len(net) : NotAfter(About(batch'[i]), {net[j]})
        BY <1>3, <2>5 DEF NetOrder
      <3>2. \A i \in 1 .. Len(q') : \A j \in 1 .. Len(net) : NotAfter(About(q'[i]), {net[j]})
        BY <1>3, <2>5 DEF NetOrder
      <3> QED BY <1>3, <1>4, <2>1, <2>2, <3>1, <3>2 DEF NetOrder
    <2>9. ShownOrder'
      BY <1>3, <1>4, <2>1, <2>2 DEF ShownOrder
    <2> QED BY <1>3, <2>1, <2>6, <2>7, <2>8, <2>9 DEF OrderInv
  <1>6. CASE HandlePacket
    <2> DEFINE p == Head(batch)
    <2>1. UNCHANGED <<shown, q>> /\ batch # <<>> /\ (batch' = <<>> \/ batch' = Tail(batch))
      BY <1>6 DEF HandlePacket, vgavars
    <2>2. \/ job' = NoJob
          \/ /\ Displays(p)
             /\ \E n : n # 0 /\ job' = [stage |-> "picture", picture |-> n, text |-> TextOf(p)]
      BY <1>6 DEF HandlePacket, Displays, TextOf
    <2>3. JobEvents' \subseteq About(p)
      <3>1. CASE job' = NoJob
        BY <3>1 DEF JobEvents, NoJob
      <3>2. CASE Displays(p) /\ job'.text = TextOf(p)
        BY <3>2 DEF JobEvents, About
      <3> QED BY <2>2, <3>1, <3>2
    <2>4. p = batch[1] /\ 1 \in 1 .. Len(batch) /\ Len(batch) \in Nat
      BY <1>1, <2>1
    <2>5. \A j \in 1 .. Len(batch') : /\ j + 1 \in 1 .. Len(batch) /\ 1 < j + 1
                                      /\ batch'[j] = batch[j + 1]
      BY <1>1, <2>1, WithoutHead
    <2> HIDE DEF p
    <2>6. /\ \A j \in 1 .. Len(batch) : 1 < j => NotAfter({shown} \cup About(p), About(batch[j]))
          /\ \A j \in 1 .. Len(q) : NotAfter({shown} \cup About(p), About(q[j]))
          /\ \A j \in 1 .. Len(net) : NotAfter({shown} \cup About(p), {net[j]})
          /\ NotAfter({shown}, About(p))
      BY <1>3, <2>4 DEF BatchOrder, RingOrder, NetOrder, NotAfter
    <2>7. \A S : NotAfter({shown} \cup About(p), S) => NotAfter({shown} \cup JobEvents', S)
      BY <2>3 DEF NotAfter
    <2>8. BatchOrder'
      <3>1. \A j \in 1 .. Len(batch') : NotAfter({shown} \cup JobEvents', About(batch'[j]))
        BY <2>5, <2>6, <2>7
      <3>2. ASSUME NEW i \in 1 .. Len(batch'), NEW j \in 1 .. Len(batch'), i < j
            PROVE  NotAfter(About(batch'[i]), About(batch'[j]))
        <4>1. i + 1 \in 1 .. Len(batch) /\ j + 1 \in 1 .. Len(batch) /\ i + 1 < j + 1
          BY <2>4, <2>5, <3>2
        <4> QED BY <1>3, <2>5, <4>1 DEF BatchOrder
      <3> QED BY <2>1, <3>1, <3>2 DEF BatchOrder
    <2>9. RingOrder'
      <3>1. \A j \in 1 .. Len(q) : NotAfter({shown} \cup JobEvents', About(q[j]))
        BY <2>6, <2>7
      <3>2. \A i \in 1 .. Len(batch') : \A j \in 1 .. Len(q) : NotAfter(About(batch'[i]), About(q[j]))
        BY <1>3, <2>5 DEF RingOrder
      <3> QED BY <1>3, <2>1, <3>1, <3>2 DEF RingOrder
    <2>10. NetOrder'
      <3>1. \A j \in 1 .. Len(net) : NotAfter({shown} \cup JobEvents', {net[j]})
        BY <2>6, <2>7
      <3>2. \A i \in 1 .. Len(batch') : \A j \in 1 .. Len(net) : NotAfter(About(batch'[i]), {net[j]})
        BY <1>3, <2>5 DEF NetOrder
      <3> QED BY <1>3, <1>4, <2>1, <3>1, <3>2 DEF NetOrder
    <2>11. ShownOrder'
      BY <1>3, <1>4, <2>1, <2>3, <2>6 DEF ShownOrder, NotAfter
    <2> QED BY <1>3, <2>1, <2>8, <2>9, <2>10, <2>11 DEF OrderInv
  <1>7. CASE ShowPicture
    <2>1. /\ job.stage = "picture" /\ job' = [job EXCEPT !.stage = "text"]
          /\ UNCHANGED <<shown, q, batch>>
      BY <1>7 DEF ShowPicture, recvvars
    <2>2. job'.stage = "text" /\ job'.text = job.text
      BY <2>1 DEF PublishInv, JobInv
    <2>3. JobEvents' = JobEvents
      BY <2>1, <2>2 DEF JobEvents
    <2>4. ShownOrder' /\ BatchOrder'
      BY <1>3, <1>4, <2>1, <2>3 DEF ShownOrder, BatchOrder
    <2>5. RingOrder' /\ NetOrder'
      BY <1>3, <1>4, <2>1, <2>3 DEF RingOrder, NetOrder
    <2> QED BY <1>3, <2>1, <2>4, <2>5 DEF OrderInv
  <1>8. CASE ShowText
    <2>1. /\ job.stage = "text" /\ job' = NoJob /\ UNCHANGED <<q, batch>>
          /\ shown' = EventOf(job.text) \/ shown' = shown
      BY <1>8 DEF ShowText, recvvars
    <2>2. JobEvents' = {}
      BY <2>1 DEF JobEvents, NoJob
    <2>3. shown' \in {shown} \cup JobEvents
      <3>1. PICK e \in 1 .. site : job.text = Letters(Info(e))
        BY <2>1 DEF PublishInv, TextInv
      <3>2. e \in Event
        BY <1>1
      <3>3. EventOf(job.text) \in JobEvents
        BY <2>1, <3>1, <3>2 DEF EventOf, JobEvents
      <3> QED BY <2>1, <3>3
    <2>4. shown' \in 0 .. site /\ shown' >= shown
      BY <1>1, <1>2, <1>3, <2>3 DEF ShownOrder, NotAfter
    <2>5. \A S : NotAfter({shown} \cup JobEvents, S) => NotAfter({shown'} \cup JobEvents', S)
      BY <2>2, <2>3 DEF NotAfter
    <2>6. ShownOrder'
      BY <1>4, <2>2, <2>4 DEF ShownOrder, NotAfter
    <2>7. BatchOrder'
      BY <1>3, <2>1, <2>5 DEF BatchOrder
    <2>8. RingOrder'
      BY <1>3, <2>1, <2>5 DEF RingOrder
    <2>9. NetOrder'
      BY <1>3, <1>4, <2>1, <2>5 DEF NetOrder
    <2> QED BY <2>4, <2>6, <2>7, <2>8, <2>9 DEF OrderInv
  <1> QED BY <1>5, <1>6, <1>7, <1>8

LEMMA OrderStep ==
  ASSUME Deployed, DistinctTexts, PublishInv, OrderInv, [Next]_vars
  PROVE  OrderInv' /\ (Calm => shown' >= shown)
  <1>1. CASE ~Calm
    <2>1. UNCHANGED env
      BY DEF Next, vars
    <2> QED BY <1>1, <2>1 DEF OrderInv, Calm
  <1>2. CASE Calm
    <2>1. shown \in Nat /\ site \in Nat /\ UNCHANGED env
      BY <1>2 DEF OrderInv, ShownOrder, PublishInv, SiteInv, Next, vars
    <2>2. CASE UNCHANGED <<net, recvvars, job, shown>> /\ site' \in site .. site + 1
      <3>1. JobEvents' = JobEvents
        BY <2>2 DEF JobEvents
      <3>2. ShownOrder'
        BY <1>2, <2>1, <2>2, <3>1 DEF OrderInv, ShownOrder
      <3>3. BatchOrder' /\ RingOrder' /\ NetOrder'
        BY <1>2, <2>2, <3>1 DEF OrderInv, BatchOrder, RingOrder, NetOrder, recvvars
      <3> QED BY <2>1, <2>2, <3>2, <3>3 DEF OrderInv
    <2>3. site' \in site .. site + 1
      BY SiteStep DEF PublishInv
    <2>4. CASE UNCHANGED vars
      BY <2>2, <2>3, <2>4 DEF vars, vgavars
    <2>5. CASE Earthquake \/ ServerDies \/ ServerRestarts \/ GuestGraphics
      BY <2>2, <2>3, <2>5 DEF Earthquake, ServerDies, ServerRestarts, GuestGraphics, vgavars
    <2>6. CASE Poll \/ NetDeliver \/ NetLose \/ NetDuplicate \/ OtherArrives
      <3>1. shown' = shown
        BY <2>6 DEF Poll, NetDeliver, NetLose, NetDuplicate, OtherArrives, vgavars
      <3> QED BY <1>2, <2>1, <2>6, <3>1, OrderNet
    <2>7. CASE Receive \/ HandlePacket \/ ShowPicture \/ ShowText
      BY <1>2, <2>1, <2>7, OrderReceive
    <2> QED BY <2>4, <2>5, <2>6, <2>7 DEF Next
  <1> QED BY <1>1, <1>2

(* The whole path keeps the order: on a network without faults, with every *)
(* text of its own, newer information on the screen is never replaced by   *)
(* older, also when the intermediate server restarts and sends again.      *)
THEOREM ScreenNeverGoesBack == ASSUME Deployed, DistinctTexts PROVE Spec => NeverBack
  <1> DEFINE I == PublishInv /\ OrderInv
  <1>1. Init => I
    BY PublishInit, OrderInit
  <1>2. I /\ [Next]_vars => I'
    BY PublishStep, OrderStep
  <1>3. I /\ [Next]_vars => [Calm => shown' >= shown]_shown
    BY OrderStep
  <1>4. QED
    <2> HIDE DEF I
    <2> QED BY <1>1, <1>2, <1>3, PTL DEF Spec, NeverBack
=============================================================================
