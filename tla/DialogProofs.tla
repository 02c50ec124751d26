---------------------------- MODULE DialogProofs ----------------------------
(***************************************************************************)
(* Proofs for modules Dialog and DisasMessage, which MCWarning puts        *)
(* together: for every grid that fits into the picture and every message,  *)
(* no letter leaves the dialog, no letter paints over another one, and the *)
(* letters of the message are drawn, all and in order; and for every       *)
(* payload, the parser agrees with the message format.                     *)
(***************************************************************************)
EXTENDS MCWarning, Lemmas

(* The loop goes on only while the next cell is in the grid. *)
RowInv == ~warned => idx_y < MAX_NROWS_IN_DIALOG

(* Every letter drawn lies before the next cell. *)
BeforeNextCell ==
    \A i \in 1 .. Len(drawn) :
        \/ drawn[i].y + LETTER_HEIGHT <= OffsY + LETTER_HEIGHT * idx_y
        \/ /\ drawn[i].y = OffsY + LETTER_HEIGHT * idx_y
           /\ drawn[i].x + LETTER_WIDTH <= OffsX + LETTER_WIDTH * idx_x

IInv == TypeOK /\ RowInv /\ InsideDialog /\ BeforeNextCell /\ ReadingOrder

-----------------------------------------------------------------------------
(* One more cell is one more letter wide, and cells are monotonic. *)
LEMMA CellArithmetic ==
    ASSUME NEW k \in Nat, NEW a \in Nat, NEW b \in Nat, a + 1 <= b
    PROVE  /\ k * a \in Nat
           /\ k * (a + 1) = k * a + k
           /\ k * a + k <= k * b
<1>1. k * a \in Nat
  BY SMT
<1>2. k * (a + 1) = k * a + k
  BY SMT
<1>3. PICK d \in Nat : b = (a + 1) + d
  <2>1. b - (a + 1) \in Nat /\ b = (a + 1) + (b - (a + 1))
    OBVIOUS
  <2>2. QED
    BY <2>1
<1>4. k * b = k * (a + 1) + k * d
  BY <1>3, SMT
<1>5. k * d \in Nat
  BY SMT
<1>6. QED
  BY <1>1, <1>2, <1>4, <1>5

(* The letter for the next cell lies inside the dialog. *)
LEMMA NextLetter ==
    ASSUME TypeOK, RowInv, ~warned, NEW c \in Printable
    PROVE  /\ Letter(c) \in LetterType
           /\ Letter(c).x + LETTER_WIDTH <= PictureWidth
           /\ Letter(c).y + LETTER_HEIGHT <= PictureHeight
           /\ Letter(c).x = OffsX + LETTER_WIDTH * idx_x
           /\ Letter(c).y = OffsY + LETTER_HEIGHT * idx_y
<1>1. /\ idx_x \in Nat /\ idx_x + 1 <= MAX_NLETTERS_IN_ROW
      /\ idx_y \in Nat /\ idx_y + 1 <= MAX_NROWS_IN_DIALOG
  BY DialogAssumption DEF TypeOK, RowInv
<1>2. /\ LETTER_WIDTH * idx_x \in Nat
      /\ LETTER_WIDTH * idx_x + LETTER_WIDTH <= LETTER_WIDTH * MAX_NLETTERS_IN_ROW
  BY <1>1, CellArithmetic, DialogAssumption
<1>3. /\ LETTER_HEIGHT * idx_y \in Nat
      /\ LETTER_HEIGHT * idx_y + LETTER_HEIGHT <= LETTER_HEIGHT * MAX_NROWS_IN_DIALOG
  BY <1>1, CellArithmetic, DialogAssumption
<1>4. /\ LETTER_WIDTH * MAX_NLETTERS_IN_ROW = MAX_NLETTERS_IN_ROW * LETTER_WIDTH
      /\ LETTER_HEIGHT * MAX_NROWS_IN_DIALOG = MAX_NROWS_IN_DIALOG * LETTER_HEIGHT
      /\ MAX_NLETTERS_IN_ROW * LETTER_WIDTH \in Nat
      /\ MAX_NROWS_IN_DIALOG * LETTER_HEIGHT \in Nat
  BY DialogAssumption, SMT
<1>. DEFINE A == LETTER_WIDTH * idx_x
            B == LETTER_HEIGHT * idx_y
            M == MAX_NLETTERS_IN_ROW * LETTER_WIDTH
            N == MAX_NROWS_IN_DIALOG * LETTER_HEIGHT
<1>5. /\ A \in Nat /\ A + LETTER_WIDTH <= M /\ M \in Nat
      /\ B \in Nat /\ B + LETTER_HEIGHT <= N /\ N \in Nat
  BY <1>2, <1>3, <1>4
<1>6. /\ OffsX + M <= PictureWidth /\ OffsY + N <= PictureHeight
      /\ OffsX \in Nat /\ OffsY \in Nat
      /\ LETTER_WIDTH \in Nat /\ LETTER_HEIGHT \in Nat
      /\ PictureWidth \in Nat /\ PictureHeight \in Nat
  BY DialogAssumption
<1>7. Letter(c) = [byte |-> c, x |-> OffsX + A, y |-> OffsY + B]
  BY DEF Letter
<1>. HIDE DEF A, B, M, N
<1>8. /\ (OffsX + A) + LETTER_WIDTH <= PictureWidth
      /\ (OffsY + B) + LETTER_HEIGHT <= PictureHeight
      /\ OffsX + A \in Nat /\ OffsY + B \in Nat
  BY <1>5, <1>6
<1>9. Letter(c) \in LetterType
  BY <1>7, <1>8 DEF LetterType
<1>10. Letter(c).x = OffsX + A /\ Letter(c).y = OffsY + B
  BY <1>7
<1>11. QED
  BY <1>8, <1>9, <1>10 DEF A, B

-----------------------------------------------------------------------------
(* Moving the next cell forward keeps every letter before it. *)
LEMMA CellMoves ==
    ASSUME TypeOK, RowInv, ~warned
    PROVE  /\ LETTER_WIDTH * idx_x \in Nat
           /\ LETTER_HEIGHT * idx_y \in Nat
           /\ LETTER_WIDTH * (idx_x + 1) = LETTER_WIDTH * idx_x + LETTER_WIDTH
           /\ LETTER_HEIGHT * (idx_y + 1) = LETTER_HEIGHT * idx_y + LETTER_HEIGHT
<1>1. /\ idx_x \in Nat /\ idx_x + 1 <= MAX_NLETTERS_IN_ROW
      /\ idx_y \in Nat /\ idx_y + 1 <= MAX_NROWS_IN_DIALOG
  BY DialogAssumption DEF TypeOK, RowInv
<1>2. QED
  BY <1>1, CellArithmetic, DialogAssumption

LEMMA InitIInv == Init => IInv
<1>. SUFFICES ASSUME Init PROVE IInv
  OBVIOUS
<1>1. /\ msg = <<>> /\ nth = 0 /\ idx_x = 0 /\ idx_y = 0 /\ drawn = <<>>
      /\ warned \in BOOLEAN
  BY DEF Init
<1>2. TypeOK
  <2>1. /\ msg \in Seq(Byte) /\ nth \in 0 .. Len(msg) /\ drawn \in Seq(LetterType)
        /\ idx_x \in 0 .. MAX_NLETTERS_IN_ROW - 1 /\ idx_y \in 0 .. MAX_NROWS_IN_DIALOG
    BY <1>1, DialogAssumption
  <2>2. QED
    BY <1>1, <2>1 DEF TypeOK
<1>3. RowInv
  BY <1>1, DialogAssumption DEF RowInv
<1>4. InsideDialog /\ BeforeNextCell /\ ReadingOrder
  BY <1>1 DEF InsideDialog, BeforeNextCell, ReadingOrder
<1>5. QED
  BY <1>2, <1>3, <1>4 DEF IInv

(* The break at the end of the loop body *)
LEMMA BreakKeepsRow ==
    ASSUME NEW row \in Nat, idx_y' = row, CheckRows(row)
    PROVE  RowInv' /\ warned' \in BOOLEAN
<1>1. warned' = (row >= MAX_NROWS_IN_DIALOG)
  BY DEF CheckRows
<1>2. warned' \in BOOLEAN /\ (~warned' => ~(row >= MAX_NROWS_IN_DIALOG))
  <2>1. (row >= MAX_NROWS_IN_DIALOG) \in BOOLEAN
    BY DialogAssumption, SMT
  <2>2. QED
    BY <1>1, <2>1, Zenon
<1>3. ~(row >= MAX_NROWS_IN_DIALOG) => row < MAX_NROWS_IN_DIALOG
  BY DialogAssumption
<1>4. QED
  BY <1>2, <1>3 DEF RowInv

LEMMA DrawLetterKeeps ==
    ASSUME IInv, DrawLetter
    PROVE  IInv'
<1>. DEFINE c == msg[nth + 1]
            n == Len(drawn)
<1>1. TypeOK /\ RowInv /\ InsideDialog /\ BeforeNextCell /\ ReadingOrder /\ ~warned
  BY DEF IInv, DrawLetter, More
<1>2. c \in Printable /\ drawn' = Append(drawn, Letter(c))
  BY DEF DrawLetter
<1>3. /\ Letter(c) \in LetterType
      /\ Letter(c).x + LETTER_WIDTH <= PictureWidth
      /\ Letter(c).y + LETTER_HEIGHT <= PictureHeight
      /\ Letter(c).x = OffsX + LETTER_WIDTH * idx_x
      /\ Letter(c).y = OffsY + LETTER_HEIGHT * idx_y
  BY <1>1, <1>2, NextLetter
<1>4. /\ n \in Nat /\ Len(drawn') = n + 1
      /\ \A i \in 1 .. n : drawn'[i] = drawn[i] /\ drawn[i] \in LetterType
      /\ drawn'[n + 1] = Letter(c)
  BY <1>1, <1>2, <1>3 DEF TypeOK
<1>5. TypeOK'
  <2>1. drawn' \in Seq(LetterType)
    BY <1>1, <1>2, <1>3 DEF TypeOK
  <2>2. msg' \in Seq(Byte) /\ nth' \in 0 .. Len(msg')
    BY <1>1 DEF TypeOK, DrawLetter, More
  <2>3. idx_x' \in 0 .. MAX_NLETTERS_IN_ROW - 1 /\ idx_y' \in 0 .. MAX_NROWS_IN_DIALOG
    BY <1>1, DialogAssumption DEF TypeOK, RowInv, DrawLetter, Advance
  <2>4. warned' \in BOOLEAN
    BY DEF DrawLetter, CheckRows
  <2>5. QED
    BY <2>1, <2>2, <2>3, <2>4 DEF TypeOK
<1>6. RowInv'
  <2>1. idx_y' \in Nat
    BY <1>5, DialogAssumption DEF TypeOK
  <2>2. QED
    BY <2>1, BreakKeepsRow DEF DrawLetter
<1>7. InsideDialog'
  BY <1>1, <1>3, <1>4 DEF InsideDialog
<1>8. ReadingOrder'
  <2>. SUFFICES ASSUME NEW i \in 1 .. n + 1, NEW j \in 1 .. n + 1, i < j
                PROVE  \/ drawn'[i].y + LETTER_HEIGHT <= drawn'[j].y
                       \/ /\ drawn'[i].y = drawn'[j].y
                          /\ drawn'[i].x + LETTER_WIDTH <= drawn'[j].x
    BY <1>4 DEF ReadingOrder
  <2>1. i \in 1 .. n
    BY <1>4
  <2>2. CASE j = n + 1
    BY <2>1, <2>2, <1>1, <1>3, <1>4 DEF BeforeNextCell
  <2>3. CASE j \in 1 .. n
    BY <2>1, <2>3, <1>1, <1>4 DEF ReadingOrder
  <2>4. QED
    BY <2>2, <2>3, <1>4
<1>9. BeforeNextCell'
  <2>. SUFFICES ASSUME NEW i \in 1 .. n + 1
                PROVE  \/ drawn'[i].y + LETTER_HEIGHT <= OffsY + LETTER_HEIGHT * idx_y'
                       \/ /\ drawn'[i].y = OffsY + LETTER_HEIGHT * idx_y'
                          /\ drawn'[i].x + LETTER_WIDTH <= OffsX + LETTER_WIDTH * idx_x'
    BY <1>4 DEF BeforeNextCell
  <2>. DEFINE A == LETTER_WIDTH * idx_x
              B == LETTER_HEIGHT * idx_y
              xi == drawn'[i].x
              yi == drawn'[i].y
  <2>1. /\ A \in Nat /\ B \in Nat
        /\ LETTER_WIDTH * (idx_x + 1) = A + LETTER_WIDTH
        /\ LETTER_HEIGHT * (idx_y + 1) = B + LETTER_HEIGHT
    BY <1>1, CellMoves
  <2>2. \/ yi + LETTER_HEIGHT <= OffsY + B
        \/ yi = OffsY + B /\ xi <= OffsX + A
    <3>1. CASE i = n + 1
      BY <3>1, <2>1, <1>3, <1>4, DialogAssumption
    <3>2. CASE i \in 1 .. n
      <4>1. \/ yi + LETTER_HEIGHT <= OffsY + B
            \/ yi = OffsY + B /\ xi + LETTER_WIDTH <= OffsX + A
        BY <3>2, <1>1, <1>4 DEF BeforeNextCell
      <4>2. xi \in Nat
        BY <3>2, <1>4 DEF LetterType
      <4>. HIDE DEF A, B, xi, yi
      <4>3. QED
        BY <4>1, <4>2, <2>1, DialogAssumption
    <3>3. QED
      BY <3>1, <3>2, <1>4
  <2>3. xi \in Nat /\ yi \in Nat
    BY <1>3, <1>4 DEF LetterType
  <2>4. CASE idx_x + 1 >= MAX_NLETTERS_IN_ROW
    <3>1. idx_y' = idx_y + 1
      BY <2>4 DEF DrawLetter, Advance
    <3>2. LETTER_HEIGHT * idx_y' = B + LETTER_HEIGHT
      BY <3>1, <2>1
    <3>. HIDE DEF A, B, xi, yi
    <3>3. yi + LETTER_HEIGHT <= OffsY + (B + LETTER_HEIGHT)
      BY <2>1, <2>2, <2>3, DialogAssumption
    <3>4. QED
      BY <3>2, <3>3 DEF yi
  <2>5. CASE ~(idx_x + 1 >= MAX_NLETTERS_IN_ROW)
    <3>1. idx_y' = idx_y /\ idx_x' = idx_x + 1
      BY <2>5 DEF DrawLetter, Advance
    <3>2. LETTER_HEIGHT * idx_y' = B /\ LETTER_WIDTH * idx_x' = A + LETTER_WIDTH
      BY <3>1, <2>1
    <3>3. CASE i = n + 1
      <4>1. yi = OffsY + B /\ xi = OffsX + A
        BY <3>3, <1>3, <1>4
      <4>. HIDE DEF A, B, xi, yi
      <4>2. yi = OffsY + B /\ xi + LETTER_WIDTH <= OffsX + (A + LETTER_WIDTH)
        BY <4>1, <2>1, DialogAssumption
      <4>3. QED
        BY <4>2, <3>2 DEF xi, yi
    <3>4. CASE i \in 1 .. n
      <4>. HIDE DEF A, B, xi, yi
      <4>1. \/ yi + LETTER_HEIGHT <= OffsY + B
            \/ yi = OffsY + B /\ xi + LETTER_WIDTH <= OffsX + (A + LETTER_WIDTH)
        BY <2>1, <2>2, <2>3, DialogAssumption
      <4>2. QED
        BY <4>1, <3>2 DEF xi, yi
    <3>5. QED
      BY <3>3, <3>4, <1>4
  <2>6. QED
    BY <2>4, <2>5
<1>10. QED
  BY <1>5, <1>6, <1>7, <1>8, <1>9 DEF IInv

LEMMA StartRowKeeps ==
    ASSUME IInv, StartRow
    PROVE  IInv'
<1>1. TypeOK /\ RowInv /\ InsideDialog /\ BeforeNextCell /\ ReadingOrder /\ ~warned
  BY DEF IInv, StartRow, More
<1>2. drawn' = drawn /\ idx_y' = idx_y + 1
  BY DEF StartRow, NewRow
<1>3. idx_y' \in Nat /\ idx_y' \in 0 .. MAX_NROWS_IN_DIALOG
  BY <1>1, <1>2, DialogAssumption DEF TypeOK, RowInv
<1>4. RowInv' /\ warned' \in BOOLEAN
  BY <1>3, BreakKeepsRow DEF StartRow
<1>8. TypeOK'
  <2>1. /\ msg' \in Seq(Byte) /\ nth' \in 0 .. Len(msg')
        /\ idx_x' \in 0 .. MAX_NLETTERS_IN_ROW - 1 /\ drawn' \in Seq(LetterType)
    BY <1>1, DialogAssumption DEF TypeOK, StartRow, More, NewRow
  <2>2. QED
    BY <1>3, <1>4, <2>1 DEF TypeOK
<1>5. InsideDialog' /\ ReadingOrder'
  BY <1>1, <1>2 DEF InsideDialog, ReadingOrder
<1>6. BeforeNextCell'
  <2>. SUFFICES ASSUME NEW i \in 1 .. Len(drawn)
                PROVE  drawn[i].y + LETTER_HEIGHT <= OffsY + LETTER_HEIGHT * idx_y'
    BY <1>2 DEF BeforeNextCell
  <2>. DEFINE B == LETTER_HEIGHT * idx_y
              yi == drawn[i].y
  <2>1. B \in Nat /\ LETTER_HEIGHT * idx_y' = B + LETTER_HEIGHT
    BY <1>1, <1>2, CellMoves
  <2>2. yi + LETTER_HEIGHT <= OffsY + B \/ yi = OffsY + B
    BY <1>1 DEF BeforeNextCell
  <2>3. yi \in Nat
    <3>1. drawn[i] \in LetterType
      BY <1>1 DEF TypeOK
    <3>2. QED
      BY <3>1 DEF LetterType
  <2>. HIDE DEF B, yi
  <2>4. yi + LETTER_HEIGHT <= OffsY + (B + LETTER_HEIGHT)
    BY <2>1, <2>2, <2>3, DialogAssumption
  <2>5. QED
    BY <2>1, <2>4 DEF yi
<1>7. QED
  BY <1>4, <1>5, <1>6, <1>8 DEF IInv

LEMMA RestKeeps ==
    ASSUME IInv, SkipByte \/ (\E c \in Byte : Receive(c)) \/ UNCHANGED vars
    PROVE  IInv'
<1>1. TypeOK /\ RowInv /\ InsideDialog /\ BeforeNextCell /\ ReadingOrder
  BY DEF IInv
<1>2. drawn' = drawn /\ idx_x' = idx_x /\ idx_y' = idx_y
  BY DEF SkipByte, Receive, vars
<1>3. msg' \in Seq(Byte) /\ nth' \in 0 .. Len(msg')
  <2>1. CASE SkipByte
    BY <1>1, <2>1 DEF TypeOK, SkipByte, More
  <2>2. CASE \E c \in Byte : Receive(c)
    <3>1. PICK c \in Byte : Receive(c)
      BY <2>2
    <3>2. QED
      BY <1>1, <3>1 DEF TypeOK, Receive
  <2>3. CASE UNCHANGED vars
    BY <1>1, <2>3 DEF TypeOK, vars
  <2>4. QED
    BY <2>1, <2>2, <2>3
<1>4. RowInv' /\ warned' \in BOOLEAN
  <2>1. idx_y \in Nat /\ warned \in BOOLEAN
    BY <1>1, DialogAssumption DEF TypeOK
  <2>2. CASE SkipByte
    BY <1>2, <2>1, <2>2, BreakKeepsRow DEF SkipByte
  <2>3. CASE warned' = warned
    BY <1>1, <1>2, <2>1, <2>3 DEF RowInv
  <2>4. QED
    BY <2>2, <2>3 DEF Receive, vars
<1>5. TypeOK'
  BY <1>1, <1>2, <1>3, <1>4 DEF TypeOK
<1>6. InsideDialog' /\ BeforeNextCell' /\ ReadingOrder'
  BY <1>1, <1>2 DEF InsideDialog, BeforeNextCell, ReadingOrder
<1>7. QED
  BY <1>4, <1>5, <1>6 DEF IInv

(* IInv is an inductive invariant of the loop. *)
THEOREM Inductive == Spec => []IInv
<1>1. IInv /\ [Next]_vars => IInv'
  BY DrawLetterKeeps, StartRowKeeps, RestKeeps DEF Next
<1>2. QED
  BY InitIInv, <1>1, PTL DEF Spec

(* The indices of vga_display_disaster_warning() stay in the grid. *)
THEOREM TypeCorrect == Spec => []TypeOK
BY Inductive, PTL DEF IInv

(* No letter is drawn outside the dialog picture, for any message. *)
THEOREM LettersInside == Spec => []InsideDialog
BY Inductive, PTL DEF IInv

(* No letter is drawn over another one, for any message. *)
THEOREM LettersInOrder == Spec => []ReadingOrder
BY Inductive, PTL DEF IInv

-----------------------------------------------------------------------------
(* The letters among the first k bytes of a message *)
First(m, k) == Letters(SubSeq(m, 1, k))

(* The bytes drawn *)
Shown == [i \in 1 .. Len(drawn) |-> drawn[i].byte]

(* What was drawn before a newline is above the row of the next cell, and *)
(* no part of the consumed bytes has more letters than were drawn.        *)
AboveNextRow ==
    \A k \in 1 .. nth : msg[k] = Newline =>
        \A i \in 1 .. Len(drawn) : i <= Len(First(msg, k)) =>
            drawn[i].y + LETTER_HEIGHT <= OffsY + LETTER_HEIGHT * idx_y

NoMoreLetters == \A k \in 0 .. nth : Len(First(msg, k)) <= Len(drawn)

RowsSplit ==
    \A k \in 1 .. nth : msg[k] = Newline =>
        \A i, j \in 1 .. Len(drawn) :
            i <= Len(First(msg, k)) /\ Len(First(msg, k)) < j
                => drawn[i].y + LETTER_HEIGHT <= drawn[j].y

TextInv == Shown = First(msg, nth) /\ RowsSplit /\ AboveNextRow /\ NoMoreLetters

LEMMA FirstSteps ==
    ASSUME NEW m \in Seq(Byte)
    PROVE  /\ First(m, 0) = <<>>
           /\ \A k \in 0 .. Len(m) : First(m, k) \in Seq(Printable)
           /\ \A k \in 0 .. Len(m) : k < Len(m) =>
                 First(m, k + 1) = Extended(First(m, k), m[k + 1], Printable)
<1>1. Len(m) \in Nat
  OBVIOUS
<1>2. SubSeq(m, 1, 0) = <<>>
  OBVIOUS
<1>3. First(m, 0) = <<>>
  BY <1>2, OnlyEmpty DEF First, Letters
<1>4. \A k \in 0 .. Len(m) : SubSeq(m, 1, k) \in Seq(Byte)
  OBVIOUS
<1>5. \A k \in 0 .. Len(m) : First(m, k) \in Seq(Printable)
  <2>. SUFFICES ASSUME NEW k \in 0 .. Len(m) PROVE First(m, k) \in Seq(Printable)
    OBVIOUS
  <2>1. PICK s \in Seq(Byte) : s = SubSeq(m, 1, k)
    BY <1>4
  <2>2. Only(s, Printable) \in Seq(Printable)
    BY OnlyRecurs
  <2>3. QED
    BY <2>1, <2>2 DEF First, Letters
<1>6. ASSUME NEW k \in 0 .. Len(m), k < Len(m)
      PROVE  First(m, k + 1) = Extended(First(m, k), m[k + 1], Printable)
  <2>1. PICK s \in Seq(Byte) : s = SubSeq(m, 1, k)
    BY <1>4
  <2>2. PICK c \in Byte : c = m[k + 1]
    BY <1>1, <1>6
  <2>3. SubSeq(m, 1, k + 1) = Append(s, c)
    BY <1>1, <1>6, <2>1, <2>2
  <2>4. Only(Append(s, c), Printable) = Extended(Only(s, Printable), c, Printable)
    BY OnlyAppend
  <2>5. QED
    BY <2>1, <2>2, <2>3, <2>4 DEF First, Letters
<1>7. QED
  BY <1>3, <1>5, <1>6

LEMMA InitTextInv == Init => TextInv
<1>. SUFFICES ASSUME Init PROVE TextInv
  OBVIOUS
<1>1. msg = <<>> /\ nth = 0 /\ drawn = <<>>
  BY DEF Init
<1>2. <<>> \in Seq(Byte)
  OBVIOUS
<1>3. First(msg, nth) = <<>>
  BY <1>1, <1>2, FirstSteps
<1>4. Shown = <<>>
  BY <1>1 DEF Shown
<1>5. RowsSplit /\ AboveNextRow /\ NoMoreLetters
  BY <1>1, <1>3 DEF RowsSplit, AboveNextRow, NoMoreLetters
<1>6. QED
  BY <1>3, <1>4, <1>5 DEF TextInv

(* A byte that is no letter leaves the text, and a letter is added to it. *)
LEMMA ByteConsumed ==
    ASSUME IInv, More
    PROVE  /\ nth \in Nat /\ nth + 1 \in 1 .. Len(msg) /\ Len(drawn) \in Nat
           /\ \A k \in 0 .. nth + 1 : First(msg, k) \in Seq(Printable)
           /\ \A k \in 0 .. nth + 1 : Len(First(msg, k)) \in Nat
           /\ msg[nth + 1] \in Printable =>
                 First(msg, nth + 1) = Append(First(msg, nth), msg[nth + 1])
           /\ msg[nth + 1] \notin Printable => First(msg, nth + 1) = First(msg, nth)
<1>1. msg \in Seq(Byte) /\ nth \in 0 .. Len(msg) /\ drawn \in Seq(LetterType)
  BY DEF IInv, TypeOK
<1>2. nth < Len(msg) /\ Len(msg) \in Nat
  BY <1>1 DEF More
<1>3. nth \in Nat /\ nth + 1 \in 1 .. Len(msg) /\ Len(drawn) \in Nat
  BY <1>1, <1>2
<1>4. \A k \in 0 .. nth + 1 : First(msg, k) \in Seq(Printable)
  BY <1>1, <1>3, FirstSteps
<1>5. First(msg, nth + 1) = Extended(First(msg, nth), msg[nth + 1], Printable)
  BY <1>1, <1>2, FirstSteps
<1>6. \A k \in 0 .. nth + 1 : Len(First(msg, k)) \in Nat
  BY <1>4
<1>7. QED
  BY <1>3, <1>4, <1>5, <1>6 DEF Extended

LEMMA DrawLetterShows ==
    ASSUME IInv, TextInv, DrawLetter
    PROVE  TextInv'
<1>. DEFINE c == msg[nth + 1]
            n == Len(drawn)
            N(k) == Len(First(msg, k))
<1>1. More /\ c \in Printable /\ c # Newline /\ msg' = msg /\ nth' = nth + 1
      /\ drawn' = Append(drawn, Letter(c))
  BY DialogAssumption DEF DrawLetter
<1>2. /\ nth \in Nat /\ nth + 1 \in 1 .. Len(msg) /\ n \in Nat
      /\ First(msg, nth) \in Seq(Printable)
      /\ \A k \in 0 .. nth + 1 : N(k) \in Nat
      /\ First(msg, nth + 1) = Append(First(msg, nth), c)
  BY <1>1, ByteConsumed
<1>3. TypeOK /\ RowInv /\ ~warned
  BY <1>1 DEF IInv, More
<1>4. Letter(c) \in LetterType /\ Letter(c).y = OffsY + LETTER_HEIGHT * idx_y
  BY <1>1, <1>3, NextLetter
<1>5. Letter(c).byte = c
  BY DEF Letter
<1>6. /\ Len(drawn') = n + 1
      /\ \A i \in 1 .. n : drawn'[i] = drawn[i] /\ drawn[i] \in LetterType
      /\ drawn'[n + 1] = Letter(c)
  BY <1>1, <1>3, <1>4 DEF TypeOK
<1>7. Shown = First(msg, nth) /\ RowsSplit /\ AboveNextRow /\ NoMoreLetters
  BY DEF TextInv
<1>8. N(nth) = n
  <2>1. Len(Shown) = n
    BY <1>2 DEF Shown
  <2>2. QED
    BY <1>7, <2>1
<1>9. Shown' = First(msg', nth')
  <2>1. \A i \in 1 .. n + 1 : drawn'[i].byte = IF i = n + 1 THEN c ELSE drawn[i].byte
    BY <1>2, <1>5, <1>6
  <2>2. Shown' = [i \in 1 .. n + 1 |-> IF i = n + 1 THEN c ELSE drawn[i].byte]
    BY <1>6, <2>1 DEF Shown
  <2>3. PICK f \in Seq(Printable) : f = First(msg, nth)
    BY <1>2
  <2>4. Len(f) = n /\ \A i \in 1 .. n : f[i] = drawn[i].byte
    BY <1>7, <1>8, <2>3 DEF Shown
  <2>5. Append(f, c) = [i \in 1 .. n + 1 |-> IF i = n + 1 THEN c ELSE f[i]]
    BY <1>1, <2>4
  <2>6. [i \in 1 .. n + 1 |-> IF i = n + 1 THEN c ELSE f[i]]
          = [i \in 1 .. n + 1 |-> IF i = n + 1 THEN c ELSE drawn[i].byte]
    <3>1. n \in Nat
      BY <1>2
    <3>. HIDE DEF c, n
    <3>2. \A i \in 1 .. n + 1 : i # n + 1 => i \in 1 .. n
      BY <3>1
    <3>3. \A i \in 1 .. n + 1 : i # n + 1 => f[i] = drawn[i].byte
      BY <2>4, <3>2
    <3>4. QED
      BY <3>3
  <2>7. QED
    BY <1>1, <1>2, <2>2, <2>3, <2>5, <2>6
<1>10. N(nth + 1) = n + 1
  BY <1>1, <1>2, <1>8
<1>11. \A k \in 0 .. nth : N(k) <= n
  BY <1>7 DEF NoMoreLetters
<1>12. NoMoreLetters'
  <2>1. \A k \in 0 .. nth + 1 : N(k) <= n + 1
    BY <1>2, <1>10, <1>11
  <2>2. QED
    BY <1>1, <1>6, <2>1 DEF NoMoreLetters
<1>13. \A k \in 1 .. nth + 1 : msg[k] = Newline => k \in 1 .. nth
  BY <1>1, <1>2
<1>. HIDE DEF N
<1>14. AboveNextRow /\ RowsSplit =>
         \A k \in 1 .. nth : msg[k] = Newline =>
            /\ \A i \in 1 .. n : i <= N(k) =>
                  drawn[i].y + LETTER_HEIGHT <= OffsY + LETTER_HEIGHT * idx_y
            /\ \A i, j \in 1 .. n : i <= N(k) /\ N(k) < j
                  => drawn[i].y + LETTER_HEIGHT <= drawn[j].y
  BY DEF AboveNextRow, RowsSplit, N
<1>15. ASSUME NEW k \in 1 .. nth, msg[k] = Newline
       PROVE  /\ \A i \in 1 .. n + 1 : i <= N(k) =>
                    drawn'[i].y + LETTER_HEIGHT <= OffsY + LETTER_HEIGHT * idx_y'
              /\ \A i, j \in 1 .. n + 1 : i <= N(k) /\ N(k) < j
                    => drawn'[i].y + LETTER_HEIGHT <= drawn'[j].y
  <2>1. N(k) \in Nat /\ N(k) <= n
    BY <1>2, <1>11
  <2>2. ASSUME NEW i \in 1 .. n + 1, i <= N(k)
        PROVE  i \in 1 .. n /\ drawn'[i].y + LETTER_HEIGHT <= OffsY + LETTER_HEIGHT * idx_y
    <3>1. i \in 1 .. n
      BY <1>2, <2>1, <2>2
    <3>2. QED
      BY <1>6, <1>7, <1>14, <1>15, <2>2, <3>1
  <2>3. OffsY + LETTER_HEIGHT * idx_y <= OffsY + LETTER_HEIGHT * idx_y'
    <3>1. LETTER_HEIGHT * idx_y \in Nat
          /\ LETTER_HEIGHT * (idx_y + 1) = LETTER_HEIGHT * idx_y + LETTER_HEIGHT
      BY <1>3, CellMoves
    <3>2. idx_y' = idx_y \/ idx_y' = idx_y + 1
      BY DEF DrawLetter, Advance
    <3>3. QED
      BY <3>1, <3>2, DialogAssumption
  <2>4. OffsY + LETTER_HEIGHT * idx_y \in Nat /\ OffsY + LETTER_HEIGHT * idx_y' \in Nat
    <3>1. idx_y \in Nat /\ (idx_y' = idx_y \/ idx_y' = idx_y + 1)
      BY <1>3, DialogAssumption DEF TypeOK, DrawLetter, Advance
    <3>2. idx_y' \in Nat
      BY <3>1
    <3>3. LETTER_HEIGHT * idx_y \in Nat /\ LETTER_HEIGHT * idx_y' \in Nat
      <4>1. PICK r \in Nat, r1 \in Nat, hh \in Nat : r = idx_y /\ r1 = idx_y' /\ hh = LETTER_HEIGHT
        BY <3>1, <3>2, DialogAssumption
      <4>2. hh * r \in Nat
        BY SMT
      <4>3. hh * r1 \in Nat
        BY SMT
      <4>4. QED
        BY <4>1, <4>2, <4>3
    <3>4. QED
      BY <3>3, DialogAssumption
  <2>5. ASSUME NEW i \in 1 .. n + 1, i <= N(k)
        PROVE  drawn'[i].y + LETTER_HEIGHT <= OffsY + LETTER_HEIGHT * idx_y'
    <3>1. drawn'[i].y \in Nat /\ LETTER_HEIGHT \in Nat
      BY <1>6, <2>2, <2>5, DialogAssumption DEF LetterType
    <3>2. PICK yi \in Nat, a \in Nat, b \in Nat :
             /\ yi = drawn'[i].y
             /\ a = OffsY + LETTER_HEIGHT * idx_y /\ b = OffsY + LETTER_HEIGHT * idx_y'
      BY <2>4, <3>1
    <3>3. yi + LETTER_HEIGHT <= a /\ a <= b
      BY <2>2, <2>3, <2>5, <3>2
    <3>4. yi + LETTER_HEIGHT <= b
      BY <3>1, <3>3
    <3>5. QED
      BY <3>2, <3>4
  <2>6. ASSUME NEW i \in 1 .. n + 1, NEW j \in 1 .. n + 1, i <= N(k), N(k) < j
        PROVE  drawn'[i].y + LETTER_HEIGHT <= drawn'[j].y
    <3>1. CASE j = n + 1
      BY <1>4, <1>6, <2>2, <2>6, <3>1
    <3>2. CASE j \in 1 .. n
      <4>1. drawn[i].y + LETTER_HEIGHT <= drawn[j].y
        BY <1>7, <1>14, <1>15, <2>2, <2>6, <3>2
      <4>2. drawn'[i] = drawn[i] /\ drawn'[j] = drawn[j]
        BY <1>6, <2>2, <2>6, <3>2
      <4>3. QED
        BY <4>1, <4>2
    <3>3. j = n + 1 \/ j \in 1 .. n
      BY <1>2
    <3>4. QED
      BY <3>1, <3>2, <3>3
  <2>7. QED
    BY <2>5, <2>6
<1>16. AboveNextRow' /\ RowsSplit'
  BY <1>1, <1>6, <1>13, <1>15 DEF AboveNextRow, RowsSplit, N
<1>17. QED
  BY <1>9, <1>12, <1>16 DEF TextInv

(* A newline: everything drawn is above the new row. *)
LEMMA StartRowShows ==
    ASSUME IInv, TextInv, StartRow
    PROVE  TextInv'
<1>. DEFINE n == Len(drawn)
            N(k) == Len(First(msg, k))
<1>1. /\ More /\ msg[nth + 1] \notin Printable /\ msg' = msg /\ nth' = nth + 1
      /\ drawn' = drawn /\ idx_y' = idx_y + 1 /\ idx_x' = 0
  BY DialogAssumption DEF StartRow, NewRow
<1>2. /\ nth \in Nat /\ nth + 1 \in 1 .. Len(msg) /\ n \in Nat
      /\ \A k \in 0 .. nth + 1 : N(k) \in Nat
      /\ First(msg, nth + 1) = First(msg, nth)
  BY <1>1, ByteConsumed
<1>3. Shown = First(msg, nth) /\ RowsSplit /\ AboveNextRow /\ NoMoreLetters
  BY DEF TextInv
<1>4. N(nth + 1) = n
  <2>1. Len(Shown) = n
    BY <1>2 DEF Shown
  <2>2. QED
    BY <1>2, <1>3, <2>1
<1>5. Shown' = First(msg', nth')
  BY <1>1, <1>2, <1>3 DEF Shown
<1>6. NoMoreLetters'
  <2>1. \A k \in 0 .. nth + 1 : N(k) <= n
    BY <1>2, <1>3, <1>4 DEF NoMoreLetters
  <2>2. QED
    BY <1>1, <2>1 DEF NoMoreLetters
<1>7. TypeOK /\ RowInv /\ BeforeNextCell /\ ~warned
  BY <1>1 DEF IInv, More
<1>8. AboveNextRow'
  <2>1. \A i \in 1 .. n : drawn[i].y + LETTER_HEIGHT <= OffsY + LETTER_HEIGHT * idx_y'
    <3>. SUFFICES ASSUME NEW i \in 1 .. n
                  PROVE  drawn[i].y + LETTER_HEIGHT <= OffsY + LETTER_HEIGHT * idx_y'
      OBVIOUS
    <3>1. /\ LETTER_HEIGHT * idx_y \in Nat
          /\ LETTER_HEIGHT * idx_y' = LETTER_HEIGHT * idx_y + LETTER_HEIGHT
      BY <1>1, <1>7, CellMoves
    <3>2. drawn[i] \in LetterType
      BY <1>7 DEF TypeOK
    <3>3. drawn[i].y \in Nat
      BY <3>2 DEF LetterType
    <3>4. PICK yi \in Nat, B \in Nat : yi = drawn[i].y /\ B = LETTER_HEIGHT * idx_y
      BY <3>1, <3>3
    <3>5. yi + LETTER_HEIGHT <= OffsY + B \/ yi = OffsY + B
      BY <1>7, <3>4 DEF BeforeNextCell
    <3>6. yi + LETTER_HEIGHT <= OffsY + (B + LETTER_HEIGHT)
      BY <3>5, DialogAssumption
    <3>7. QED
      BY <3>1, <3>4, <3>6
  <2>2. QED
    BY <1>1, <2>1 DEF AboveNextRow
<1>9. RowsSplit'
  <2>1. ASSUME NEW k \in 1 .. nth + 1, msg[k] = Newline,
               NEW i \in 1 .. n, NEW j \in 1 .. n, i <= N(k), N(k) < j
        PROVE  drawn[i].y + LETTER_HEIGHT <= drawn[j].y
    <3>1. k # nth + 1
      BY <1>2, <1>4, <2>1
    <3>2. k \in 1 .. nth
      BY <1>2, <3>1
    <3>3. QED
      BY <1>3, <2>1, <3>2 DEF RowsSplit
  <2>2. QED
    BY <1>1, <2>1 DEF RowsSplit
<1>10. QED
  BY <1>5, <1>6, <1>8, <1>9 DEF TextInv

LEMMA RestShows ==
    ASSUME IInv, TextInv, SkipByte \/ (\E c \in Byte : Receive(c)) \/ UNCHANGED vars
    PROVE  TextInv'
<1>1. Shown = First(msg, nth) /\ RowsSplit /\ AboveNextRow /\ NoMoreLetters
  BY DEF TextInv
<1>2. drawn' = drawn /\ idx_x' = idx_x /\ idx_y' = idx_y
  BY DEF SkipByte, Receive, vars
<1>3. msg \in Seq(Byte) /\ nth \in Nat /\ drawn \in Seq(LetterType)
  BY DEF IInv, TypeOK
<1>4. CASE SkipByte
  <2>1. More /\ msg[nth + 1] \notin Printable /\ msg[nth + 1] # Newline
        /\ msg' = msg /\ nth' = nth + 1
    BY <1>4, DialogAssumption DEF SkipByte
  <2>2. First(msg, nth + 1) = First(msg, nth)
    BY <2>1, ByteConsumed
  <2>3. Shown' = First(msg', nth')
    BY <1>1, <1>2, <2>1, <2>2 DEF Shown
  <2>4. NoMoreLetters'
    <3>1. \A k \in 0 .. nth + 1 : Len(First(msg, k)) <= Len(drawn)
      <4>. SUFFICES ASSUME NEW k \in 0 .. nth + 1 PROVE Len(First(msg, k)) <= Len(drawn)
        OBVIOUS
      <4>1. k \in 0 .. nth \/ k = nth + 1
        BY <1>3
      <4>2. nth \in 0 .. nth
        BY <1>3
      <4>3. QED
        BY <1>1, <2>2, <4>1, <4>2 DEF NoMoreLetters
    <3>2. QED
      BY <1>2, <2>1, <3>1 DEF NoMoreLetters
  <2>5. \A k \in 1 .. nth + 1 : msg[k] = Newline => k \in 1 .. nth
    BY <1>3, <2>1
  <2>6. RowsSplit' /\ AboveNextRow'
    BY <1>1, <1>2, <2>1, <2>5 DEF RowsSplit, AboveNextRow
  <2>7. QED
    BY <2>3, <2>4, <2>6 DEF TextInv
<1>5. CASE \E c \in Byte : Receive(c)
  <2>1. PICK c \in Byte : Receive(c)
    BY <1>5
  <2>2. nth = 0 /\ nth' = 0 /\ msg' = Append(msg, c)
    BY <2>1 DEF Receive
  <2>3. msg' \in Seq(Byte)
    BY <1>3, <2>2
  <2>4. PICK m \in Seq(Byte) : m = msg'
    BY <2>3
  <2>5. First(msg, 0) = <<>> /\ First(m, 0) = <<>>
    BY <1>3, FirstSteps
  <2>6. Shown' = First(msg', nth')
    BY <1>1, <1>2, <2>2, <2>4, <2>5 DEF Shown
  <2>7. NoMoreLetters'
    BY <1>2, <1>3, <2>2, <2>4, <2>5 DEF NoMoreLetters
  <2>8. RowsSplit' /\ AboveNextRow'
    BY <2>2 DEF RowsSplit, AboveNextRow
  <2>9. QED
    BY <2>6, <2>7, <2>8 DEF TextInv
<1>6. CASE UNCHANGED vars
  BY <1>1, <1>6 DEF vars, TextInv, Shown, RowsSplit, AboveNextRow, NoMoreLetters
<1>7. QED
  BY <1>4, <1>5, <1>6

(***************************************************************************)
(* Whatever the message, the letters consumed are the letters drawn, in    *)
(* their order, and a newline separates rows.                              *)
(***************************************************************************)
THEOREM MessageShown == Spec => []TextShown
<1>1. IInv /\ TextInv /\ [Next]_vars => TextInv'
  BY DrawLetterShows, StartRowShows, RestShows DEF Next
<1>2. TextInv => TextShown
  BY DEF TextInv, TextShown, Shown, RowsSplit, First
<1>3. QED
  BY Inductive, InitTextInv, <1>1, <1>2, PTL DEF Spec

-----------------------------------------------------------------------------
(***************************************************************************)
(* The parser of module DisasMessage finds the fields of a message one     *)
(* after the other in memory; the format says where the words of the       *)
(* payload are.  Both are shown to describe the same layout: where each of *)
(* six words begins and where each of the first five ends.                 *)
(***************************************************************************)
(* The least and the greatest element of a set, which the parser and the   *)
(* reference search for                                                    *)
LEMMA MinIs ==
  ASSUME NEW S \in SUBSET Nat, NEW x \in S, \A y \in S : x <= y
  PROVE  Min(S) = x
  <1>1. \A z \in S : (\A y \in S : z <= y) => z = x
    <2> SUFFICES ASSUME NEW z \in S, \A y \in S : z <= y PROVE z = x
      OBVIOUS
    <2>1. z <= x /\ x <= z /\ z \in Nat /\ x \in Nat
      OBVIOUS
    <2> QED BY <2>1
  <1> QED BY <1>1 DEF Min

LEMMA MinElement ==
  ASSUME NEW S \in SUBSET Nat, S # {}
  PROVE  Min(S) \in S /\ \A y \in S : Min(S) <= y
  <1>1. PICK x \in S : \A y \in S : x <= y
    BY HasLeast
  <1>2. Min(S) = x
    BY <1>1, MinIs
  <1> QED BY <1>1, <1>2

LEMMA MaxIs ==
  ASSUME NEW S \in SUBSET Nat, NEW x \in S, \A y \in S : x >= y
  PROVE  Max(S) = x
  <1>1. \A z \in S : (\A y \in S : z >= y) => z = x
    <2> SUFFICES ASSUME NEW z \in S, \A y \in S : z >= y PROVE z = x
      OBVIOUS
    <2>1. z <= x /\ x <= z /\ z \in Nat /\ x \in Nat
      OBVIOUS
    <2> QED BY <2>1
  <1> QED BY <1>1 DEF Max

Octet == 0 .. 255

(* The memory that starts with payload s *)
Holds(mem, s) ==
    /\ mem \in Seq(Octet) /\ s \in Seq(Octet) /\ Len(s) < Len(mem)
    /\ mem[Len(mem)] = NUL
    /\ \A k \in 1 .. Len(s) : mem[k] = s[k]

(* Stretches of delimiters, and of other bytes, from p up to q *)
Gap(s, p, q) == p < q /\ \A j \in p .. q - 1 : is_delimiter(s[j])
Run(s, p, q) == p < q /\ \A j \in p .. q - 1 : ~is_delimiter(s[j])

LEMMA SomeBytes ==
  /\ ~is_delimiter(NUL) /\ NUL \notin Digit
  /\ \A c \in Digit : ~is_delimiter(c)
  /\ \A c : is_delimiter(c) => c # NUL /\ c \notin Digit
  BY DEF is_delimiter, NUL, Digit

(* SKIP_DELIMITERS stops at the first byte that is no delimiter. *)
LEMMA Skips ==
  ASSUME NEW mem, NEW s, Holds(mem, s), NEW p \in 1 .. Len(mem), is_delimiter(mem[p])
  PROVE  /\ \A r \in 1 .. Len(mem) :
              Gap(mem, p, r) /\ ~is_delimiter(mem[r]) /\ mem[r] # NUL
                  => SKIP_DELIMITERS(mem, p) = r
         /\ SKIP_DELIMITERS(mem, p) # Stop
              => /\ SKIP_DELIMITERS(mem, p) \in 1 .. Len(mem)
                 /\ Gap(mem, p, SKIP_DELIMITERS(mem, p))
                 /\ ~is_delimiter(mem[SKIP_DELIMITERS(mem, p)])
                 /\ mem[SKIP_DELIMITERS(mem, p)] # NUL
  <1> DEFINE S == {j \in p .. Len(mem) : ~is_delimiter(mem[j])}
  <1>1. Len(mem) \in Nat /\ Len(mem) \in S /\ S \in SUBSET Nat /\ p \in Nat /\ p # Stop
    BY SomeBytes DEF Holds, Stop
  <1>2. SKIP_DELIMITERS(mem, p) = IF mem[Min(S)] = NUL THEN Stop ELSE Min(S)
    BY <1>1 DEF SKIP_DELIMITERS
  <1>3. Min(S) \in S /\ \A y \in S : Min(S) <= y
    <2> HIDE DEF S
    <2> QED BY <1>1, MinElement
  <1>4. PICK k \in S : k = Min(S) /\ \A y \in S : k <= y
    <2> HIDE DEF S
    <2> QED BY <1>3
  <1>5. ASSUME NEW r \in 1 .. Len(mem), Gap(mem, p, r), ~is_delimiter(mem[r]), mem[r] # NUL
        PROVE  SKIP_DELIMITERS(mem, p) = r
    <2>1. r \in S
      BY <1>5, <1>1 DEF Gap
    <2>2. ASSUME NEW y \in S PROVE r <= y
      BY <1>5, <1>1 DEF Gap
    <2>3. Min(S) = r
      <3> HIDE DEF S
      <3> QED BY <1>1, <2>1, <2>2, MinIs
    <2> HIDE DEF S
    <2> QED BY <1>2, <1>5, <2>3
  <1>6. k \in p .. Len(mem) /\ ~is_delimiter(mem[k]) /\ k # p
    <2>1. k \in S
      BY <1>4
    <2> QED BY <2>1
  <1>7. Gap(mem, p, k)
    <2>1. \A j \in p .. k - 1 : j \in p .. Len(mem) /\ ~(k <= j)
      BY <1>1, <1>6
    <2>2. \A j \in p .. k - 1 : is_delimiter(mem[j])
      BY <1>4, <2>1
    <2>3. p < k
      BY <1>1, <1>6
    <2> QED BY <2>2, <2>3 DEF Gap
  <1>8. k \in 1 .. Len(mem)
    BY <1>1, <1>6
  <1> HIDE DEF S
  <1>9. SKIP_DELIMITERS(mem, p) = IF mem[k] = NUL THEN Stop ELSE k
    BY <1>2, <1>4
  <1> QED BY <1>5, <1>6, <1>7, <1>8, <1>9

(* SkipVersion stops behind the word ... *)
LEMMA SkipsVersion ==
  ASSUME NEW mem, NEW s, Holds(mem, s), NEW p \in 1 .. Len(mem), ~is_delimiter(mem[p]),
         mem[p] # NUL
  PROVE  /\ \A r \in 1 .. Len(mem) :
              Run(mem, p, r) /\ is_delimiter(mem[r]) /\ (\A j \in p .. r : mem[j] # NUL)
                  => SkipVersion(mem, p) = r
         /\ SkipVersion(mem, p) # Stop
              => /\ SkipVersion(mem, p) \in 1 .. Len(mem)
                 /\ Run(mem, p, SkipVersion(mem, p))
                 /\ is_delimiter(mem[SkipVersion(mem, p)])
                 /\ \A j \in p .. SkipVersion(mem, p) : mem[j] # NUL
  <1> DEFINE S == {j \in p .. Len(mem) : is_delimiter(mem[j]) \/ mem[j] = NUL}
  <1>1. Len(mem) \in Nat /\ Len(mem) \in S /\ S \in SUBSET Nat /\ p \in Nat /\ p # Stop
    BY SomeBytes DEF Holds, Stop
  <1>2. SkipVersion(mem, p) = IF mem[Min(S)] = NUL THEN Stop ELSE Min(S)
    BY <1>1 DEF SkipVersion
  <1>3. Min(S) \in S /\ \A y \in S : Min(S) <= y
    <2> HIDE DEF S
    <2> QED BY <1>1, MinElement
  <1>4. PICK k \in S : k = Min(S) /\ \A y \in S : k <= y
    <2> HIDE DEF S
    <2> QED BY <1>3
  <1>5. ASSUME NEW r \in 1 .. Len(mem), Run(mem, p, r), is_delimiter(mem[r]),
               \A j \in p .. r : mem[j] # NUL
        PROVE  SkipVersion(mem, p) = r
    <2>1. r \in S /\ mem[r] # NUL
      BY <1>5, <1>1 DEF Run
    <2>2. ASSUME NEW y \in S PROVE r <= y
      BY <1>5, <1>1 DEF Run
    <2>3. Min(S) = r
      <3> HIDE DEF S
      <3> QED BY <1>1, <2>1, <2>2, MinIs
    <2> HIDE DEF S
    <2> QED BY <1>2, <1>5, <2>1, <2>3
  <1>6. k \in p .. Len(mem) /\ (is_delimiter(mem[k]) \/ mem[k] = NUL) /\ k # p
    <2>1. k \in S
      BY <1>4
    <2> QED BY <2>1
  <1>7. Run(mem, p, k) /\ \A j \in p .. k - 1 : mem[j] # NUL
    <2>1. \A j \in p .. k - 1 : j \in p .. Len(mem) /\ ~(k <= j)
      BY <1>1, <1>6
    <2>2. \A j \in p .. k - 1 : ~is_delimiter(mem[j]) /\ mem[j] # NUL
      BY <1>4, <2>1
    <2>3. p < k
      BY <1>1, <1>6
    <2> QED BY <2>2, <2>3 DEF Run
  <1>8. k \in 1 .. Len(mem) /\ \A j \in p .. k : j = k \/ j \in p .. k - 1
    BY <1>1, <1>6
  <1> HIDE DEF S
  <1>9. SkipVersion(mem, p) = IF mem[k] = NUL THEN Stop ELSE k
    BY <1>2, <1>4
  <1> QED BY <1>5, <1>6, <1>7, <1>8, <1>9

(* ... and READ_INTEGER behind the digits. *)
LEMMA ReadsDigits ==
  ASSUME NEW mem, NEW s, Holds(mem, s), NEW p \in 1 .. Len(mem), ~is_delimiter(mem[p])
  PROVE  /\ \A r \in 1 .. Len(mem) :
              p < r /\ (\A j \in p .. r - 1 : mem[j] \in Digit) /\ is_delimiter(mem[r])
                  => IntegerEnd(mem, p) = r
         /\ IntegerEnd(mem, p) # Stop
              => /\ IntegerEnd(mem, p) \in 1 .. Len(mem)
                 /\ p < IntegerEnd(mem, p)
                 /\ \A j \in p .. IntegerEnd(mem, p) - 1 : mem[j] \in Digit
                 /\ is_delimiter(mem[IntegerEnd(mem, p)])
  <1> DEFINE S == {j \in p .. Len(mem) : mem[j] \notin Digit}
  <1>1. Len(mem) \in Nat /\ Len(mem) \in S /\ S \in SUBSET Nat /\ p \in Nat /\ p # Stop
    BY SomeBytes DEF Holds, Stop
  <1>2. IntegerEnd(mem, p) = IF is_delimiter(mem[Min(S)]) THEN Min(S) ELSE Stop
    BY <1>1 DEF IntegerEnd
  <1>3. Min(S) \in S /\ \A y \in S : Min(S) <= y
    <2> HIDE DEF S
    <2> QED BY <1>1, MinElement
  <1>4. PICK k \in S : k = Min(S) /\ \A y \in S : k <= y
    <2> HIDE DEF S
    <2> QED BY <1>3
  <1>5. ASSUME NEW r \in 1 .. Len(mem), p < r, \A j \in p .. r - 1 : mem[j] \in Digit,
               is_delimiter(mem[r])
        PROVE  IntegerEnd(mem, p) = r
    <2>1. r \in S
      BY <1>5, <1>1, SomeBytes
    <2>2. ASSUME NEW y \in S PROVE r <= y
      BY <1>5, <1>1
    <2>3. Min(S) = r
      <3> HIDE DEF S
      <3> QED BY <1>1, <2>1, <2>2, MinIs
    <2> HIDE DEF S
    <2> QED BY <1>2, <1>5, <2>3
  <1>6. k \in p .. Len(mem) /\ mem[k] \notin Digit
    <2>1. k \in S
      BY <1>4
    <2> QED BY <2>1
  <1>7. \A j \in p .. k - 1 : mem[j] \in Digit
    <2>1. \A j \in p .. k - 1 : j \in p .. Len(mem) /\ ~(k <= j)
      BY <1>1, <1>6
    <2> QED BY <1>4, <2>1
  <1>8. k \in 1 .. Len(mem) /\ (k # p => p < k)
    BY <1>1, <1>6
  <1> HIDE DEF S
  <1>9. IntegerEnd(mem, p) = IF is_delimiter(mem[k]) THEN k ELSE Stop
    BY <1>2, <1>4
  <1> QED BY <1>5, <1>6, <1>7, <1>8, <1>9

(* The reference: the next word, when there is one *)
LEMMA NextWordFacts ==
  ASSUME NEW s \in Seq(Octet), NEW i \in Nat
  PROVE  /\ NextWord(s, i) \in 1 .. Len(s) + 1
         /\ NextWord(s, i) <= Len(s)
              => /\ NextWord(s, i) \in WordStart(s) /\ i < NextWord(s, i)
                 /\ \A j \in WordStart(s) : i < j => NextWord(s, i) <= j
         /\ \A q \in WordStart(s) :
              i < q /\ (\A j \in i + 1 .. q - 1 : j \notin WordStart(s)) => NextWord(s, i) = q
  <1> DEFINE A == {j \in WordStart(s) : j > i}
             S == A \cup {Len(s) + 1}
  <1>1. Len(s) \in Nat /\ WordStart(s) \subseteq 1 .. Len(s)
    BY DEF WordStart
  <1>2. S \in SUBSET Nat /\ S \subseteq 1 .. Len(s) + 1 /\ S # {}
    <2>1. A \subseteq 1 .. Len(s)
      BY <1>1
    <2> HIDE DEF A
    <2>2. Len(s) + 1 \in S
      OBVIOUS
    <2>3. ASSUME NEW y \in S PROVE y \in 1 .. Len(s) + 1
      <3>1. y \in A \/ y = Len(s) + 1
        OBVIOUS
      <3>2. y \in 1 .. Len(s) \/ y = Len(s) + 1
        <4> HIDE DEF S
        <4> QED BY <2>1, <3>1
      <3>3. Len(s) \in Nat
        OBVIOUS
      <3> HIDE DEF S
      <3> QED BY <3>2, <3>3
    <2> HIDE DEF S
    <2>4. S \subseteq 1 .. Len(s) + 1
      BY <2>3
    <2>5. S \in SUBSET Nat
      BY <2>4
    <2> QED BY <2>2, <2>4, <2>5
  <1>3. NextWord(s, i) = Min(S)
    BY DEF NextWord
  <1>4. Min(S) \in S /\ \A y \in S : Min(S) <= y
    <2> HIDE DEF S
    <2> QED BY <1>2, MinElement
  <1>5. PICK k \in S : k = NextWord(s, i) /\ \A y \in S : k <= y
    <2> HIDE DEF S
    <2> QED BY <1>3, <1>4
  <1>6. k \in 1 .. Len(s) + 1
    <2> HIDE DEF S
    <2> QED BY <1>2, <1>5
  <1>7. ASSUME k <= Len(s)
        PROVE  k \in WordStart(s) /\ i < k /\ \A j \in WordStart(s) : i < j => k <= j
    <2>1. k # Len(s) + 1
      BY <1>1, <1>6, <1>7
    <2>2. k \in A
      BY <1>5, <2>1
    <2>3. \A j \in WordStart(s) : i < j => j \in S
      <3>1. \A j \in WordStart(s) : j \in Nat
        BY <1>1
      <3> QED BY <3>1
    <2>4. i < k
      BY <1>6, <2>2
    <2> QED BY <1>5, <2>2, <2>3, <2>4
  <1>8. ASSUME NEW q \in WordStart(s), i < q, \A j \in i + 1 .. q - 1 : j \notin WordStart(s)
        PROVE  NextWord(s, i) = q
    <2>1. q \in 1 .. Len(s) /\ q \in Nat
      BY <1>1
    <2>2. q \in S
      BY <1>8, <2>1
    <2>3. ASSUME NEW y \in S PROVE q <= y
      <3>1. CASE y = Len(s) + 1
        BY <1>1, <2>1, <3>1
      <3>2. CASE y \in A
        <4>1. y \in WordStart(s) /\ y > i /\ y \in Nat
          BY <1>1, <3>2
        <4>2. y \notin i + 1 .. q - 1
          BY <1>8, <4>1
        <4> QED BY <2>1, <4>1, <4>2
      <3> QED BY <3>1, <3>2
    <2> HIDE DEF S
    <2> QED BY <1>2, <1>3, <2>2, <2>3, MinIs
  <1> HIDE DEF S, A
  <1> QED BY <1>5, <1>6, <1>7, <1>8

(* The words are numbered one after the other. *)
LEMMA NthUptoSteps ==
  ASSUME NEW s \in Seq(Octet), NEW n \in Nat
  PROVE  /\ NthUpto(s, n)[0] = 0
         /\ \A k \in 1 .. n : NthUpto(s, n)[k] = NextWord(s, NthUpto(s, n)[k - 1])
         /\ \A k \in 0 .. n : NthUpto(s, n)[k] \in Nat
  <1> DEFINE F(st) == [k \in 0 .. n |-> IF k = 0 THEN 0 ELSE NextWord(s, st[k - 1])]
             g == [k \in 1 .. n |-> [i \in Nat |-> NextWord(s, i)]]
             st0 == CHOOSE st : st = F(st)
  <1>1. \A k \in 1 .. n : g[k] \in [Nat -> Nat]
    <2>1. \A i \in Nat : NextWord(s, i) \in Nat
      <3>1. Len(s) \in Nat
        OBVIOUS
      <3>2. \A i \in Nat : NextWord(s, i) \in 1 .. Len(s) + 1
        BY NextWordFacts
      <3> QED BY <3>1, <3>2
    <2> QED BY <2>1
  <1>2. \A k \in 1 .. n : \A i \in Nat : g[k][i] = NextWord(s, i)
    OBVIOUS
  <1> HIDE DEF g
  <1>3. 0 \in Nat
    OBVIOUS
  <1>4. PICK f \in [0 .. n -> Nat] : Iterates(f, 0, g, n)
    BY <1>1, <1>3, IterationExists
  <1>5. f[0] = 0 /\ \A k \in 1 .. n : f[k] = NextWord(s, f[k - 1])
    <2>1. f[0] = 0 /\ \A k \in 1 .. n : f[k] = g[k][f[k - 1]]
      BY <1>4 DEF Iterates
    <2>2. \A k \in 1 .. n : k - 1 \in 0 .. n /\ f[k - 1] \in Nat
      BY <1>4
    <2> QED BY <1>2, <2>1, <2>2
  <1>6. f = F(f)
    <2>1. \A k \in 0 .. n : k # 0 => k \in 1 .. n
      OBVIOUS
    <2>2. \A k \in 0 .. n : f[k] = IF k = 0 THEN 0 ELSE NextWord(s, f[k - 1])
      BY <1>5, <2>1
    <2> QED BY <1>4, <2>2
  <1>7. st0 = F(st0)
    <2> HIDE DEF F
    <2> QED BY <1>6
  <1>8. NthUpto(s, n) = st0
    BY DEF NthUpto
  <1> HIDE DEF st0
  <1>9. PICK h : h = NthUpto(s, n) /\ h = F(h)
    BY <1>7, <1>8
  <1>10. h[0] = 0 /\ \A k \in 1 .. n : h[k] = NextWord(s, h[k - 1])
    <2>1. \A k \in 1 .. n : k \in 0 .. n /\ k # 0
      OBVIOUS
    <2>2. 0 \in 0 .. n
      OBVIOUS
    <2>3. \A k \in 0 .. n : h[k] = IF k = 0 THEN 0 ELSE NextWord(s, h[k - 1])
      BY <1>9
    <2> HIDE DEF F
    <2> QED BY <2>1, <2>2, <2>3
  <1> HIDE DEF F
  <1> DEFINE B == {k \in 0 .. n : h[k] # f[k]}
  <1>11. B = {}
    <2> SUFFICES ASSUME B # {} PROVE FALSE
      OBVIOUS
    <2>1. B \in SUBSET Nat
      OBVIOUS
    <2>2. PICK x \in B : \A y \in B : x <= y
      <3> HIDE DEF B
      <3> QED BY <2>1, HasLeast
    <2>3. x \in 0 .. n /\ h[x] # f[x]
      OBVIOUS
    <2>4. x # 0
      BY <1>5, <1>10, <2>3
    <2>5. x \in 1 .. n /\ x - 1 \in 0 .. n /\ ~(x <= x - 1)
      BY <2>3, <2>4
    <2>6. h[x - 1] = f[x - 1]
      BY <2>2, <2>5
    <2> QED BY <1>5, <1>10, <2>3, <2>5, <2>6
  <1>12. \A k \in 0 .. n : h[k] = f[k]
    BY <1>11
  <1>13. \A k \in 0 .. n : h[k] \in Nat
    BY <1>4, <1>12
  <1> QED BY <1>9, <1>10, <1>13

LEMMA NthNext ==
  ASSUME NEW s \in Seq(Octet), NEW n \in Nat
  PROVE  Nth(s, n) \in Nat /\ Nth(s, 0) = 0 /\ Nth(s, n + 1) = NextWord(s, Nth(s, n))
  <1> DEFINE f == NthUpto(s, n)
             h == NthUpto(s, n + 1)
  <1>1. 0 \in Nat /\ n + 1 \in Nat
    OBVIOUS
  <1>2. f[0] = 0 /\ (\A k \in 1 .. n : f[k] = NextWord(s, f[k - 1])) /\ \A k \in 0 .. n : f[k] \in Nat
    BY NthUptoSteps
  <1>3. h[0] = 0 /\ \A k \in 1 .. n + 1 : h[k] = NextWord(s, h[k - 1])
    BY <1>1, NthUptoSteps
  <1>4. NthUpto(s, 0)[0] = 0
    BY <1>1, NthUptoSteps
  <1> HIDE DEF f, h
  <1> DEFINE B == {k \in 0 .. n : h[k] # f[k]}
  <1>5. B = {}
    <2> SUFFICES ASSUME B # {} PROVE FALSE
      OBVIOUS
    <2>1. B \in SUBSET Nat
      OBVIOUS
    <2>2. PICK x \in B : \A y \in B : x <= y
      <3> HIDE DEF B
      <3> QED BY <2>1, HasLeast
    <2>3. x \in 0 .. n /\ h[x] # f[x]
      OBVIOUS
    <2>4. x # 0
      BY <1>2, <1>3, <2>3
    <2>5. x \in 1 .. n /\ x \in 1 .. n + 1 /\ x - 1 \in 0 .. n /\ ~(x <= x - 1)
      BY <2>3, <2>4
    <2>6. h[x - 1] = f[x - 1]
      BY <2>2, <2>5
    <2> QED BY <1>2, <1>3, <2>3, <2>5, <2>6
  <1>6. h[n] = f[n] /\ f[n] \in Nat
    <2>1. n \in 0 .. n
      OBVIOUS
    <2> QED BY <1>2, <1>5, <2>1
  <1>7. h[n + 1] = NextWord(s, h[n])
    <2>1. n + 1 \in 1 .. n + 1 /\ (n + 1) - 1 = n
      OBVIOUS
    <2> QED BY <1>3, <2>1
  <1> QED BY <1>4, <1>6, <1>7 DEF Nth, f, h

(* Where the six words of a message in the format begin, and where the     *)
(* first five end                                                          *)
Layout(s, w, e) ==
    /\ w \in [1 .. 6 -> Nat] /\ e \in [1 .. 5 -> Nat]
    /\ w[1] = 1 /\ w[6] <= Len(s) /\ ~is_delimiter(s[w[6]])
    /\ \A k \in 1 .. 5 : Run(s, w[k], e[k]) /\ Gap(s, e[k], w[k + 1])

LEMMA LayoutOrder ==
  ASSUME NEW s \in Seq(Octet), NEW w, NEW e, Layout(s, w, e)
  PROVE  /\ \A k \in 1 .. 6 : w[k] \in 1 .. Len(s) /\ ~is_delimiter(s[w[k]]) /\ w[k] <= w[6]
         /\ \A k \in 1 .. 5 : /\ e[k] \in 1 .. Len(s) /\ is_delimiter(s[e[k]])
                              /\ w[k] < e[k] /\ e[k] < w[k + 1] /\ e[k] < w[6]
                              /\ k + 1 \in 1 .. 6 /\ w[k + 1] \in 1 .. Len(s)
  <1>1. /\ w \in [1 .. 6 -> Nat] /\ e \in [1 .. 5 -> Nat]
        /\ w[1] = 1 /\ w[6] <= Len(s) /\ ~is_delimiter(s[w[6]])
    BY DEF Layout
  <1>2. \A k \in 1 .. 5 : w[k] < e[k] /\ e[k] < w[k + 1]
    BY DEF Layout, Run, Gap
  <1>3. \A k \in 1 .. 5 : ~is_delimiter(s[w[k]]) /\ is_delimiter(s[e[k]])
    <2> SUFFICES ASSUME NEW k \in 1 .. 5 PROVE ~is_delimiter(s[w[k]]) /\ is_delimiter(s[e[k]])
      OBVIOUS
    <2>1. w[k] \in w[k] .. e[k] - 1 /\ e[k] \in e[k] .. w[k + 1] - 1
      <3>0. k \in 1 .. 6 /\ k + 1 \in 1 .. 6
        OBVIOUS
      <3>1. w[k] \in Nat /\ e[k] \in Nat /\ w[k + 1] \in Nat
        BY <1>1, <3>0
      <3>2. w[k] < e[k] /\ e[k] < w[k + 1]
        BY <1>2
      <3> QED BY <3>1, <3>2
    <2> QED BY <2>1 DEF Layout, Run, Gap
  <1>4. /\ w[1] \in Nat /\ w[2] \in Nat /\ w[3] \in Nat /\ w[4] \in Nat /\ w[5] \in Nat /\ w[6] \in Nat
        /\ e[1] \in Nat /\ e[2] \in Nat /\ e[3] \in Nat /\ e[4] \in Nat /\ e[5] \in Nat
        /\ Len(s) \in Nat
    BY <1>1
  <1>5. /\ w[1] < e[1] /\ e[1] < w[2] /\ w[2] < e[2] /\ e[2] < w[3] /\ w[3] < e[3]
        /\ e[3] < w[4] /\ w[4] < e[4] /\ e[4] < w[5] /\ w[5] < e[5] /\ e[5] < w[6]
    BY <1>2
  <1>6. /\ w[1] \in 1 .. w[6] /\ w[2] \in 1 .. w[6] /\ w[3] \in 1 .. w[6]
        /\ w[4] \in 1 .. w[6] /\ w[5] \in 1 .. w[6] /\ w[6] \in 1 .. w[6]
        /\ e[1] \in 1 .. w[6] /\ e[2] \in 1 .. w[6] /\ e[3] \in 1 .. w[6]
        /\ e[4] \in 1 .. w[6] /\ e[5] \in 1 .. w[6]
        /\ e[1] < w[6] /\ e[2] < w[6] /\ e[3] < w[6] /\ e[4] < w[6] /\ e[5] < w[6]
    <2>0. w[1] = 1
      BY <1>1
    <2>1. \E w1, w2, w3, w4, w5, w6, e1, e2, e3, e4, e5 \in Nat :
             /\ w1 = w[1] /\ w2 = w[2] /\ w3 = w[3] /\ w4 = w[4] /\ w5 = w[5] /\ w6 = w[6]
             /\ e1 = e[1] /\ e2 = e[2] /\ e3 = e[3] /\ e4 = e[4] /\ e5 = e[5]
      BY <1>4
    <2>2. PICK w1, w2, w3, w4, w5, w6, e1, e2, e3, e4, e5 \in Nat :
             /\ w1 = w[1] /\ w2 = w[2] /\ w3 = w[3] /\ w4 = w[4] /\ w5 = w[5] /\ w6 = w[6]
             /\ e1 = e[1] /\ e2 = e[2] /\ e3 = e[3] /\ e4 = e[4] /\ e5 = e[5]
      BY <2>1
    <2>3. /\ w1 = 1 /\ w1 < e1 /\ e1 < w2 /\ w2 < e2 /\ e2 < w3 /\ w3 < e3
          /\ e3 < w4 /\ w4 < e4 /\ e4 < w5 /\ w5 < e5 /\ e5 < w6
      BY <1>5, <2>0, <2>2
    <2>4. /\ w1 \in 1 .. w6 /\ w2 \in 1 .. w6 /\ w3 \in 1 .. w6
          /\ w4 \in 1 .. w6 /\ w5 \in 1 .. w6 /\ w6 \in 1 .. w6
          /\ e1 \in 1 .. w6 /\ e2 \in 1 .. w6 /\ e3 \in 1 .. w6
          /\ e4 \in 1 .. w6 /\ e5 \in 1 .. w6
          /\ e1 < w6 /\ e2 < w6 /\ e3 < w6 /\ e4 < w6 /\ e5 < w6
      BY <2>3
    <2> QED BY <2>2, <2>4
  <1>7. \A k \in 1 .. 6 : k = 1 \/ k = 2 \/ k = 3 \/ k = 4 \/ k = 5 \/ k = 6
    OBVIOUS
  <1>8. ASSUME NEW k \in 1 .. 6
        PROVE  w[k] \in 1 .. Len(s) /\ ~is_delimiter(s[w[k]]) /\ w[k] <= w[6]
    <2>1. w[k] \in 1 .. w[6]
      BY <1>6, <1>7
    <2>2. k = 6 \/ k \in 1 .. 5
      OBVIOUS
    <2>3. w[k] \in 1 .. Len(s) /\ w[k] <= w[6]
      <3>1. w[6] \in Nat /\ Len(s) \in Nat /\ w[6] <= Len(s)
        BY <1>1, <1>4
      <3> QED BY <2>1, <3>1
    <2>4. ~is_delimiter(s[w[k]])
      BY <1>1, <1>3, <2>2
    <2> QED BY <2>3, <2>4
  <1>9. ASSUME NEW k \in 1 .. 5
        PROVE  /\ e[k] \in 1 .. Len(s) /\ is_delimiter(s[e[k]])
               /\ w[k] < e[k] /\ e[k] < w[k + 1] /\ e[k] < w[6]
               /\ k + 1 \in 1 .. 6 /\ w[k + 1] \in 1 .. Len(s)
    <2>1. e[k] \in 1 .. w[6] /\ e[k] < w[6]
      <3>1. k = 1 \/ k = 2 \/ k = 3 \/ k = 4 \/ k = 5
        OBVIOUS
      <3> QED BY <1>6, <3>1
    <2>2. k + 1 \in 1 .. 6
      OBVIOUS
    <2>3. e[k] \in 1 .. Len(s)
      <3>1. w[6] \in Nat /\ Len(s) \in Nat /\ w[6] <= Len(s)
        BY <1>1, <1>4
      <3> QED BY <2>1, <3>1
    <2> QED BY <1>2, <1>3, <1>8, <2>1, <2>2, <2>3
  <1> QED BY <1>8, <1>9

(* One word and the gap behind it *)
LEMMA WordAndGap ==
  ASSUME NEW s \in Seq(Octet), NEW i \in 1 .. Len(s), NEW p \in 1 .. Len(s),
         NEW q \in 1 .. Len(s), Run(s, i, p), Gap(s, p, q), ~is_delimiter(s[q])
  PROVE  WordEnd(s, i) = p - 1 /\ NextWord(s, i) = q
  <1>1. Len(s) \in Nat /\ i < p /\ p < q
    BY DEF Run, Gap
  <1>2. \A j \in i .. p - 1 : ~is_delimiter(s[j])
    BY DEF Run
  <1>3. \A j \in p .. q - 1 : is_delimiter(s[j])
    BY DEF Gap
  <1>4. WordEnd(s, i) = p - 1
    <2> DEFINE S == {j \in i .. Len(s) : \A k \in i .. j : ~is_delimiter(s[k])}
    <2>1. S \in SUBSET Nat
      OBVIOUS
    <2>2. p - 1 \in S
      BY <1>1, <1>2
    <2>3. ASSUME NEW y \in S PROVE p - 1 >= y
      <3>1. y \in i .. Len(s) /\ \A k \in i .. y : ~is_delimiter(s[k])
        OBVIOUS
      <3>2. p \notin i .. y
        <4>1. p \in p .. q - 1
          BY <1>1
        <4> QED BY <1>3, <3>1, <4>1
      <3> QED BY <1>1, <3>1, <3>2
    <2>4. WordEnd(s, i) = Max(S)
      BY DEF WordEnd
    <2> HIDE DEF S
    <2> QED BY <2>1, <2>2, <2>3, <2>4, MaxIs
  <1>5. q \in WordStart(s)
    <2>1. q - 1 \in p .. q - 1
      BY <1>1
    <2> QED BY <1>3, <2>1 DEF WordStart
  <1>6. ASSUME NEW j \in i + 1 .. q - 1, j \in WordStart(s) PROVE FALSE
    <2>1. ~is_delimiter(s[j]) /\ (j = 1 \/ is_delimiter(s[j - 1]))
      BY <1>6 DEF WordStart
    <2>2. j \notin p .. q - 1
      BY <1>3, <2>1
    <2>3. j - 1 \in i .. p - 1 /\ j # 1
      BY <1>1, <2>2
    <2> QED BY <1>2, <2>1, <2>3
  <1>7. i \in Nat /\ i < q
    BY <1>1
  <1>8. NextWord(s, i) = q
    BY <1>5, <1>6, <1>7, NextWordFacts
  <1> QED BY <1>4, <1>8

LEMMA WordThenGap ==
  ASSUME NEW s \in Seq(Octet), NEW i \in WordStart(s), NEW q \in 1 .. Len(s),
         NextWord(s, i) = q
  PROVE  \E p \in 1 .. Len(s) : Run(s, i, p) /\ Gap(s, p, q) /\ ~is_delimiter(s[q])
  <1>1. Len(s) \in Nat /\ i \in 1 .. Len(s) /\ i \in Nat /\ ~is_delimiter(s[i])
    BY DEF WordStart
  <1>2. q \in WordStart(s) /\ i < q /\ \A j \in WordStart(s) : i < j => q <= j
    <2>1. NextWord(s, i) <= Len(s)
      OBVIOUS
    <2> QED BY <1>1, <2>1, NextWordFacts
  <1>3. is_delimiter(s[q - 1]) /\ ~is_delimiter(s[q]) /\ q - 1 \in i .. Len(s)
    <2>1. q # 1
      BY <1>1, <1>2
    <2> QED BY <1>1, <1>2, <2>1 DEF WordStart
  <1> DEFINE D == {j \in i .. Len(s) : is_delimiter(s[j])}
  <1>4. D \in SUBSET Nat /\ D # {} /\ q - 1 \in D
    BY <1>1, <1>3
  <1>5. PICK p \in D : \A y \in D : p <= y
    <2> HIDE DEF D
    <2> QED BY <1>4, HasLeast
  <1>6. p \in i .. Len(s) /\ is_delimiter(s[p]) /\ p # i /\ p <= q - 1
    <2>1. p \in i .. Len(s) /\ is_delimiter(s[p])
      OBVIOUS
    <2>2. p <= q - 1
      <3> HIDE DEF D
      <3> QED BY <1>4, <1>5
    <2> HIDE DEF D
    <2> QED BY <1>1, <2>1, <2>2
  <1>7. Run(s, i, p)
    <2>1. \A j \in i .. p - 1 : j \in i .. Len(s) /\ ~(p <= j)
      BY <1>1, <1>6
    <2>2. \A j \in i .. p - 1 : ~is_delimiter(s[j])
      BY <1>5, <2>1
    <2>3. i < p
      BY <1>1, <1>6
    <2> QED BY <2>2, <2>3 DEF Run
  <1> DEFINE E == {j \in p .. q - 1 : ~is_delimiter(s[j])}
  <1>8. E = {}
    <2> SUFFICES ASSUME E # {} PROVE FALSE
      OBVIOUS
    <2>1. E \in SUBSET Nat
      BY <1>1, <1>6
    <2>2. PICK x \in E : \A y \in E : x <= y
      <3> HIDE DEF E
      <3> QED BY <2>1, HasLeast
    <2>3. x \in p .. q - 1 /\ ~is_delimiter(s[x])
      OBVIOUS
    <2>4. x # p
      BY <1>6, <2>3
    <2>5. x - 1 \in p .. q - 1 /\ ~(x <= x - 1)
      BY <1>1, <1>6, <2>3, <2>4
    <2>6. is_delimiter(s[x - 1])
      BY <2>2, <2>5
    <2>7. x \in WordStart(s) /\ i < x /\ ~(q <= x)
      <3>1. x \in 1 .. Len(s)
        BY <1>1, <1>6, <2>3
      <3>2. i < x /\ ~(q <= x)
        BY <1>1, <1>6, <2>3
      <3> QED BY <2>3, <2>6, <3>1, <3>2 DEF WordStart
    <2> QED BY <1>2, <2>7
  <1>9. Gap(s, p, q)
    <2>1. \A j \in p .. q - 1 : is_delimiter(s[j])
      BY <1>8
    <2>2. p < q
      BY <1>1, <1>6
    <2> QED BY <2>1, <2>2 DEF Gap
  <1>10. p \in 1 .. Len(s)
    BY <1>1, <1>6
  <1> QED BY <1>3, <1>7, <1>9, <1>10

(* The words of a layout are the words of the reference. *)
LEMMA LayoutWords ==
  ASSUME NEW s \in Seq(Octet), NEW w, NEW e, Layout(s, w, e)
  PROVE  /\ \A k \in 1 .. 6 : Nth(s, k) = w[k]
         /\ \A k \in 1 .. 5 : Word(s, k) = SubSeq(s, w[k], e[k] - 1)
  <1>1. \A k \in 1 .. 5 : WordEnd(s, w[k]) = e[k] - 1 /\ NextWord(s, w[k]) = w[k + 1]
    <2> SUFFICES ASSUME NEW k \in 1 .. 5
                 PROVE  WordEnd(s, w[k]) = e[k] - 1 /\ NextWord(s, w[k]) = w[k + 1]
      OBVIOUS
    <2>1. Run(s, w[k], e[k]) /\ Gap(s, e[k], w[k + 1])
      BY DEF Layout
    <2>2. /\ w[k] \in 1 .. Len(s) /\ e[k] \in 1 .. Len(s) /\ w[k + 1] \in 1 .. Len(s)
          /\ ~is_delimiter(s[w[k + 1]])
      <3>1. k \in 1 .. 6 /\ k + 1 \in 1 .. 6
        OBVIOUS
      <3> QED BY <3>1, LayoutOrder
    <2> QED BY <2>1, <2>2, WordAndGap
  <1>2. Nth(s, 1) = w[1]
    <2>1. 0 \in Nat /\ 0 + 1 = 1
      OBVIOUS
    <2>2. Nth(s, 0) = 0 /\ Nth(s, 0 + 1) = NextWord(s, Nth(s, 0))
      BY <2>1, NthNext
    <2>3. w[1] = 1 /\ 1 \in 1 .. Len(s) /\ ~is_delimiter(s[1])
      <3>1. 1 \in 1 .. 6 /\ w[1] = 1
        BY DEF Layout
      <3> QED BY <3>1, LayoutOrder
    <2>4. 1 \in WordStart(s)
      BY <2>3 DEF WordStart
    <2>5. 0 < 1 /\ \A j \in 0 + 1 .. 1 - 1 : j \notin WordStart(s)
      OBVIOUS
    <2>6. NextWord(s, 0) = 1
      BY <2>1, <2>4, <2>5, NextWordFacts
    <2> QED BY <2>1, <2>2, <2>3, <2>6
  <1>3. ASSUME NEW k \in 1 .. 5, Nth(s, k) = w[k] PROVE Nth(s, k + 1) = w[k + 1]
    <2>1. k \in Nat
      OBVIOUS
    <2>2. Nth(s, k + 1) = NextWord(s, Nth(s, k))
      BY <2>1, NthNext
    <2> QED BY <1>1, <1>3, <2>2
  <1>4. Nth(s, 2) = w[2]
    BY <1>2, <1>3
  <1>5. Nth(s, 3) = w[3]
    BY <1>4, <1>3
  <1>6. Nth(s, 4) = w[4]
    BY <1>5, <1>3
  <1>7. Nth(s, 5) = w[5]
    BY <1>6, <1>3
  <1>8. Nth(s, 6) = w[6]
    BY <1>7, <1>3
  <1>9. \A k \in 1 .. 6 : Nth(s, k) = w[k]
    <2>1. \A k \in 1 .. 6 : k = 1 \/ k = 2 \/ k = 3 \/ k = 4 \/ k = 5 \/ k = 6
      OBVIOUS
    <2> QED BY <1>2, <1>4, <1>5, <1>6, <1>7, <1>8, <2>1
  <1>10. ASSUME NEW k \in 1 .. 5 PROVE Word(s, k) = SubSeq(s, w[k], e[k] - 1)
    <2>1. k \in 1 .. 6
      OBVIOUS
    <2> QED BY <1>1, <1>9, <2>1 DEF Word
  <1> QED BY <1>9, <1>10

(* A payload of six words has a layout. *)
LEMMA WordsLayout ==
  ASSUME NEW s \in Seq(Octet), Nth(s, 1) = 1, Nth(s, 6) <= Len(s)
  PROVE  \E w, e : Layout(s, w, e)
  <1>1. \A k \in 0 .. 5 : Nth(s, k) \in Nat /\ Nth(s, k + 1) = NextWord(s, Nth(s, k))
    <2> SUFFICES ASSUME NEW k \in 0 .. 5
                 PROVE  Nth(s, k) \in Nat /\ Nth(s, k + 1) = NextWord(s, Nth(s, k))
      OBVIOUS
    <2>1. k \in Nat
      OBVIOUS
    <2> QED BY <2>1, NthNext
  <1>2. ASSUME NEW k \in 0 .. 5, Nth(s, k + 1) <= Len(s)
        PROVE  /\ Nth(s, k + 1) \in WordStart(s) /\ Nth(s, k + 1) \in 1 .. Len(s)
               /\ Nth(s, k) <= Len(s)
    <2>1. Nth(s, k) \in Nat /\ Nth(s, k + 1) = NextWord(s, Nth(s, k))
      BY <1>1
    <2>2. Nth(s, k + 1) \in WordStart(s) /\ Nth(s, k) < Nth(s, k + 1)
      BY <1>2, <2>1, NextWordFacts
    <2>3. Nth(s, k + 1) \in 1 .. Len(s) /\ Len(s) \in Nat
      BY <2>2 DEF WordStart
    <2> QED BY <2>1, <2>2, <2>3
  <1>3. Nth(s, 6) \in WordStart(s) /\ Nth(s, 6) \in 1 .. Len(s) /\ Nth(s, 5) <= Len(s)
    <2>1. 5 \in 0 .. 5 /\ 5 + 1 = 6
      OBVIOUS
    <2> QED BY <1>2, <2>1
  <1>4. Nth(s, 5) \in WordStart(s) /\ Nth(s, 5) \in 1 .. Len(s) /\ Nth(s, 4) <= Len(s)
    <2>1. 4 \in 0 .. 5 /\ 4 + 1 = 5
      OBVIOUS
    <2> QED BY <1>2, <1>3, <2>1
  <1>5. Nth(s, 4) \in WordStart(s) /\ Nth(s, 4) \in 1 .. Len(s) /\ Nth(s, 3) <= Len(s)
    <2>1. 3 \in 0 .. 5 /\ 3 + 1 = 4
      OBVIOUS
    <2> QED BY <1>2, <1>4, <2>1
  <1>6. Nth(s, 3) \in WordStart(s) /\ Nth(s, 3) \in 1 .. Len(s) /\ Nth(s, 2) <= Len(s)
    <2>1. 2 \in 0 .. 5 /\ 2 + 1 = 3
      OBVIOUS
    <2> QED BY <1>2, <1>5, <2>1
  <1>7. Nth(s, 2) \in WordStart(s) /\ Nth(s, 2) \in 1 .. Len(s) /\ Nth(s, 1) <= Len(s)
    <2>1. 1 \in 0 .. 5 /\ 1 + 1 = 2
      OBVIOUS
    <2> QED BY <1>2, <1>6, <2>1
  <1>8. Nth(s, 1) \in WordStart(s) /\ Nth(s, 1) \in 1 .. Len(s)
    <2>1. 0 \in 0 .. 5 /\ 0 + 1 = 1
      OBVIOUS
    <2> QED BY <1>2, <1>7, <2>1
  <1>9. \A k \in 1 .. 6 : Nth(s, k) \in WordStart(s) /\ Nth(s, k) \in 1 .. Len(s)
    <2>1. \A k \in 1 .. 6 : k = 1 \/ k = 2 \/ k = 3 \/ k = 4 \/ k = 5 \/ k = 6
      OBVIOUS
    <2> QED BY <1>3, <1>4, <1>5, <1>6, <1>7, <1>8, <2>1
  <1> DEFINE w == [k \in 1 .. 6 |-> Nth(s, k)]
             Ends(k, p) == Run(s, Nth(s, k), p) /\ Gap(s, p, Nth(s, k + 1))
             e == [k \in 1 .. 5 |-> CHOOSE p \in Nat : Ends(k, p)]
  <1>10. ASSUME NEW k \in 1 .. 5 PROVE \E p \in Nat : Ends(k, p)
    <2>1. k \in 1 .. 6 /\ k + 1 \in 1 .. 6 /\ k \in 0 .. 5
      OBVIOUS
    <2>2. /\ Nth(s, k) \in WordStart(s) /\ Nth(s, k + 1) \in 1 .. Len(s)
          /\ NextWord(s, Nth(s, k)) = Nth(s, k + 1)
      BY <1>1, <1>9, <2>1
    <2>3. PICK p \in 1 .. Len(s) : Run(s, Nth(s, k), p) /\ Gap(s, p, Nth(s, k + 1))
      BY <2>2, WordThenGap
    <2>4. p \in Nat
      OBVIOUS
    <2> QED BY <2>3, <2>4
  <1>11. \A k \in 1 .. 5 : e[k] \in Nat /\ Ends(k, e[k])
    <2> HIDE DEF Ends
    <2> QED BY <1>10
  <1>12. /\ \A k \in 1 .. 6 : w[k] = Nth(s, k)
         /\ \A k \in 1 .. 5 : w[k] = Nth(s, k) /\ w[k + 1] = Nth(s, k + 1)
    OBVIOUS
  <1>13. w \in [1 .. 6 -> Nat]
    <2>1. \A k \in 1 .. 6 : Nth(s, k) \in Nat
      BY <1>9
    <2> QED BY <2>1
  <1>14. e \in [1 .. 5 -> Nat]
    <2> HIDE DEF Ends
    <2> QED BY <1>10
  <1>15. w[1] = 1 /\ w[6] <= Len(s)
    BY <1>12
  <1>16. ~is_delimiter(s[w[6]])
    BY <1>3, <1>12 DEF WordStart
  <1> HIDE DEF w, e
  <1>17. \A k \in 1 .. 5 : Run(s, w[k], e[k]) /\ Gap(s, e[k], w[k + 1])
    BY <1>11, <1>12
  <1>18. Layout(s, w, e)
    BY <1>13, <1>14, <1>15, <1>16, <1>17 DEF Layout
  <1> QED BY <1>18

(* A numeral: the value that the reference gives it, and the one that      *)
(* READ_INTEGER computes in a variable that is too narrow for it           *)
LEMMA DigitRemainder ==
  ASSUME NEW M \in Nat \ {0}, NEW v \in Nat, NEW d \in Nat
  PROVE  ((v % M) * 10 + d) % M = (v * 10 + d) % M
  <1>1. PICK q \in Int, r \in 0 .. M - 1 : v = M * q + r /\ r = v % M
    <2>1. v = M * (v \div M) + (v % M) /\ v % M \in 0 .. M - 1 /\ v \div M \in Int
      OBVIOUS
    <2> QED BY <2>1
  <1> DEFINE y == r * 10 + d
  <1>2. y \in Int
    OBVIOUS
  <1>3. PICK p \in Int, z \in 0 .. M - 1 : y = M * p + z /\ z = y % M
    <2> HIDE DEF y
    <2>1. y = M * (y \div M) + (y % M) /\ y % M \in 0 .. M - 1 /\ y \div M \in Int
      BY <1>2
    <2> QED BY <2>1
  <1>4. v * 10 + d = M * (q * 10 + p) + z
    <2>1. v * 10 = (M * q) * 10 + r * 10
      BY <1>1
    <2>2. (M * q) * 10 = M * (q * 10)
      OBVIOUS
    <2>3. M * (q * 10 + p) = M * (q * 10) + M * p
      OBVIOUS
    <2>4. r * 10 + d = M * p + z
      BY <1>3
    <2>5. M * (q * 10) \in Int /\ M * p \in Int /\ v * 10 \in Int /\ r * 10 \in Int
      OBVIOUS
    <2> QED BY <2>1, <2>2, <2>3, <2>4, <2>5
  <1>5. (M * (q * 10 + p) + z) % M = z
    <2>1. q * 10 + p \in Int
      OBVIOUS
    <2> QED BY <2>1, Remainder
  <1> QED BY <1>1, <1>3, <1>4, <1>5

LEMMA ReadSteps ==
  ASSUME NEW ds \in Seq(Digit), NEW w \in Nat, 2^w > 0
  PROVE  LET f == ReadUpto(ds, w) IN
         f[0] = 0 /\ \A k \in 1 .. Len(ds) : f[k] = (f[k - 1] * 10 + (ds[k] - 48)) % 2^w
  <1>1. PICK M \in Nat \ {0} : M = 2^w
    <2>1. 2^w \in Int
      OBVIOUS
    <2> QED BY <2>1
  <1>2. PICK n \in Nat : n = Len(ds)
    OBVIOUS
  <1> DEFINE F(rd) == [k \in 0 .. n |-> IF k = 0 THEN 0 ELSE (rd[k - 1] * 10 + (ds[k] - 48)) % M]
             g == [k \in 1 .. n |-> [v \in Nat |-> (v * 10 + (ds[k] - 48)) % M]]
             rd0 == CHOOSE rd : rd = F(rd)
  <1>3. \A k \in 1 .. n : g[k] \in [Nat -> Nat]
    <2>1. ASSUME NEW k \in 1 .. n, NEW v \in Nat PROVE (v * 10 + (ds[k] - 48)) % M \in Nat
      <3>1. ds[k] \in Digit
        BY <1>2
      <3>2. v * 10 + (ds[k] - 48) \in Int
        BY <3>1 DEF Digit
      <3> QED BY <3>2
    <2> QED BY <2>1
  <1>4. \A k \in 1 .. n : \A v \in Nat : g[k][v] = (v * 10 + (ds[k] - 48)) % M
    OBVIOUS
  <1> HIDE DEF g
  <1>5. 0 \in Nat
    OBVIOUS
  <1>6. PICK f \in [0 .. n -> Nat] : Iterates(f, 0, g, n)
    BY <1>3, <1>5, IterationExists
  <1>7. f[0] = 0 /\ \A k \in 1 .. n : f[k] = (f[k - 1] * 10 + (ds[k] - 48)) % M
    <2>1. f[0] = 0 /\ \A k \in 1 .. n : f[k] = g[k][f[k - 1]]
      BY <1>6 DEF Iterates
    <2>2. \A k \in 1 .. n : k - 1 \in 0 .. n /\ f[k - 1] \in Nat
      BY <1>6
    <2> QED BY <1>4, <2>1, <2>2
  <1>8. f = F(f)
    <2>1. \A k \in 0 .. n : k # 0 => k \in 1 .. n
      OBVIOUS
    <2>2. \A k \in 0 .. n : f[k] = IF k = 0 THEN 0 ELSE (f[k - 1] * 10 + (ds[k] - 48)) % M
      BY <1>7, <2>1
    <2> QED BY <1>6, <2>2
  <1>9. rd0 = F(rd0)
    <2> HIDE DEF F
    <2> QED BY <1>8
  <1>10. ReadUpto(ds, w) = rd0
    BY <1>1, <1>2 DEF ReadUpto
  <1> HIDE DEF rd0
  <1>11. PICK h : h = ReadUpto(ds, w) /\ h = F(h)
    <2> HIDE DEF F
    <2> QED BY <1>9, <1>10
  <1>12. h[0] = 0 /\ \A k \in 1 .. n : h[k] = (h[k - 1] * 10 + (ds[k] - 48)) % M
    <2>1. \A k \in 1 .. n : k \in 0 .. n /\ k # 0
      OBVIOUS
    <2>2. 0 \in 0 .. n
      OBVIOUS
    <2>3. \A k \in 0 .. n : h[k] = IF k = 0 THEN 0 ELSE (h[k - 1] * 10 + (ds[k] - 48)) % M
      BY <1>11
    <2> HIDE DEF F
    <2> QED BY <2>1, <2>2, <2>3
  <1> HIDE DEF F
  <1> QED BY <1>1, <1>2, <1>11, <1>12

LEMMA ValueSteps ==
  ASSUME NEW ds \in Seq(Digit)
  PROVE  LET f == ValueUpto(ds) IN
         f[0] = 0 /\ \A k \in 1 .. Len(ds) : f[k - 1] \in Nat /\ f[k] = f[k - 1] * 10 + (ds[k] - 48)
  <1>2. PICK n \in Nat : n = Len(ds)
    OBVIOUS
  <1> DEFINE F(rd) == [k \in 0 .. n |-> IF k = 0 THEN 0 ELSE rd[k - 1] * 10 + (ds[k] - 48)]
             g == [k \in 1 .. n |-> [v \in Nat |-> v * 10 + (ds[k] - 48)]]
             rd0 == CHOOSE rd : rd = F(rd)
  <1>3. \A k \in 1 .. n : g[k] \in [Nat -> Nat]
    <2>1. ASSUME NEW k \in 1 .. n, NEW v \in Nat PROVE v * 10 + (ds[k] - 48) \in Nat
      <3>1. ds[k] \in Digit
        BY <1>2
      <3> QED BY <3>1 DEF Digit
    <2> QED BY <2>1
  <1>4. \A k \in 1 .. n : \A v \in Nat : g[k][v] = v * 10 + (ds[k] - 48)
    OBVIOUS
  <1> HIDE DEF g
  <1>5. 0 \in Nat
    OBVIOUS
  <1>6. PICK f \in [0 .. n -> Nat] : Iterates(f, 0, g, n)
    BY <1>3, <1>5, IterationExists
  <1>7. f[0] = 0 /\ \A k \in 1 .. n : f[k - 1] \in Nat /\ f[k] = f[k - 1] * 10 + (ds[k] - 48)
    <2>1. f[0] = 0 /\ \A k \in 1 .. n : f[k] = g[k][f[k - 1]]
      BY <1>6 DEF Iterates
    <2>2. \A k \in 1 .. n : k - 1 \in 0 .. n /\ f[k - 1] \in Nat
      BY <1>6
    <2> QED BY <1>4, <2>1, <2>2
  <1>8. f = F(f)
    <2>1. \A k \in 0 .. n : k # 0 => k \in 1 .. n
      OBVIOUS
    <2>2. \A k \in 0 .. n : f[k] = IF k = 0 THEN 0 ELSE f[k - 1] * 10 + (ds[k] - 48)
      BY <1>7, <2>1
    <2> QED BY <1>6, <2>2
  <1>9. rd0 = F(rd0)
    <2> HIDE DEF F
    <2> QED BY <1>8
  <1>10. ValueUpto(ds) = rd0
    BY <1>2 DEF ValueUpto
  <1> HIDE DEF rd0
  <1>11. PICK h : h = ValueUpto(ds) /\ h = F(h)
    BY <1>9, <1>10
  <1>12. h[0] = 0 /\ \A k \in 1 .. n : h[k] = h[k - 1] * 10 + (ds[k] - 48)
    <2>1. \A k \in 1 .. n : k \in 0 .. n /\ k # 0
      OBVIOUS
    <2>2. 0 \in 0 .. n
      OBVIOUS
    <2>3. \A k \in 0 .. n : h[k] = IF k = 0 THEN 0 ELSE h[k - 1] * 10 + (ds[k] - 48)
      BY <1>11
    <2> HIDE DEF F
    <2> QED BY <2>1, <2>2, <2>3
  <1> HIDE DEF F
  <1> DEFINE B == {k \in 0 .. n : h[k] # f[k]}
  <1>13. B = {}
    <2> SUFFICES ASSUME B # {} PROVE FALSE
      OBVIOUS
    <2>1. B \in SUBSET Nat
      OBVIOUS
    <2>2. PICK x \in B : \A y \in B : x <= y
      <3> HIDE DEF B
      <3> QED BY <2>1, HasLeast
    <2>3. x \in 0 .. n /\ h[x] # f[x]
      OBVIOUS
    <2>4. x # 0
      BY <1>7, <1>12, <2>3
    <2>5. x \in 1 .. n /\ x - 1 \in 0 .. n /\ ~(x <= x - 1)
      BY <2>3, <2>4
    <2>6. h[x - 1] = f[x - 1]
      BY <2>2, <2>5
    <2> QED BY <1>7, <1>12, <2>3, <2>5, <2>6
  <1>14. \A k \in 1 .. n : h[k - 1] \in Nat
    <2>1. \A k \in 1 .. n : k - 1 \in 0 .. n /\ f[k - 1] \in Nat
      BY <1>7
    <2> QED BY <1>13, <2>1
  <1> QED BY <1>2, <1>11, <1>12, <1>14

LEMMA ReadIsValue ==
  ASSUME NEW ds \in Seq(Digit), NEW w \in Nat, 2^w > 0
  PROVE  ReadUpto(ds, w)[Len(ds)] = Value(ds) % 2^w
  <1>1. PICK M \in Nat \ {0} : M = 2^w
    <2>1. 2^w \in Int
      OBVIOUS
    <2> QED BY <2>1
  <1>2. PICK n \in Nat : n = Len(ds)
    OBVIOUS
  <1>3. PICK f : /\ f = ReadUpto(ds, w) /\ f[0] = 0
                 /\ \A k \in 1 .. n : f[k] = (f[k - 1] * 10 + (ds[k] - 48)) % M
    BY <1>1, <1>2, ReadSteps
  <1>4. PICK h : /\ h = ValueUpto(ds) /\ h[0] = 0
                 /\ \A k \in 1 .. n : h[k - 1] \in Nat /\ h[k] = h[k - 1] * 10 + (ds[k] - 48)
    BY <1>2, ValueSteps
  <1> DEFINE B == {k \in 0 .. n : f[k] # h[k] % M}
  <1>5. B = {}
    <2> SUFFICES ASSUME B # {} PROVE FALSE
      OBVIOUS
    <2>1. B \in SUBSET Nat
      OBVIOUS
    <2>2. PICK x \in B : \A y \in B : x <= y
      <3> HIDE DEF B
      <3> QED BY <2>1, HasLeast
    <2>3. x \in 0 .. n /\ f[x] # h[x] % M
      OBVIOUS
    <2>4. x # 0
      <3>1. 0 % M = 0
        <4>1. 0 \in 0 .. M - 1
          OBVIOUS
        <4> QED BY <4>1, SmallRemainder
      <3> QED BY <1>3, <1>4, <2>3, <3>1
    <2>5. x \in 1 .. n /\ x - 1 \in 0 .. n /\ ~(x <= x - 1)
      BY <2>3, <2>4
    <2>6. f[x - 1] = h[x - 1] % M
      BY <2>2, <2>5
    <2>7. f[x] = (f[x - 1] * 10 + (ds[x] - 48)) % M
      BY <1>3, <2>5
    <2>8. h[x - 1] \in Nat /\ h[x] = h[x - 1] * 10 + (ds[x] - 48)
      BY <1>4, <2>5
    <2>9. ds[x] - 48 \in Nat
      <3>1. ds[x] \in Digit
        BY <1>2, <2>5
      <3> QED BY <3>1 DEF Digit
    <2>10. ((h[x - 1] % M) * 10 + (ds[x] - 48)) % M = (h[x - 1] * 10 + (ds[x] - 48)) % M
      BY <2>8, <2>9, DigitRemainder
    <2> HIDE DEF B
    <2> QED BY <2>3, <2>6, <2>7, <2>8, <2>10
  <1>6. f[n] = h[n] % M
    <2>1. n \in 0 .. n
      OBVIOUS
    <2> QED BY <1>5, <2>1
  <1> QED BY <1>1, <1>2, <1>3, <1>4, <1>6 DEF Value

-----------------------------------------------------------------------------
(* What makes a layout a message in the format *)
Accepts(s, w, e) ==
    /\ e[1] = Len(Keyword) + 1 /\ SubSeq(s, 1, Len(Keyword)) = Keyword
    /\ \A j \in 1 .. w[6] : s[j] # NUL
    /\ \A k \in 3 .. 5 : \A j \in w[k] .. e[k] - 1 : s[j] \in Digit

LEMMA PartRange ==
  ASSUME NEW s \in Seq(Octet), NEW a \in 1 .. Len(s), NEW z \in 1 .. Len(s), a < z
  PROVE  /\ SubSeq(s, a, z - 1) \in Seq(Octet) /\ Len(SubSeq(s, a, z - 1)) = z - a
         /\ Range(SubSeq(s, a, z - 1)) \subseteq Digit
              <=> \A j \in a .. z - 1 : s[j] \in Digit
         /\ (\A j \in a .. z - 1 : s[j] \in Digit) => SubSeq(s, a, z - 1) \in Seq(Digit)
  <1> DEFINE u == SubSeq(s, a, z - 1)
  <1>1. /\ u \in Seq(Octet) /\ Len(u) = z - a /\ z - a \in Nat
        /\ \A k \in 1 .. z - a : u[k] = s[a + k - 1]
        /\ DOMAIN u = 1 .. z - a
    OBVIOUS
  <1> HIDE DEF u
  <1>2. ASSUME Range(u) \subseteq Digit, NEW j \in a .. z - 1 PROVE s[j] \in Digit
    <2>1. j - a + 1 \in 1 .. z - a /\ a + (j - a + 1) - 1 = j
      OBVIOUS
    <2>2. u[j - a + 1] = s[j]
      BY <1>1, <2>1
    <2>3. u[j - a + 1] \in Range(u)
      BY <1>1, <2>1 DEF Range
    <2> QED BY <1>2, <2>2, <2>3
  <1>3. ASSUME \A j \in a .. z - 1 : s[j] \in Digit
        PROVE  Range(u) \subseteq Digit /\ u \in Seq(Digit)
    <2>1. \A k \in 1 .. z - a : a + k - 1 \in a .. z - 1
      OBVIOUS
    <2>2. \A k \in 1 .. z - a : u[k] \in Digit
      BY <1>1, <1>3, <2>1
    <2>3. Range(u) \subseteq Digit
      BY <1>1, <2>2 DEF Range
    <2>4. u \in [1 .. z - a -> Digit]
      <3>1. u = [k \in 1 .. Len(u) |-> u[k]]
        BY <1>1
      <3> QED BY <1>1, <2>2, <3>1
    <2>5. u \in Seq(Digit)
      BY <1>1, <2>4, SequenceOf
    <2> QED BY <2>3, <2>5
  <1> QED BY <1>1, <1>2, <1>3 DEF u

(* The format, told by the layout *)
LEMMA LayoutFormat ==
  ASSUME NEW s \in Seq(Octet), NEW w, NEW e, Layout(s, w, e)
  PROVE  InFormat(s) <=> Accepts(s, w, e)
  <1>1. /\ \A k \in 1 .. 6 : Nth(s, k) = w[k]
        /\ \A k \in 1 .. 5 : Word(s, k) = SubSeq(s, w[k], e[k] - 1)
    BY LayoutWords
  <1>2. \A k \in 1 .. 5 : w[k] \in 1 .. Len(s) /\ e[k] \in 1 .. Len(s) /\ w[k] < e[k]
    <2> SUFFICES ASSUME NEW k \in 1 .. 5
                 PROVE  w[k] \in 1 .. Len(s) /\ e[k] \in 1 .. Len(s) /\ w[k] < e[k]
      OBVIOUS
    <2>1. k \in 1 .. 6
      OBVIOUS
    <2> QED BY <2>1, LayoutOrder
  <1>3. w[1] = 1 /\ w[6] <= Len(s)
    BY DEF Layout
  <1>4. Nth(s, 1) = 1 /\ Nth(s, 6) = w[6]
    BY <1>1, <1>3
  <1>5. ASSUME NEW k \in 3 .. 5
        PROVE  Range(Word(s, k)) \subseteq Digit <=> \A j \in w[k] .. e[k] - 1 : s[j] \in Digit
    <2>1. k \in 1 .. 5
      OBVIOUS
    <2>2. Word(s, k) = SubSeq(s, w[k], e[k] - 1)
      BY <1>1, <2>1
    <2>3. w[k] \in 1 .. Len(s) /\ e[k] \in 1 .. Len(s) /\ w[k] < e[k]
      BY <1>2, <2>1
    <2>4. Range(SubSeq(s, w[k], e[k] - 1)) \subseteq Digit
              <=> \A j \in w[k] .. e[k] - 1 : s[j] \in Digit
      BY <2>3, PartRange
    <2> QED BY <2>2, <2>4
  <1>6. Word(s, 1) = Keyword <=> e[1] = Len(Keyword) + 1 /\ SubSeq(s, 1, Len(Keyword)) = Keyword
    <2>1. Word(s, 1) = SubSeq(s, 1, e[1] - 1)
      BY <1>1, <1>3
    <2>2. 1 \in 1 .. Len(s) /\ e[1] \in 1 .. Len(s) /\ 1 < e[1]
      BY <1>2, <1>3
    <2>3. Len(SubSeq(s, 1, e[1] - 1)) = e[1] - 1
      BY <2>2, PartRange
    <2>4. Len(Keyword) \in Nat /\ (e[1] = Len(Keyword) + 1 <=> e[1] - 1 = Len(Keyword))
      BY <2>2, MessageAssumption
    <2> QED BY <2>1, <2>3, <2>4
  <1> QED BY <1>3, <1>4, <1>5, <1>6 DEF InFormat, Accepts

(* The call that such a message asks for *)
Number(s, w, e, k, bits) == ReadUpto(SubSeq(s, w[k], e[k] - 1), bits)[e[k] - w[k]]

LEMMA LayoutMeaning ==
  ASSUME NEW s \in Seq(Octet), NEW w, NEW e, Layout(s, w, e), Accepts(s, w, e)
  PROVE  Meaning(s) = [shown             |-> TRUE,
                       disaster_type     |-> Number(s, w, e, 3, TypeBits),
                       dialog_offset_x   |-> Number(s, w, e, 4, OffsetBits),
                       dialog_offset_y   |-> Number(s, w, e, 5, OffsetBits),
                       detailed_info     |-> w[6],
                       detailed_info_len |-> Len(s) - w[6] + 1]
  <1>1. ASSUME NEW k \in 3 .. 5, NEW bits \in Nat, 2^bits > 0
        PROVE  Value(Word(s, k)) % 2^bits = Number(s, w, e, k, bits)
    <2>1. k \in 1 .. 5 /\ k \in 1 .. 6
      OBVIOUS
    <2>2. Word(s, k) = SubSeq(s, w[k], e[k] - 1)
      BY <2>1, LayoutWords
    <2>3. w[k] \in 1 .. Len(s) /\ e[k] \in 1 .. Len(s) /\ w[k] < e[k]
      BY <2>1, LayoutOrder
    <2>4. \A j \in w[k] .. e[k] - 1 : s[j] \in Digit
      BY DEF Accepts
    <2>5. Word(s, k) \in Seq(Digit) /\ Len(Word(s, k)) = e[k] - w[k]
      BY <2>2, <2>3, <2>4, PartRange
    <2>6. ReadUpto(Word(s, k), bits)[Len(Word(s, k))] = Value(Word(s, k)) % 2^bits
      BY <1>1, <2>5, ReadIsValue
    <2> QED BY <2>2, <2>5, <2>6 DEF Number
  <1>2. /\ Value(Word(s, 3)) % 2^TypeBits = Number(s, w, e, 3, TypeBits)
        /\ Value(Word(s, 4)) % 2^OffsetBits = Number(s, w, e, 4, OffsetBits)
        /\ Value(Word(s, 5)) % 2^OffsetBits = Number(s, w, e, 5, OffsetBits)
    <2>1. 3 \in 3 .. 5 /\ 4 \in 3 .. 5 /\ 5 \in 3 .. 5
      OBVIOUS
    <2>2. TypeBits \in Nat /\ OffsetBits \in Nat /\ 2^TypeBits > 0 /\ 2^OffsetBits > 0
      BY MessageAssumption
    <2> QED BY <1>1, <2>1, <2>2
  <1>3. Nth(s, 6) = w[6]
    <2>1. 6 \in 1 .. 6
      OBVIOUS
    <2> QED BY <2>1, LayoutWords
  <1> QED BY <1>2, <1>3 DEF Meaning

(* The parser follows the layout of a message in the format ... *)
LEMMA ParserFollows ==
  ASSUME NEW mem, NEW s, NEW w, NEW e, Holds(mem, s), Layout(s, w, e), Accepts(s, w, e)
  PROVE  /\ \A k \in 1 .. 5 : SKIP_DELIMITERS(mem, e[k]) = w[k + 1]
         /\ SkipVersion(mem, w[2]) = e[2]
         /\ \A k \in 3 .. 5 : IntegerEnd(mem, w[k]) = e[k]
  <1>1. /\ s \in Seq(Octet) /\ Len(s) \in Nat /\ Len(mem) \in Nat /\ Len(s) < Len(mem)
        /\ \A k \in 1 .. Len(s) : mem[k] = s[k] /\ k \in 1 .. Len(mem)
    BY DEF Holds
  <1>2. /\ \A k \in 1 .. 6 : w[k] \in 1 .. Len(s) /\ ~is_delimiter(s[w[k]]) /\ w[k] <= w[6]
        /\ \A k \in 1 .. 5 : /\ e[k] \in 1 .. Len(s) /\ is_delimiter(s[e[k]])
                             /\ w[k] < e[k] /\ e[k] < w[k + 1] /\ e[k] < w[6]
                             /\ k + 1 \in 1 .. 6 /\ w[k + 1] \in 1 .. Len(s)
    BY <1>1, LayoutOrder
  <1>3. \A j \in 1 .. w[6] : s[j] # NUL
    BY DEF Accepts
  <1>4. ASSUME NEW k \in 1 .. 5 PROVE SKIP_DELIMITERS(mem, e[k]) = w[k + 1]
    <2>1. PICK p \in 1 .. Len(s), q \in 1 .. Len(s) : p = e[k] /\ q = w[k + 1]
      BY <1>2
    <2>2. Gap(s, p, q) /\ is_delimiter(s[p]) /\ ~is_delimiter(s[q]) /\ q <= w[6] /\ w[6] \in Nat
      <3>1. k + 1 \in 1 .. 6 /\ 6 \in 1 .. 6
        BY <1>2
      <3>2. w[6] \in Nat
        BY <1>2, <3>1
      <3> QED BY <1>2, <2>1, <3>1, <3>2 DEF Layout
    <2>3. p < q /\ \A j \in p .. q - 1 : is_delimiter(s[j])
      BY <2>2 DEF Gap
    <2>4. \A j \in p .. q - 1 : mem[j] = s[j]
      <3>1. \A j \in p .. q - 1 : j \in 1 .. Len(s)
        BY <1>1
      <3> QED BY <1>1, <3>1
    <2>5. Gap(mem, p, q)
      BY <2>3, <2>4 DEF Gap
    <2>6. mem[p] = s[p] /\ mem[q] = s[q] /\ p \in 1 .. Len(mem) /\ q \in 1 .. Len(mem)
      BY <1>1
    <2>7. s[q] # NUL
      <3>1. q \in 1 .. w[6]
        BY <2>2
      <3> QED BY <1>3, <3>1
    <2>8. SKIP_DELIMITERS(mem, p) = q
      BY <2>2, <2>5, <2>6, <2>7, Skips
    <2> QED BY <2>1, <2>8
  <1>5. SkipVersion(mem, w[2]) = e[2]
    <2>1. 2 \in 1 .. 5 /\ 2 \in 1 .. 6 /\ 6 \in 1 .. 6
      OBVIOUS
    <2>2. PICK p \in 1 .. Len(s), q \in 1 .. Len(s) : p = w[2] /\ q = e[2]
      BY <1>2, <2>1
    <2>3. /\ Run(s, p, q) /\ ~is_delimiter(s[p]) /\ is_delimiter(s[q]) /\ q < w[6] /\ w[6] \in Nat
      <3>1. w[6] \in Nat
        BY <1>2, <2>1
      <3> QED BY <1>2, <2>1, <2>2, <3>1 DEF Layout
    <2>4. p < q /\ \A j \in p .. q - 1 : ~is_delimiter(s[j])
      BY <2>3 DEF Run
    <2>5. \A j \in p .. q : mem[j] = s[j] /\ s[j] # NUL
      <3>1. \A j \in p .. q : j \in 1 .. Len(s) /\ j \in 1 .. w[6]
        BY <1>1, <2>3
      <3> QED BY <1>1, <1>3, <3>1
    <2>6. \A j \in p .. q - 1 : j \in p .. q
      OBVIOUS
    <2>7. Run(mem, p, q) /\ \A j \in p .. q : mem[j] # NUL
      BY <2>4, <2>5, <2>6 DEF Run
    <2>8. mem[p] = s[p] /\ mem[q] = s[q] /\ p \in 1 .. Len(mem) /\ q \in 1 .. Len(mem)
      BY <1>1
    <2>9. mem[p] # NUL
      <3>1. p \in p .. q
        BY <2>4
      <3> QED BY <2>7, <3>1
    <2>10. SkipVersion(mem, p) = q
      BY <2>3, <2>7, <2>8, <2>9, SkipsVersion
    <2> QED BY <2>2, <2>10
  <1>6. ASSUME NEW k \in 3 .. 5 PROVE IntegerEnd(mem, w[k]) = e[k]
    <2>1. k \in 1 .. 5 /\ k \in 1 .. 6
      OBVIOUS
    <2>2. PICK p \in 1 .. Len(s), q \in 1 .. Len(s) : p = w[k] /\ q = e[k]
      BY <1>2, <2>1
    <2>3. p < q /\ ~is_delimiter(s[p]) /\ is_delimiter(s[q])
      BY <1>2, <2>1, <2>2
    <2>4. \A j \in p .. q - 1 : s[j] \in Digit
      BY <2>2 DEF Accepts
    <2>5. \A j \in p .. q - 1 : mem[j] \in Digit
      <3>1. \A j \in p .. q - 1 : j \in 1 .. Len(s)
        BY <1>1
      <3> QED BY <1>1, <2>4, <3>1
    <2>6. mem[p] = s[p] /\ mem[q] = s[q] /\ p \in 1 .. Len(mem) /\ q \in 1 .. Len(mem)
      BY <1>1
    <2>7. IntegerEnd(mem, p) = q
      BY <2>3, <2>5, <2>6, ReadsDigits
    <2> QED BY <2>2, <2>7
  <1> QED BY <1>4, <1>5, <1>6

LEMMA SameParts ==
  ASSUME NEW mem, NEW s, Holds(mem, s), NEW a \in 1 .. Len(s), NEW z \in 1 .. Len(s) + 1, a <= z
  PROVE  SubSeq(mem, a, z - 1) = SubSeq(s, a, z - 1)
  <1>1. /\ mem \in Seq(Octet) /\ s \in Seq(Octet) /\ Len(s) \in Nat /\ Len(mem) \in Nat
        /\ Len(s) < Len(mem)
        /\ \A k \in 1 .. Len(s) : mem[k] = s[k]
    BY DEF Holds
  <1> DEFINE u == SubSeq(mem, a, z - 1)
             v == SubSeq(s, a, z - 1)
  <1>2. u \in Seq(Octet) /\ Len(u) = z - a /\ \A k \in 1 .. z - a : u[k] = mem[a + k - 1]
    BY <1>1
  <1>3. v \in Seq(Octet) /\ Len(v) = z - a /\ \A k \in 1 .. z - a : v[k] = s[a + k - 1]
    BY <1>1
  <1>4. \A k \in 1 .. z - a : a + k - 1 \in 1 .. Len(s)
    BY <1>1
  <1> HIDE DEF u, v
  <1>5. \A k \in 1 .. z - a : u[k] = v[k]
    BY <1>1, <1>2, <1>3, <1>4
  <1>6. u = v
    <2>1. Len(u) = Len(v) /\ \A k \in 1 .. Len(u) : u[k] = v[k]
      BY <1>2, <1>3, <1>5
    <2> QED BY <1>2, <1>3, <2>1, SeqEqual
  <1> QED BY <1>6 DEF u, v

LEMMA ParsesMessage ==
  ASSUME NEW mem, NEW s, NEW w, NEW e, Holds(mem, s), Layout(s, w, e), Accepts(s, w, e),
         Len(s) < 2^LenBits
  PROVE  handle_disasvisor_message(mem, Len(s)) = Meaning(s)
  <1> DEFINE L == Len(Keyword)
  <1>1. /\ s \in Seq(Octet) /\ Len(s) \in Nat /\ L \in Nat /\ L # 0
        /\ \A k \in 1 .. Len(s) : mem[k] = s[k]
    BY MessageAssumption DEF Holds
  <1>2. /\ \A k \in 1 .. 6 : w[k] \in 1 .. Len(s) /\ ~is_delimiter(s[w[k]]) /\ w[k] <= w[6]
        /\ \A k \in 1 .. 5 : /\ e[k] \in 1 .. Len(s) /\ is_delimiter(s[e[k]])
                             /\ w[k] < e[k] /\ e[k] < w[k + 1] /\ e[k] < w[6]
                             /\ k + 1 \in 1 .. 6 /\ w[k + 1] \in 1 .. Len(s)
    BY <1>1, LayoutOrder
  <1>3. e[1] = L + 1 /\ SubSeq(s, 1, L) = Keyword
    BY DEF Accepts
  <1>4. L + 1 \in 1 .. Len(s) /\ is_delimiter(mem[L + 1])
    <2>1. 1 \in 1 .. 5
      OBVIOUS
    <2>2. e[1] \in 1 .. Len(s) /\ is_delimiter(s[e[1]])
      BY <1>2, <2>1
    <2> QED BY <1>1, <1>3, <2>2
  <1>5. SubSeq(mem, 1, L) = Keyword
    <2>1. 1 \in 1 .. Len(s) /\ L + 1 \in 1 .. Len(s) + 1 /\ 1 <= L + 1 /\ (L + 1) - 1 = L
      BY <1>1, <1>4
    <2>2. SubSeq(mem, 1, (L + 1) - 1) = SubSeq(s, 1, (L + 1) - 1)
      BY <2>1, SameParts
    <2> QED BY <1>3, <2>1, <2>2
  <1>6. /\ \A k \in 1 .. 5 : SKIP_DELIMITERS(mem, e[k]) = w[k + 1]
        /\ SkipVersion(mem, w[2]) = e[2]
        /\ \A k \in 3 .. 5 : IntegerEnd(mem, w[k]) = e[k]
    BY ParserFollows
  <1>7. /\ SKIP_DELIMITERS(mem, L + 1) = w[2] /\ SkipVersion(mem, w[2]) = e[2]
        /\ SKIP_DELIMITERS(mem, e[2]) = w[3] /\ SKIP_DELIMITERS(mem, e[3]) = w[4]
        /\ SKIP_DELIMITERS(mem, e[4]) = w[5] /\ SKIP_DELIMITERS(mem, e[5]) = w[6]
        /\ IntegerEnd(mem, w[3]) = e[3] /\ IntegerEnd(mem, w[4]) = e[4] /\ IntegerEnd(mem, w[5]) = e[5]
    BY <1>3, <1>6
  <1>8. ASSUME NEW k \in 3 .. 5, NEW bits PROVE READ_INTEGER(mem, w[k], bits) = Number(s, w, e, k, bits)
    <2>1. k \in 1 .. 5 /\ k \in 1 .. 6
      OBVIOUS
    <2>2. w[k] \in 1 .. Len(s) /\ e[k] \in 1 .. Len(s) /\ w[k] < e[k]
      BY <1>2, <2>1
    <2>3. SubSeq(mem, w[k], e[k] - 1) = SubSeq(s, w[k], e[k] - 1)
      <3>1. e[k] \in 1 .. Len(s) + 1 /\ w[k] <= e[k]
        BY <2>2
      <3> QED BY <2>2, <3>1, SameParts
    <2>4. Len(SubSeq(s, w[k], e[k] - 1)) = e[k] - w[k]
      BY <1>1, <2>2, PartRange
    <2>5. IntegerEnd(mem, w[k]) = e[k]
      BY <1>6
    <2> QED BY <2>3, <2>4, <2>5 DEF READ_INTEGER, Number
  <1>9. w[6] \in 1 .. Len(s) /\ w[6] # Stop
    <2>1. 6 \in 1 .. 6
      OBVIOUS
    <2>2. w[6] \in 1 .. Len(s)
      BY <1>2, <2>1
    <2> QED BY <2>2 DEF Stop
  <1>10. (Len(s) - (w[6] - 1)) % 2^LenBits = Len(s) - w[6] + 1
    <2>1. PICK M \in Nat \ {0} : M = 2^LenBits
      <3>1. 2^LenBits \in Int
        BY MessageAssumption
      <3> QED BY <3>1, MessageAssumption
    <2>2. Len(s) - (w[6] - 1) = Len(s) - w[6] + 1 /\ Len(s) - w[6] + 1 \in 0 .. M - 1
      BY <1>1, <1>9, <2>1
    <2>3. (Len(s) - w[6] + 1) % M = Len(s) - w[6] + 1
      BY <2>2, SmallRemainder
    <2> QED BY <2>1, <2>2, <2>3
  <1>11. handle_disasvisor_message(mem, Len(s)) =
            [shown             |-> TRUE,
             disaster_type     |-> READ_INTEGER(mem, w[3], TypeBits),
             dialog_offset_x   |-> READ_INTEGER(mem, w[4], OffsetBits),
             dialog_offset_y   |-> READ_INTEGER(mem, w[5], OffsetBits),
             detailed_info     |-> w[6],
             detailed_info_len |-> (Len(s) - (w[6] - 1)) % 2^LenBits]
    <2>1. ~(Len(s) < L)
      BY <1>1, <1>4
    <2>2. is_delimiter(mem[L + 1]) /\ w[6] # Stop
      BY <1>4, <1>9
    <2> QED BY <1>5, <1>7, <2>1, <2>2 DEF handle_disasvisor_message
  <1>12. /\ READ_INTEGER(mem, w[3], TypeBits) = Number(s, w, e, 3, TypeBits)
         /\ READ_INTEGER(mem, w[4], OffsetBits) = Number(s, w, e, 4, OffsetBits)
         /\ READ_INTEGER(mem, w[5], OffsetBits) = Number(s, w, e, 5, OffsetBits)
    <2>1. 3 \in 3 .. 5 /\ 4 \in 3 .. 5 /\ 5 \in 3 .. 5
      OBVIOUS
    <2> QED BY <1>8, <2>1
  <1> QED BY <1>1, <1>10, <1>11, <1>12, LayoutMeaning

(* ... and follows nothing else. *)
LEMMA SameGap ==
  ASSUME NEW mem, NEW s, Holds(mem, s), NEW p \in 1 .. Len(s), NEW q \in 1 .. Len(s)
  PROVE  /\ Gap(mem, p, q) => Gap(s, p, q)
         /\ Run(mem, p, q) => Run(s, p, q)
  <1>1. \A j \in p .. q - 1 : mem[j] = s[j]
    <2>1. \A j \in p .. q - 1 : j \in 1 .. Len(s)
      BY DEF Holds
    <2> QED BY <2>1 DEF Holds
  <1> QED BY <1>1 DEF Gap, Run

LEMMA OnlyMessages ==
  ASSUME NEW mem, NEW s, Holds(mem, s),
         handle_disasvisor_message(mem, Len(s)).shown,
         handle_disasvisor_message(mem, Len(s)).detailed_info <= Len(s)
  PROVE  InFormat(s)
  <1>1. PICK L \in Nat : L = Len(Keyword)
    BY MessageAssumption
  <1>2. /\ s \in Seq(Octet) /\ mem \in Seq(Octet) /\ L # 0
        /\ \A k \in 1 .. Len(s) : mem[k] = s[k]
    BY <1>1, MessageAssumption DEF Holds
  <1>3. PICK n \in Nat, N \in Nat : n = Len(s) /\ N = Len(mem) /\ n < N
    BY DEF Holds
  <1>4. PICK v, p2, t, p3, x, p4, y, p5, m :
            /\ v = SKIP_DELIMITERS(mem, L + 1) /\ p2 = SkipVersion(mem, v)
            /\ t = SKIP_DELIMITERS(mem, p2) /\ p3 = IntegerEnd(mem, t)
            /\ x = SKIP_DELIMITERS(mem, p3) /\ p4 = IntegerEnd(mem, x)
            /\ y = SKIP_DELIMITERS(mem, p4) /\ p5 = IntegerEnd(mem, y)
            /\ m = SKIP_DELIMITERS(mem, p5)
    OBVIOUS
  <1>5. /\ ~(Len(s) < L) /\ SubSeq(mem, 1, L) = Keyword
        /\ is_delimiter(mem[L + 1]) /\ m # Stop /\ m <= n
    <2> DEFINE Refused == \/ Len(s) < L \/ SubSeq(mem, 1, L) # Keyword
                          \/ ~is_delimiter(mem[L + 1]) \/ m = Stop
               call == [shown             |-> TRUE,
                        disaster_type     |-> READ_INTEGER(mem, t, TypeBits),
                        dialog_offset_x   |-> READ_INTEGER(mem, x, OffsetBits),
                        dialog_offset_y   |-> READ_INTEGER(mem, y, OffsetBits),
                        detailed_info     |-> m,
                        detailed_info_len |-> (Len(s) - (m - 1)) % 2^LenBits]
    <2>1. handle_disasvisor_message(mem, Len(s)) = IF Refused THEN Ignored ELSE call
      BY <1>1, <1>4 DEF handle_disasvisor_message
    <2>2. call.detailed_info = m /\ Ignored.shown = FALSE
      BY DEF Ignored
    <2> HIDE DEF call
    <2>3. ~Refused
      BY <2>1, <2>2
    <2>4. m <= n
      BY <1>3, <2>1, <2>2, <2>3
    <2> QED BY <2>3, <2>4
  <1>6. /\ SKIP_DELIMITERS(mem, Stop) = Stop /\ SkipVersion(mem, Stop) = Stop
        /\ IntegerEnd(mem, Stop) = Stop
    BY DEF SKIP_DELIMITERS, SkipVersion, IntegerEnd
  <1>7. p5 # Stop /\ y # Stop /\ p4 # Stop /\ x # Stop /\ p3 # Stop /\ t # Stop /\ p2 # Stop /\ v # Stop
    BY <1>4, <1>5, <1>6
  <1>8. L + 1 \in 1 .. N
    BY <1>3, <1>5
  <1>9. v \in 1 .. N /\ Gap(mem, L + 1, v) /\ ~is_delimiter(mem[v]) /\ mem[v] # NUL
    BY <1>3, <1>4, <1>5, <1>7, <1>8, Skips
  <1>10. /\ p2 \in 1 .. N /\ Run(mem, v, p2) /\ is_delimiter(mem[p2])
         /\ \A j \in v .. p2 : mem[j] # NUL
    BY <1>3, <1>4, <1>7, <1>9, SkipsVersion
  <1>11. t \in 1 .. N /\ Gap(mem, p2, t) /\ ~is_delimiter(mem[t])
    BY <1>3, <1>4, <1>7, <1>10, Skips
  <1>12. /\ p3 \in 1 .. N /\ t < p3 /\ is_delimiter(mem[p3])
         /\ \A j \in t .. p3 - 1 : mem[j] \in Digit
    BY <1>3, <1>4, <1>7, <1>11, ReadsDigits
  <1>13. x \in 1 .. N /\ Gap(mem, p3, x) /\ ~is_delimiter(mem[x])
    BY <1>3, <1>4, <1>7, <1>12, Skips
  <1>14. /\ p4 \in 1 .. N /\ x < p4 /\ is_delimiter(mem[p4])
         /\ \A j \in x .. p4 - 1 : mem[j] \in Digit
    BY <1>3, <1>4, <1>7, <1>13, ReadsDigits
  <1>15. y \in 1 .. N /\ Gap(mem, p4, y) /\ ~is_delimiter(mem[y])
    BY <1>3, <1>4, <1>7, <1>14, Skips
  <1>16. /\ p5 \in 1 .. N /\ y < p5 /\ is_delimiter(mem[p5])
         /\ \A j \in y .. p5 - 1 : mem[j] \in Digit
    BY <1>3, <1>4, <1>7, <1>15, ReadsDigits
  <1>17. m \in 1 .. N /\ Gap(mem, p5, m) /\ ~is_delimiter(mem[m]) /\ mem[m] # NUL
    BY <1>3, <1>4, <1>5, <1>16, Skips
  <1>18. /\ 1 < L + 1 /\ L + 1 < v /\ v < p2 /\ p2 < t /\ t < p3 /\ p3 < x /\ x < p4 /\ p4 < y
         /\ y < p5 /\ p5 < m
    BY <1>2, <1>9, <1>10, <1>11, <1>12, <1>13, <1>14, <1>15, <1>16, <1>17 DEF Gap, Run
  <1>19. /\ v \in Nat /\ p2 \in Nat /\ t \in Nat /\ p3 \in Nat /\ x \in Nat /\ p4 \in Nat
         /\ y \in Nat /\ p5 \in Nat /\ m \in Nat
    BY <1>9, <1>10, <1>11, <1>12, <1>13, <1>14, <1>15, <1>16, <1>17
  <1>20. /\ 1 \in 1 .. n /\ L + 1 \in 1 .. n /\ v \in 1 .. n /\ p2 \in 1 .. n /\ t \in 1 .. n
         /\ p3 \in 1 .. n /\ x \in 1 .. n /\ p4 \in 1 .. n /\ y \in 1 .. n /\ p5 \in 1 .. n
         /\ m \in 1 .. n
    BY <1>5, <1>18, <1>19
  <1>21. ASSUME NEW p \in 1 .. n, NEW q \in 1 .. n, p < q, \A j \in p .. q - 1 : mem[j] \in Digit
         PROVE  Run(mem, p, q)
    BY <1>21, SomeBytes DEF Run
  <1>22. Run(mem, t, p3) /\ Run(mem, x, p4) /\ Run(mem, y, p5)
    BY <1>12, <1>14, <1>16, <1>20, <1>21
  <1>23. \A j \in 1 .. L : mem[j] = Keyword[j] /\ ~is_delimiter(mem[j]) /\ mem[j] # NUL
    <2>1. \A j \in 1 .. L : SubSeq(mem, 1, L)[j] = mem[j]
      BY <1>2, <1>3, <1>8
    <2>2. \A j \in 1 .. L : ~is_delimiter(Keyword[j]) /\ Keyword[j] \in 1 .. 255
      <3> SUFFICES ASSUME NEW j \in 1 .. Len(Keyword)
                   PROVE  ~is_delimiter(Keyword[j]) /\ Keyword[j] \in 1 .. 255
        BY <1>1
      <3>1. Keyword \in Seq(1 .. 255)
        BY MessageAssumption
      <3>2. Keyword[j] \in 1 .. 255
        BY <3>1, ElementOf
      <3> QED BY <3>2, MessageAssumption
    <2>3. \A c \in 1 .. 255 : c # NUL
      BY DEF NUL
    <2> QED BY <1>5, <2>1, <2>2, <2>3
  <1>24. Run(mem, 1, L + 1)
    <2>1. (L + 1) - 1 = L
      OBVIOUS
    <2> QED BY <1>18, <1>23, <2>1 DEF Run
  <1> DEFINE w == <<1, v, t, x, y, m>>
             e == <<L + 1, p2, p3, p4, p5>>
  <1>25. /\ w \in [1 .. 6 -> Nat] /\ e \in [1 .. 5 -> Nat]
         /\ w[1] = 1 /\ w[2] = v /\ w[3] = t /\ w[4] = x /\ w[5] = y /\ w[6] = m
         /\ e[1] = L + 1 /\ e[2] = p2 /\ e[3] = p3 /\ e[4] = p4 /\ e[5] = p5
    <2>1. /\ w[1] = 1 /\ w[2] = v /\ w[3] = t /\ w[4] = x /\ w[5] = y /\ w[6] = m
          /\ e[1] = L + 1 /\ e[2] = p2 /\ e[3] = p3 /\ e[4] = p4 /\ e[5] = p5
      OBVIOUS
    <2>2. w \in Seq(Nat) /\ Len(w) = 6
      BY <1>19
    <2>3. e \in Seq(Nat) /\ Len(e) = 5
      <3>1. L + 1 \in Nat
        OBVIOUS
      <3> QED BY <1>19, <3>1
    <2> HIDE DEF w, e
    <2>4. w \in [1 .. 6 -> Nat] /\ e \in [1 .. 5 -> Nat]
      BY <2>2, <2>3, FunctionOf
    <2> QED BY <2>1, <2>4
  <1> HIDE DEF w, e
  <1>26. /\ Run(s, 1, L + 1) /\ Gap(s, L + 1, v) /\ Run(s, v, p2) /\ Gap(s, p2, t)
         /\ Run(s, t, p3) /\ Gap(s, p3, x) /\ Run(s, x, p4) /\ Gap(s, p4, y)
         /\ Run(s, y, p5) /\ Gap(s, p5, m)
    BY <1>3, <1>9, <1>10, <1>11, <1>13, <1>15, <1>17, <1>20, <1>22, <1>24, SameGap
  <1>27. ~is_delimiter(s[m])
    BY <1>2, <1>3, <1>17, <1>20
  <1>28. ASSUME NEW k \in 1 .. 5 PROVE Run(s, w[k], e[k]) /\ Gap(s, e[k], w[k + 1])
    <2>1. k = 1 \/ k = 2 \/ k = 3 \/ k = 4 \/ k = 5
      OBVIOUS
    <2>2. CASE k = 1
      BY <1>25, <1>26, <2>2
    <2>3. CASE k = 2
      BY <1>25, <1>26, <2>3
    <2>4. CASE k = 3
      BY <1>25, <1>26, <2>4
    <2>5. CASE k = 4
      BY <1>25, <1>26, <2>5
    <2>6. CASE k = 5
      BY <1>25, <1>26, <2>6
    <2> QED BY <2>1, <2>2, <2>3, <2>4, <2>5, <2>6
  <1>29. Layout(s, w, e)
    BY <1>3, <1>5, <1>25, <1>27, <1>28 DEF Layout
  <1>30. ASSUME NEW j \in 1 .. m PROVE s[j] # NUL
    <2>1. mem[j] = s[j]
      BY <1>2, <1>3, <1>20
    <2>2. \/ j \in 1 .. L \/ j \in L + 1 .. v - 1 \/ j \in v .. p2 \/ j \in p2 .. t - 1
          \/ j \in t .. p3 - 1 \/ j \in p3 .. x - 1 \/ j \in x .. p4 - 1 \/ j \in p4 .. y - 1
          \/ j \in y .. p5 - 1 \/ j \in p5 .. m - 1 \/ j = m
      BY <1>18, <1>19
    <2>3. mem[j] \in Digit \/ is_delimiter(mem[j]) => mem[j] # NUL
      BY SomeBytes
    <2>4. /\ j \in L + 1 .. v - 1 \/ j \in p2 .. t - 1 \/ j \in p3 .. x - 1
                \/ j \in p4 .. y - 1 \/ j \in p5 .. m - 1 => is_delimiter(mem[j])
      BY <1>9, <1>11, <1>13, <1>15, <1>17 DEF Gap
    <2> QED BY <1>10, <1>12, <1>14, <1>16, <1>17, <1>23, <2>1, <2>2, <2>3, <2>4
  <1>31. SubSeq(s, 1, L) = Keyword
    <2>1. 1 \in 1 .. Len(s) /\ L + 1 \in 1 .. Len(s) + 1 /\ 1 <= L + 1 /\ (L + 1) - 1 = L
      BY <1>3, <1>20
    <2>2. SubSeq(mem, 1, (L + 1) - 1) = SubSeq(s, 1, (L + 1) - 1)
      BY <2>1, SameParts
    <2> QED BY <1>5, <2>1, <2>2
  <1>32. ASSUME NEW p \in 1 .. n, NEW q \in 1 .. n, \A j \in p .. q - 1 : mem[j] \in Digit
         PROVE  \A j \in p .. q - 1 : s[j] \in Digit
    <2>1. \A j \in p .. q - 1 : j \in 1 .. n
      OBVIOUS
    <2> QED BY <1>2, <1>3, <1>32, <2>1
  <1>33. ASSUME NEW k \in 3 .. 5 PROVE \A j \in w[k] .. e[k] - 1 : s[j] \in Digit
    <2>1. k = 3 \/ k = 4 \/ k = 5
      OBVIOUS
    <2>2. CASE k = 3
      BY <1>12, <1>20, <1>25, <1>32, <2>2
    <2>3. CASE k = 4
      BY <1>14, <1>20, <1>25, <1>32, <2>3
    <2>4. CASE k = 5
      BY <1>16, <1>20, <1>25, <1>32, <2>4
    <2> QED BY <2>1, <2>2, <2>3, <2>4
  <1>34. Accepts(s, w, e)
    <2>1. \A j \in 1 .. w[6] : s[j] # NUL
      BY <1>25, <1>30
    <2>2. e[1] = Len(Keyword) + 1 /\ SubSeq(s, 1, Len(Keyword)) = Keyword
      BY <1>1, <1>25, <1>31
    <2> QED BY <1>33, <2>1, <2>2 DEF Accepts
  <1> QED BY <1>2, <1>29, <1>34, LayoutFormat

(***************************************************************************)
(* handle_disasvisor_message() in vpn/kernel.c, for every payload s and    *)
(* every receive buffer mem that holds it with a NUL somewhere behind it:  *)
(* a payload in the documented format is shown with the numbers and the    *)
(* text it holds, whatever the payload is followed by, and no other        *)
(* payload is whose text starts inside it.                                 *)
(***************************************************************************)
THEOREM ParserMeetsFormat ==
  ASSUME NEW s \in Seq(Octet), NEW mem, Holds(mem, s), Len(s) < 2^LenBits
  PROVE  /\ InFormat(s) => handle_disasvisor_message(mem, Len(s)) = Meaning(s)
         /\ handle_disasvisor_message(mem, Len(s)).shown
            /\ handle_disasvisor_message(mem, Len(s)).detailed_info <= Len(s)
                => InFormat(s)
  <1>1. ASSUME InFormat(s) PROVE handle_disasvisor_message(mem, Len(s)) = Meaning(s)
    <2>1. Nth(s, 1) = 1 /\ Nth(s, 6) <= Len(s)
      BY <1>1 DEF InFormat
    <2>2. PICK w, e : Layout(s, w, e)
      BY <2>1, WordsLayout
    <2>3. Accepts(s, w, e)
      BY <1>1, <2>2, LayoutFormat
    <2> QED BY <2>2, <2>3, ParsesMessage
  <1> QED BY <1>1, OnlyMessages

-----------------------------------------------------------------------------
(***************************************************************************)
(* The payload grows byte by byte, and a message that was handled was read *)
(* from it.                                                                *)
(***************************************************************************)
PayloadInv ==
    /\ payload \in Seq(Octet) /\ more \in 0 .. MaxMore
    /\ Len(payload) <= Len(Keyword) + 9 + more
    /\ behind \in Behind

ResultInv ==
    result # NotYet => result = handle_disasvisor_message(payload \o behind, Len(payload))

LEMMA BehindHolds ==
  ASSUME NEW s \in Seq(Octet), NEW b \in Behind
  PROVE  Holds(s \o b, s)
  <1>1. b \in Seq(Octet) /\ Len(b) \in Nat /\ Len(b) # 0 /\ b[Len(b)] = NUL
    <2>1. CASE b = <<NUL>>
      BY <2>1 DEF NUL, Octet
    <2>2. CASE b = <<32, 50, 32, 65, NUL>>
      BY <2>2 DEF NUL, Octet
    <2>3. CASE b = <<50, 10, 65, NUL>>
      BY <2>3 DEF NUL, Octet
    <2> QED BY <2>1, <2>2, <2>3 DEF Behind
  <1>2. /\ s \o b \in Seq(Octet) /\ Len(s \o b) = Len(s) + Len(b)
        /\ \A k \in 1 .. Len(s) : (s \o b)[k] = s[k]
        /\ \A k \in 1 .. Len(b) : (s \o b)[Len(s) + k] = b[k]
    BY <1>1, Concatenation
  <1>3. Len(s) \in Nat /\ Len(b) \in 1 .. Len(b) /\ Len(s) < Len(s) + Len(b)
    BY <1>1
  <1> QED BY <1>1, <1>2, <1>3 DEF Holds

LEMMA BeginningsArePayloads ==
  ASSUME NEW s \in Beginnings
  PROVE  s \in Seq(Octet) /\ Len(s) <= Len(Keyword) + 9
  <1>1. Keyword \in Seq(Octet) /\ Len(Keyword) \in Nat
    <2>1. PICK T : T = 1 .. 255
      OBVIOUS
    <2>2. Keyword \in Seq(T) /\ T \subseteq Octet
      BY <2>1, MessageAssumption DEF Octet
    <2>3. Keyword \in Seq(Octet)
      BY <2>2, Widen
    <2> QED BY <2>3
  <1>2. ASSUME NEW u \in Seq(Octet), Len(u) <= 9
        PROVE  Keyword \o u \in Seq(Octet) /\ Len(Keyword \o u) <= Len(Keyword) + 9
    <2>1. Len(u) \in Nat /\ Keyword \o u \in Seq(Octet) /\ Len(Keyword \o u) = Len(Keyword) + Len(u)
      BY <1>1, Concatenation
    <2> QED BY <1>1, <1>2, <2>1
  <1>3. /\ <<32, 49>> \in Seq(Octet) /\ <<32, 49, 32, 50>> \in Seq(Octet)
        /\ <<32, 49, 32, 50, 10, 49>> \in Seq(Octet)
        /\ <<32, 49, 65, 10, 49, 32, 49, 50, 32>> \in Seq(Octet)
        /\ <<32, 49, 32, 49, 32, 50, 32, 49, 10>> \in Seq(Octet)
    BY DEF Octet
  <1>4. /\ Len(<<32, 49>>) <= 9 /\ Len(<<32, 49, 32, 50>>) <= 9
        /\ Len(<<32, 49, 32, 50, 10, 49>>) <= 9
        /\ Len(<<32, 49, 65, 10, 49, 32, 49, 50, 32>>) <= 9
        /\ Len(<<32, 49, 32, 49, 32, 50, 32, 49, 10>>) <= 9
    OBVIOUS
  <1>5. CASE s = <<>>
    BY <1>1, <1>5
  <1>6. CASE s = Keyword
    BY <1>1, <1>6
  <1>7. CASE s = Keyword \o <<32, 49>>
    BY <1>2, <1>3, <1>4, <1>7
  <1>8. CASE s = Keyword \o <<32, 49, 32, 50>>
    BY <1>2, <1>3, <1>4, <1>8
  <1>9. CASE s = Keyword \o <<32, 49, 32, 50, 10, 49>>
    BY <1>2, <1>3, <1>4, <1>9
  <1>10. CASE s = Keyword \o <<32, 49, 65, 10, 49, 32, 49, 50, 32>>
    BY <1>2, <1>3, <1>4, <1>10
  <1>11. CASE s = Keyword \o <<32, 49, 32, 49, 32, 50, 32, 49, 10>>
    BY <1>2, <1>3, <1>4, <1>11
  <1> QED BY <1>5, <1>6, <1>7, <1>8, <1>9, <1>10, <1>11 DEF Beginnings

LEMMA InitPayload == MCInit => PayloadInv /\ ResultInv
  <1> SUFFICES ASSUME MCInit PROVE PayloadInv /\ ResultInv
    OBVIOUS
  <1>1. payload \in Beginnings /\ more = 0 /\ behind \in Behind /\ result = NotYet
    BY DEF MCInit
  <1>2. payload \in Seq(Octet) /\ Len(payload) <= Len(Keyword) + 9
    BY <1>1, BeginningsArePayloads
  <1>3. Len(Keyword) \in Nat /\ MaxMore \in Nat
    BY MessageAssumption, PayloadAssumption
  <1>4. Len(payload) <= Len(Keyword) + 9 + more /\ more \in 0 .. MaxMore
    BY <1>1, <1>2, <1>3
  <1> QED BY <1>1, <1>2, <1>4 DEF PayloadInv, ResultInv

LEMMA StepPayload == PayloadInv /\ ResultInv /\ [MCNext]_<<vars, parservars>> => (PayloadInv /\ ResultInv)'
  <1> SUFFICES ASSUME PayloadInv, ResultInv, [MCNext]_<<vars, parservars>>
               PROVE  PayloadInv' /\ ResultInv'
    OBVIOUS
  <1>1. ASSUME NEW c \in Alphabet, AppendByte(c) PROVE PayloadInv' /\ ResultInv'
    <2>1. /\ more < MaxMore /\ payload' = Append(payload, c) /\ more' = more + 1
          /\ behind' = behind /\ result' = NotYet
      BY <1>1 DEF AppendByte
    <2>2. payload \in Seq(Octet) /\ c \in Octet
      BY PayloadAssumption DEF PayloadInv, Octet
    <2>3. payload' \in Seq(Octet) /\ Len(payload') = Len(payload) + 1
      BY <2>1, <2>2
    <2>4. Len(payload') <= Len(Keyword) + 9 + more' /\ more' \in 0 .. MaxMore
      <3>1. /\ Len(payload) \in Nat /\ Len(Keyword) \in Nat /\ MaxMore \in Nat
            /\ more \in 0 .. MaxMore /\ Len(payload) <= Len(Keyword) + 9 + more
        BY <2>2, MessageAssumption, PayloadAssumption DEF PayloadInv
      <3> QED BY <2>1, <2>3, <3>1
    <2> QED BY <2>1, <2>3, <2>4 DEF PayloadInv, ResultInv
  <1>2. ASSUME Handle PROVE PayloadInv' /\ ResultInv'
    BY <1>2 DEF Handle, PayloadInv, ResultInv
  <1>3. ASSUME UNCHANGED parservars PROVE PayloadInv' /\ ResultInv'
    BY <1>3 DEF parservars, PayloadInv, ResultInv
  <1>4. PassByte \/ Draw => UNCHANGED parservars
    BY DEF PassByte, Draw
  <1> QED BY <1>1, <1>2, <1>3, <1>4 DEF MCNext

(* The length that the parser passes on does not wrap. *)
LEMMA PayloadParsed == PayloadInv /\ ResultInv => ParsesFormat
  <1> SUFFICES ASSUME PayloadInv, ResultInv, result # NotYet
               PROVE  /\ InFormat(payload) => result = Meaning(payload)
                      /\ result.shown /\ result.detailed_info <= Len(payload)
                             => InFormat(payload)
    BY DEF ParsesFormat, Handled
  <1>1. payload \in Seq(Octet) /\ behind \in Behind
    BY DEF PayloadInv
  <1>2. PICK s, mem : s \in Seq(Octet) /\ s = payload /\ mem = payload \o behind
    BY <1>1
  <1>3. Holds(mem, s) /\ result = handle_disasvisor_message(mem, Len(s))
    BY <1>1, <1>2, BehindHolds DEF ResultInv
  <1>4. Len(s) < 2^LenBits
    <2>1. PICK M \in Int : M = 2^LenBits
      <3>1. 2^LenBits \in Int
        BY MessageAssumption
      <3> QED BY <3>1
    <2>2. /\ Len(s) \in Nat /\ Len(Keyword) \in Nat /\ MaxMore \in Nat
          /\ more \in 0 .. MaxMore /\ Len(s) <= Len(Keyword) + 9 + more
          /\ Len(Keyword) + 9 + MaxMore < M
      BY <1>2, <2>1, MessageAssumption, PayloadAssumption DEF PayloadInv
    <2> QED BY <2>1, <2>2
  <1>5. /\ InFormat(s) => result = Meaning(s)
        /\ result.shown /\ result.detailed_info <= Len(s) => InFormat(s)
    BY <1>2, <1>3, <1>4, ParserMeetsFormat
  <1> QED BY <1>2, <1>5

(* ParsesFormat, about handle_disasvisor_message() in vpn/kernel.c: for    *)
(* every keyword without delimiters, every width of the variables and      *)
(* every choice of bytes, as far as msg_len can hold the length, a payload *)
(* in the documented format is shown with the numbers and the text it      *)
(* holds, and no other payload is whose text starts inside it.             *)
THEOREM MessagesParsed == MCSpec => []ParsesFormat
  <1>1. MCInit => PayloadInv /\ ResultInv
    BY InitPayload
  <1>2. PayloadInv /\ ResultInv /\ [MCNext]_<<vars, parservars>> => (PayloadInv /\ ResultInv)'
    BY StepPayload
  <1>3. PayloadInv /\ ResultInv => ParsesFormat
    BY PayloadParsed
  <1> QED BY <1>1, <1>2, <1>3, PTL DEF MCSpec
=============================================================================
