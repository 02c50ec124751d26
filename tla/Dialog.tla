------------------------------- MODULE Dialog -------------------------------
(***************************************************************************)
(* The text of a disaster warning, vga_display_disaster_warning() in       *)
(* core/vga.c: printable bytes are drawn as letters of fixed size into a   *)
(* grid of cells inside the dialog picture, a newline starts a row, other  *)
(* bytes are dropped, and the loop breaks off when the grid is full.       *)
(* Coordinates are relative to the corner of the dialog (parameters x, y). *)
(***************************************************************************)
EXTENDS Integers, Sequences, Subsequence

CONSTANTS
    MAX_NLETTERS_IN_ROW,   \* 41
    MAX_NROWS_IN_DIALOG,   \* 12
    LETTER_WIDTH,          \* 18
    LETTER_HEIGHT,         \* 36
    OffsX, OffsY,          \* offs_x_inside_dialog 26, offs_y_inside_dialog 154
    PictureWidth,          \* advisor_picture1_widthheight: 800 ...
    PictureHeight,         \* ... and 600
    Printable,             \* the bytes ' ' .. '~'
    Newline,
    OtherByte,             \* the bytes that are dropped
    MaxMsg                 \* bound on the length of a message

Byte == Printable \cup {Newline} \cup OtherByte

(* The last line says that the grid fits into the picture, as it does with *)
(* the numbers of the code: 26 + 41 * 18 = 764 and 154 + 12 * 36 = 586.    *)
ASSUME DialogAssumption ==
    /\ MAX_NLETTERS_IN_ROW \in Nat \ {0}
    /\ MAX_NROWS_IN_DIALOG \in Nat \ {0}
    /\ LETTER_WIDTH \in Nat \ {0} /\ LETTER_HEIGHT \in Nat \ {0}
    /\ OffsX \in Nat /\ OffsY \in Nat
    /\ PictureWidth \in Nat /\ PictureHeight \in Nat
    /\ MaxMsg \in Nat
    /\ Newline \notin Printable /\ OtherByte \cap (Printable \cup {Newline}) = {}
    /\ OffsX + MAX_NLETTERS_IN_ROW * LETTER_WIDTH <= PictureWidth
    /\ OffsY + MAX_NROWS_IN_DIALOG * LETTER_HEIGHT <= PictureHeight

VARIABLES
    msg,           \* detailed_info of the message, msg_len = Len(msg)
    nth,           \* bytes consumed
    idx_x, idx_y,  \* the next cell
    drawn,         \* the letters drawn so far: byte and pixel position
    warned         \* the loop broke off with the "Too many lines" warning

vars == <<msg, nth, idx_x, idx_y, drawn, warned>>

-----------------------------------------------------------------------------
Init ==
    /\ msg = <<>>
    /\ nth = 0
    /\ idx_x = 0 /\ idx_y = 0
    /\ drawn = <<>>
    /\ warned = FALSE

(* The message, chosen before the loop starts (nth = 0).  The parser has   *)
(* skipped the delimiters before it.                                       *)
Receive(c) ==
    /\ nth = 0
    /\ msg = <<>> => c # Newline
    /\ Len(msg) < MaxMsg
    /\ msg' = Append(msg, c)
    /\ UNCHANGED <<nth, idx_x, idx_y, drawn, warned>>

(* vga_display_stored_letter *)
Letter(c) ==
    [byte |-> c,
     x    |-> OffsX + LETTER_WIDTH * idx_x,
     y    |-> OffsY + LETTER_HEIGHT * idx_y]

(* `if (idx_y >= MAX_NROWS_IN_DIALOG)' at the end of the loop body.  A     *)
(* slip: one row too many.                                                 *)
CheckRows_OffByOne(row) == warned' = (row > MAX_NROWS_IN_DIALOG)

CheckRows(row) == warned' = (row >= MAX_NROWS_IN_DIALOG)

Advance ==
    LET full == idx_x + 1 >= MAX_NLETTERS_IN_ROW
    IN  /\ idx_x' = IF full THEN 0 ELSE idx_x + 1
        /\ idx_y' = IF full THEN idx_y + 1 ELSE idx_y

(* A slip: like '\r', a newline returns to the start of the same row *)
NewRow_CarriageReturn == idx_x' = 0 /\ UNCHANGED idx_y

NewRow ==
    /\ idx_x' = 0
    /\ idx_y' = idx_y + 1

(* One iteration of the loop.  The byte is msg[nth + 1]. *)
More == nth < Len(msg) /\ ~warned

DrawLetter ==
    /\ More
    /\ msg[nth + 1] \in Printable
    /\ drawn' = Append(drawn, Letter(msg[nth + 1]))
    /\ Advance
    /\ CheckRows(idx_y')
    /\ nth' = nth + 1
    /\ UNCHANGED msg

StartRow ==
    /\ More
    /\ msg[nth + 1] = Newline
    /\ NewRow
    /\ CheckRows(idx_y')
    /\ nth' = nth + 1
    /\ UNCHANGED <<msg, drawn>>

SkipByte ==
    /\ More
    /\ msg[nth + 1] \in OtherByte
    /\ CheckRows(idx_y)
    /\ nth' = nth + 1
    /\ UNCHANGED <<msg, idx_x, idx_y, drawn>>

Next == \/ \E c \in Byte : Receive(c)
        \/ DrawLetter
        \/ StartRow
        \/ SkipByte

Spec == Init /\ [][Next]_vars

-----------------------------------------------------------------------------
LetterType == [byte : Printable, x : Nat, y : Nat]

TypeOK ==
    /\ msg \in Seq(Byte)
    /\ nth \in 0 .. Len(msg)
    /\ idx_x \in 0 .. MAX_NLETTERS_IN_ROW - 1
    /\ idx_y \in 0 .. MAX_NROWS_IN_DIALOG
    /\ drawn \in Seq(LetterType)
    /\ warned \in BOOLEAN

(* No letter sticks out of the dialog picture, whatever the message holds:  *)
(* the loop breaks off before the row below the last one is used.          *)
InsideDialog ==
    \A i \in 1 .. Len(drawn) :
        /\ drawn[i].x + LETTER_WIDTH <= PictureWidth
        /\ drawn[i].y + LETTER_HEIGHT <= PictureHeight

(* A letter is drawn to the right of, or in a row below, all letters before *)
(* it, so no letter paints over another one.                                *)
ReadingOrder ==
    \A i, j \in 1 .. Len(drawn) : i < j =>
        \/ drawn[i].y + LETTER_HEIGHT <= drawn[j].y
        \/ drawn[i].y = drawn[j].y /\ drawn[i].x + LETTER_WIDTH <= drawn[j].x

(***************************************************************************)
(* What has been consumed of the message has been drawn, byte by byte, and *)
(* what comes after a newline is in a lower row than what comes before it. *)
(***************************************************************************)
Letters(s) == Only(s, Printable)

TextShown ==
    /\ [i \in 1 .. Len(drawn) |-> drawn[i].byte] = Letters(SubSeq(msg, 1, nth))
    /\ \A k \in 1 .. nth : msg[k] = Newline =>
          \A i, j \in 1 .. Len(drawn) :
              i <= Len(Letters(SubSeq(msg, 1, k))) /\ Len(Letters(SubSeq(msg, 1, k))) < j
                  => drawn[i].y + LETTER_HEIGHT <= drawn[j].y
=============================================================================
