---------------------------- MODULE DisasMessage ----------------------------
(***************************************************************************)
(* The parser of DisasVisor messages, handle_disasvisor_message() in       *)
(* vpn/kernel.c.                                                           *)
(*                                                                         *)
(* The parser reads memory from the first byte of the UDP payload.  Only   *)
(* the keyword is compared against the payload length; from there on the   *)
(* parser stops at a NUL byte, wherever that is.  So its input here is the *)
(* memory mem that starts with the payload and goes on behind it, together *)
(* with udp_payload_len.  Positions count from 1.  A `return` in the code  *)
(* is the position Stop.                                                   *)
(***************************************************************************)
EXTENDS Integers, FiniteSetsExt, SequencesExt

CONSTANTS
    Keyword,      \* DISASVISOR_KEYWORD, as bytes
    TypeBits,     \* width of disaster_type (8)
    OffsetBits,   \* width of dialog_offset_x and dialog_offset_y (32)
    LenBits       \* width of msg_len, which detailed_info_len is passed in (32)

is_delimiter(c) == c \in {32, 9, 13, 10}

(* That powers are positive is stated because the provers do not know it. *)
ASSUME MessageAssumption ==
    /\ Keyword \in Seq(1 .. 255) /\ Keyword # <<>>
    /\ \A k \in 1 .. Len(Keyword) : ~is_delimiter(Keyword[k])
    /\ TypeBits \in Nat /\ OffsetBits \in Nat /\ LenBits \in Nat
    /\ 2^TypeBits > 0 /\ 2^OffsetBits > 0 /\ 2^LenBits > 0

NUL  == 0
Stop == 0

Digit == 48 .. 57

(* Memory is finite and the parser never runs off its end: a NUL follows. *)
Memory == {mem \in Seq(0 .. 255) : mem # <<>> /\ Last(mem) = NUL}

(* A slip: the test for NUL is gone *)
SKIP_DELIMITERS_NulToo(mem, m) ==
    IF m = Stop THEN Stop
    ELSE Min({k \in m .. Len(mem) : ~is_delimiter(mem[k])})

(* The first byte at or after m that is no delimiter *)
SKIP_DELIMITERS(mem, m) ==
    IF m = Stop THEN Stop
    ELSE LET k == Min({j \in m .. Len(mem) : ~is_delimiter(mem[j])})
         IN  IF mem[k] = NUL THEN Stop ELSE k

(* The end of the version number, which is skipped *)
SkipVersion(mem, m) ==
    IF m = Stop THEN Stop
    ELSE LET k == Min({j \in m .. Len(mem) : is_delimiter(mem[j]) \/ mem[j] = NUL})
         IN  IF mem[k] = NUL THEN Stop ELSE k

(* READ_INTEGER: the position of the delimiter that ends the number ... *)
IntegerEnd(mem, m) ==
    IF m = Stop THEN Stop
    ELSE LET k == Min({j \in m .. Len(mem) : mem[j] \notin Digit})
         IN  IF is_delimiter(mem[k]) THEN k ELSE Stop

(* ... and `result', a variable that is w bits wide, digit by digit *)
ReadUpto(ds, w) ==
    LET read[k \in 0 .. Len(ds)] ==
            IF k = 0 THEN 0 ELSE (read[k - 1] * 10 + (ds[k] - 48)) % 2^w
    IN  read

READ_INTEGER(mem, m, w) ==
    LET ds == SubSeq(mem, m, IntegerEnd(mem, m) - 1) IN ReadUpto(ds, w)[Len(ds)]

(***************************************************************************)
(* What the handler calls vga_display_disaster_warning() with, or Ignored. *)
(* detailed_info_len is unsigned: it wraps when SKIP_DELIMITERS has left   *)
(* the payload.                                                            *)
(***************************************************************************)
Ignored == [shown |-> FALSE]

handle_disasvisor_message(mem, udp_payload_len) ==
    LET len == Len(Keyword)
        v   == SKIP_DELIMITERS(mem, len + 1)
        t   == SKIP_DELIMITERS(mem, SkipVersion(mem, v))
        x   == SKIP_DELIMITERS(mem, IntegerEnd(mem, t))
        y   == SKIP_DELIMITERS(mem, IntegerEnd(mem, x))
        m   == SKIP_DELIMITERS(mem, IntegerEnd(mem, y))
    IN  IF \/ udp_payload_len < len
           \/ SubSeq(mem, 1, len) # Keyword
           \/ ~is_delimiter(mem[len + 1])
           \/ m = Stop
        THEN Ignored
        ELSE [shown             |-> TRUE,
              disaster_type     |-> READ_INTEGER(mem, t, TypeBits),
              dialog_offset_x   |-> READ_INTEGER(mem, x, OffsetBits),
              dialog_offset_y   |-> READ_INTEGER(mem, y, OffsetBits),
              detailed_info     |-> m,
              detailed_info_len |-> (udp_payload_len - (m - 1)) % 2^LenBits]

-----------------------------------------------------------------------------
(***************************************************************************)
(* The message format of the comment above the handler, read off a payload *)
(* in another way: cut the payload into words, the maximal runs of bytes   *)
(* that are no delimiters.                                                 *)
(***************************************************************************)
WordStart(s) == {i \in 1 .. Len(s) : /\ ~is_delimiter(s[i])
                                     /\ i = 1 \/ is_delimiter(s[i - 1])}
WordEnd(s, i) == Max({j \in i .. Len(s) : \A k \in i .. j : ~is_delimiter(s[k])})

(* The start of the next word after position i, or the end of the payload *)
NextWord(s, i) == Min({j \in WordStart(s) : j > i} \cup {Len(s) + 1})

NthUpto(s, n) ==
    LET start[k \in 0 .. n] == IF k = 0 THEN 0 ELSE NextWord(s, start[k - 1]) IN start

Nth(s, n) == NthUpto(s, n)[n]

Word(s, n) == SubSeq(s, Nth(s, n), WordEnd(s, Nth(s, n)))

(* The value of a decimal numeral *)
ValueUpto(ds) ==
    LET value[k \in 0 .. Len(ds)] ==
            IF k = 0 THEN 0 ELSE value[k - 1] * 10 + (ds[k] - 48)
    IN  value

Value(ds) == ValueUpto(ds)[Len(ds)]

(* Six words at least: the keyword, a version, three numbers, the text *)
InFormat(s) ==
    /\ Nth(s, 1) = 1 /\ Nth(s, 6) <= Len(s)
    /\ Word(s, 1) = Keyword
    /\ \A i \in 1 .. Nth(s, 6) : s[i] # NUL
    /\ \A n \in 3 .. 5 : Range(Word(s, n)) \subseteq Digit

Meaning(s) ==
    [shown             |-> TRUE,
     disaster_type     |-> Value(Word(s, 3)) % 2^TypeBits,
     dialog_offset_x   |-> Value(Word(s, 4)) % 2^OffsetBits,
     dialog_offset_y   |-> Value(Word(s, 5)) % 2^OffsetBits,
     detailed_info     |-> Nth(s, 6),
     detailed_info_len |-> Len(s) - Nth(s, 6) + 1]
=============================================================================
