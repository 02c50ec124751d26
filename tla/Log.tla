--------------------------------- MODULE Log ---------------------------------
(***************************************************************************)
(* The log of the VMM (core/tty.c): a ring of the characters printed last, *)
(* which a panic copies into memory that survives a reset, several times   *)
(* because firmware may overwrite some of it, and which the next start of  *)
(* the VMM puts in front of its own messages.  tty_putchar() runs under    *)
(* putchar_lock; the copying is done at start and in a panic, when the     *)
(* other processors do not print.  Characters are numbered, so that each   *)
(* can be told from the others.                                            *)
(***************************************************************************)
EXTENDS Integers, Sequences, FiniteSetsExt

CONSTANTS
    SIZE,        \* sizeof logbuf.log (65536)
    W,           \* bits of an unsigned int (32)
    Area,        \* numbers of the places for a copy in panic memory
    MaxSaid,     \* bound: characters printed
    MaxResets    \* bound: resets

VARIABLES
    logoffset, loglen, log,    \* logbuf
    logflag,
    area,        \* panic memory: copies with their key and checksum
    phase,       \* "boot" until panic_init_global3(), "up", or "panic"
    chars,       \* characters printed so far
    said,        \* what has been printed since the start (history)
    old,         \* what had been when the copy was made (history)
    resets

logbuf == <<logoffset, loglen, log>>
vars == <<logbuf, logflag, area, phase, chars, said, old, resets>>

(* Contents of a place for a copy: cleared, a copy, or something whose key *)
(* or checksum is wrong                                                    *)
Cleared == [valid |-> FALSE, buf |-> <<>>]
Copy(buf) == [valid |-> TRUE, buf |-> buf]
Damaged == [valid |-> FALSE, buf |-> <<0>>]

At(i) == i % SIZE

(* The log, oldest character first (ttylog_msghandler) *)
Contents == [i \in 1 .. loglen |-> log[At(logoffset + i - 1)]]

-----------------------------------------------------------------------------
(* tty_init_global, in memory as it is found *)
Init ==
    /\ logoffset = 0 /\ loglen = 0
    /\ log = [i \in 0 .. SIZE - 1 |-> 0]
    /\ logflag = TRUE
    /\ phase = "boot"
    /\ area = [k \in Area |-> Damaged]
    /\ chars = 0 /\ said = <<>> /\ old = <<>> /\ resets = 0

(* tty_putchar, as far as the log goes *)
tty_putchar ==
    /\ phase # "panic"
    /\ chars < MaxSaid
    /\ chars' = chars + 1
    /\ IF logflag
       THEN /\ log' = [log EXCEPT ![At((logoffset + loglen) % 2^W)] = chars + 1]
            /\ IF loglen = SIZE
               THEN logoffset' = At(logoffset + 1) /\ UNCHANGED loglen
               ELSE loglen' = loglen + 1 /\ UNCHANGED logoffset
            /\ said' = Append(said, chars + 1)
       ELSE UNCHANGED <<logbuf, said>>
    /\ UNCHANGED <<logflag, area, phase, old, resets>>

(* call_panic_shell with panic_reboot set: ttylog_copy_to_panicmem.  Each  *)
(* place is large enough for the whole log.                                *)
ttylog_copy_to_panicmem ==
    /\ phase # "panic" /\ logflag
    /\ area' = [k \in Area |-> Copy(Contents)]
    /\ old' = said
    /\ phase' = "panic"
    /\ UNCHANGED <<logbuf, logflag, chars, said, resets>>

(* ... otherwise the shell is called, if it is there, and the log ends. *)
ttylog_stop ==
    /\ phase = "up" /\ logflag
    /\ logflag' = FALSE
    /\ UNCHANGED <<logbuf, area, phase, chars, said, old, resets>>

(* The machine is reset, by the panic or by somebody; what is left of each *)
(* copy is the firmware's choice.  The VMM starts again (tty_init_global). *)
Reset ==
    /\ resets < MaxResets
    /\ resets' = resets + 1
    /\ logoffset' = 0 /\ loglen' = 0
    /\ log' = [i \in 0 .. SIZE - 1 |-> 0]
    /\ logflag' = TRUE
    /\ phase' = "boot"
    /\ said' = <<>>
    /\ \E lost \in SUBSET Area :
           area' = [k \in Area |-> IF k \in lost THEN Damaged ELSE area[k]]
    /\ UNCHANGED <<chars, old>>

(* How much of a copy is restored.  A slip: all of it, over new messages.  *)
Restored_All(buf) == Len(buf)

Restored(buf) == Min({Len(buf), SIZE - loglen})

(* ttylog_copy_from_panicmem: the first copy that is valid goes in front   *)
(* of the log, the last character first; all are cleared.  That a log was  *)
(* found is printed before (tty_putchar).                                  *)
ttylog_copy_from_panicmem ==
    LET Valid == {k \in Area : area[k].valid}
        buf   == area[Min(Valid)].buf
        n     == Restored(buf)
        first == (logoffset - n) % 2^W
    IN  /\ phase = "boot"
        /\ phase' = "up"
        /\ area' = [k \in Area |-> Cleared]
        /\ IF Valid = {} THEN UNCHANGED <<logbuf, said>>
           ELSE /\ logoffset' = first
                /\ loglen' = loglen + n
                /\ log' = [j \in 0 .. SIZE - 1 |->
                             LET i == At(j - first)
                             IN  IF i < n THEN buf[Len(buf) - n + i + 1] ELSE log[j]]
                /\ said' = old \o said
        /\ UNCHANGED <<logflag, chars, old, resets>>

Next == \/ tty_putchar \/ ttylog_copy_to_panicmem \/ ttylog_stop \/ Reset
        \/ ttylog_copy_from_panicmem

Spec == Init /\ [][Next]_vars

-----------------------------------------------------------------------------
(***************************************************************************)
(* The log is the end of what has been printed, in order and without a     *)
(* gap, as much as there is room for; after a panic, of what was printed   *)
(* before it followed by what was printed since, although the offset may   *)
(* wrap below zero, the ring be full, copies be damaged, and further       *)
(* resets and panics come at any time.                                     *)
(***************************************************************************)
LogIsTail ==
    LET n == Min({SIZE, Len(said)})
    IN  Contents = SubSeq(said, Len(said) - n + 1, Len(said))
=============================================================================
