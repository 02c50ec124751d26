----------------------------- MODULE MCWarning -----------------------------
(***************************************************************************)
(* From the payload to the letters: the parser of module DisasMessage on   *)
(* every payload that begins with one of Beginnings and goes on with at    *)
(* most MaxMore bytes of Alphabet, with different remains of earlier       *)
(* frames behind it, and the dialog of module Dialog on the text that the  *)
(* parser passes to it.                                                    *)
(***************************************************************************)
EXTENDS DisasMessage, Dialog

CONSTANTS
    Alphabet,    \* bytes to extend payloads with
    MaxMore      \* how many

VARIABLES
    payload,     \* the UDP payload
    more,        \* bytes appended so far
    behind,      \* what the receive buffer holds after the payload
    result       \* the call of vga_display_disaster_warning(), if any

parservars == <<payload, more, behind, result>>

(* Payloads are bytes, and their lengths fit into msg_len. *)
ASSUME PayloadAssumption ==
    /\ Alphabet \subseteq 0 .. 255
    /\ MaxMore \in Nat /\ Len(Keyword) + 9 + MaxMore < 2^LenBits

(* A short keyword, in place of "DISASVISOR" *)
MCKeyword == <<68, 86>>

(* Real beginnings of messages, cut off in different fields *)
Beginnings ==
    {<<>>,
     Keyword,
     Keyword \o <<32, 49>>,
     Keyword \o <<32, 49, 32, 50>>,
     Keyword \o <<32, 49, 32, 50, 10, 49>>,
     Keyword \o <<32, 49, 65, 10, 49, 32, 49, 50, 32>>,
     Keyword \o <<32, 49, 32, 49, 32, 50, 32, 49, 10>>}

(* A fresh buffer is zeroed; a used one holds the end of a longer message. *)
Behind == {<<NUL>>, <<32, 50, 32, 65, NUL>>, <<50, 10, 65, NUL>>}

NotYet == [shown |-> FALSE, yet |-> FALSE]

MCInit ==
    /\ Init
    /\ payload \in Beginnings
    /\ more = 0
    /\ behind \in Behind
    /\ result = NotYet

AppendByte(c) ==
    /\ result = NotYet
    /\ more < MaxMore
    /\ payload' = Append(payload, c)
    /\ more' = more + 1
    /\ UNCHANGED <<behind, result, vars>>

Handle ==
    /\ result = NotYet
    /\ payload # <<>>
    /\ result' = handle_disasvisor_message(payload \o behind, Len(payload))
    /\ UNCHANGED <<payload, more, behind, vars>>

(* The bytes that detailed_info and its length stand for, as far as memory *)
(* goes                                                                    *)
Text ==
    IF ~result.shown THEN <<>>
    ELSE SubSeq(payload \o behind, result.detailed_info,
                Min({result.detailed_info + result.detailed_info_len - 1,
                     Len(payload \o behind)}))

PassByte ==
    /\ Len(msg) < Len(Text)
    /\ Receive(Text[Len(msg) + 1])
    /\ UNCHANGED parservars

Draw ==
    /\ Len(msg) = Len(Text)
    /\ DrawLetter \/ StartRow \/ SkipByte
    /\ UNCHANGED parservars

MCNext == (\E c \in Alphabet : AppendByte(c)) \/ Handle \/ PassByte \/ Draw

MCSpec == MCInit /\ [][MCNext]_<<vars, parservars>>

-----------------------------------------------------------------------------
Handled == result # NotYet

(***************************************************************************)
(* A payload in the documented format is shown with exactly the numbers    *)
(* (as wide as the variables of the parser) and the text it holds, in      *)
(* whatever way the fields are separated and whatever an earlier frame has *)
(* left behind the payload in the receive buffer; and nothing else is      *)
(* shown: a message whose text starts inside the payload is in the         *)
(* format.  (Where it starts behind the payload, the message had no text:  *)
(* see OnlyPublished of Notify with BlankEvent.)                           *)
(***************************************************************************)
ParsesFormat ==
    /\ Handled /\ InFormat(payload) => result = Meaning(payload)
    /\ Handled /\ result.shown /\ result.detailed_info <= Len(payload)
           => InFormat(payload)
=============================================================================
