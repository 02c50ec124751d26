-------------------------------- MODULE List1 --------------------------------
(***************************************************************************)
(* The doubly linked lists of include/core/list.h, as sequences: the head  *)
(* of a list is the head of the sequence.  An element is linked at most    *)
(* once, so an element of a list has one position in it.                   *)
(***************************************************************************)
EXTENDS Integers, Sequences, Functions

LIST1_ADD(l, e) == Append(l, e)

LIST1_PUSH(l, e) == <<e>> \o l

(* LIST1_DEL of the i-th element, counted from the head *)
DeleteAt(l, i) == [j \in 1 .. Len(l) - 1 |-> IF j < i THEN l[j] ELSE l[j + 1]]

Position(l, e) == CHOOSE i \in 1 .. Len(l) : l[i] = e

LIST1_DEL(l, e) == DeleteAt(l, Position(l, e))

(* A slip: LIST1_HEAD in place of LIST1_POP leaves the element linked. *)
LIST1_POP_PeekOnly(l) == l

(* What LIST1_POP leaves in a list that is not empty; it returns Head(l). *)
LIST1_POP(l) == DeleteAt(l, 1)

(* LIST1_INSERT before the i-th element, at the end for i = Len(l) + 1 *)
LIST1_INSERT(l, i, e) ==
    [j \in 1 .. Len(l) + 1 |->
        IF j < i THEN l[j] ELSE IF j = i THEN e ELSE l[j - 1]]
=============================================================================
