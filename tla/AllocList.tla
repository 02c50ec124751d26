------------------------------ MODULE AllocList ------------------------------
(***************************************************************************)
(* alloc() and free() of core/mm.c for small objects: a page is cut into   *)
(* slots of one size, its first slots hold a header with a bitmap of the   *)
(* used ones.  Pages are in the list of their size; one that turns out to  *)
(* be full is dropped from it and marked, and free() puts it back.  Both   *)
(* functions hold mm_lock2, also while alloc() takes a page (module        *)
(* PageAlloc), so each is one step here.                                   *)
(***************************************************************************)
EXTENDS List1, FiniteSets

CONSTANTS
    Page,            \* pages that alloc_page() can give
    Size,            \* sizes of small objects
    ALLOCLIST_DATABIT, \* slots of a page, for each size
    HeaderSlots      \* slots the header takes, for each size

VARIABLES
    alloclist,       \* pages of each size
    pn,              \* size of a page's slots, -1 if the page is not in use here
    full,            \* bit 7 of p->n: the page is in no list
    data,            \* the slots whose bit is set
    objects          \* objects that callers have: page and slot

vars == <<alloclist, pn, full, data, objects>>

Init ==
    /\ alloclist = [i \in Size |-> <<>>]
    /\ pn = [p \in Page |-> -1]
    /\ full = [p \in Page |-> FALSE]
    /\ data = [p \in Page |-> {}]
    /\ objects = {}

-----------------------------------------------------------------------------
Header(i) == 0 .. HeaderSlots[i] - 1

Unused(p, i) == (0 .. ALLOCLIST_DATABIT[i] - 1) \ data[p]

(* alloclist_alloc: the first slot whose bit is clear *)
FirstUnused(p, i) == CHOOSE j \in Unused(p, i) : \A k \in Unused(p, i) : j <= k

(* The pages that alloc() pops and finds full *)
Dropped(i) == {k \in 1 .. Len(alloclist[i]) :
                   \A m \in 1 .. k : Unused(alloclist[i][m], i) = {}}

MarkFull(i) == [p \in Page |-> full[p] \/ \E k \in Dropped(i) : alloclist[i][k] = p]

Rest(i) == SubSeq(alloclist[i], Cardinality(Dropped(i)) + 1, Len(alloclist[i]))

(* alloc: an object from the first page that has one *)
AllocFrom(i) ==
    LET p == Head(Rest(i))
        j == FirstUnused(p, i)
    IN  /\ Rest(i) # <<>>
        /\ full' = MarkFull(i)
        /\ alloclist' = [alloclist EXCEPT ![i] = LIST1_PUSH(LIST1_POP(Rest(i)), p)]
        /\ data' = [data EXCEPT ![p] = @ \cup {j}]
        /\ objects' = objects \cup {<<p, j>>}
        /\ UNCHANGED pn

(* alloc: there is none, and alloclist_new() makes a page *)
AllocNew(i) ==
    \E p \in Page :
        /\ Rest(i) = <<>>
        /\ pn[p] = -1
        /\ full' = MarkFull(i)
        /\ pn' = [pn EXCEPT ![p] = i]
        /\ alloclist' = [alloclist EXCEPT ![i] = <<p>>]
        /\ data' = [data EXCEPT ![p] = Header(i) \cup {HeaderSlots[i]}]
        /\ objects' = objects \cup {<<p, HeaderSlots[i]>>}

(* A slip: a page that was full stays out of its list. *)
Relink_Not(p) == UNCHANGED <<alloclist, full>>

Relink(p) ==
    IF full[p]
    THEN /\ alloclist' = [alloclist EXCEPT ![pn[p]] = LIST1_PUSH(@, p)]
         /\ full' = [full EXCEPT ![p] = FALSE]
    ELSE UNCHANGED <<alloclist, full>>

ClearBit(p, j) == data[p] \ {j}

(* free: the caller's page and slot are computed from the address. *)
free ==
    \E o \in objects :
        /\ Relink(o[1])
        /\ data' = [data EXCEPT ![o[1]] = ClearBit(o[1], o[2])]
        /\ objects' = objects \ {o}
        /\ UNCHANGED pn

Next == \/ \E i \in Size : AllocFrom(i) \/ AllocNew(i)
        \/ free

Spec == Init /\ [][Next]_vars

-----------------------------------------------------------------------------
TypeOK ==
    /\ alloclist \in [Size -> Seq(Page)]
    /\ pn \in [Page -> Size \cup {-1}]
    /\ full \in [Page -> BOOLEAN]
    /\ \A p \in Page : pn[p] # -1 => data[p] \subseteq 0 .. ALLOCLIST_DATABIT[pn[p]] - 1

(***************************************************************************)
(* Nothing is handed out twice, and nothing that is free is lost: the bits *)
(* set in a page are its header's and those of the objects callers have,   *)
(* and a page with a free slot is in the list of its size, once, however   *)
(* pages were passed over as full and put back before.                     *)
(***************************************************************************)
SlotsAccounted ==
    \A p \in Page : pn[p] # -1 =>
        /\ data[p] = Header(pn[p]) \cup {o[2] : o \in {x \in objects : x[1] = p}}
        /\ Cardinality({k \in 1 .. Len(alloclist[pn[p]]) : alloclist[pn[p]][k] = p})
               = IF full[p] THEN 0 ELSE 1
        /\ full[p] => Unused(p, pn[p]) = {}
=============================================================================
