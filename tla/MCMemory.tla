------------------------------ MODULE MCMemory ------------------------------
(***************************************************************************)
(* The two allocators of core/mm.c for TLC.  alloc() takes mm_lock2 and    *)
(* may take mm_lock inside; mm_page_alloc() never takes mm_lock2, so they  *)
(* are exercised one at a time: a behaviour chooses one at the start.      *)
(***************************************************************************)
EXTENDS PageAlloc, TLC

CONSTANTS SmallPage, SmallSize, DataBit, HeaderBits

(* A page has room for an object behind its header. *)
ASSUME SlotAssumption ==
    /\ SmallSize \subseteq Nat
    /\ DataBit \in [SmallSize -> Nat] /\ HeaderBits \in [SmallSize -> Nat]
    /\ \A n \in SmallSize : HeaderBits[n] < DataBit[n]

(* Size 0: five slots, two of them for the header; size 1: three and one *)
FewSlots == [n \in SmallSize |-> IF n = 0 THEN 5 ELSE 3]
FewHeaderSlots == [n \in SmallSize |-> IF n = 0 THEN 2 ELSE 1]

VARIABLES part, alloclist, pn, full, data, objects

Small == INSTANCE AllocList WITH Page <- SmallPage, Size <- SmallSize,
             ALLOCLIST_DATABIT <- DataBit, HeaderSlots <- HeaderBits

smallvars == <<alloclist, pn, full, data, objects>>
memvars == <<part, vars, smallvars>>

MemInit == /\ part \in {"pages", "objects"}
           /\ Init /\ Small!Init

MemNext ==
    /\ UNCHANGED part
    /\ \/ part = "pages" /\ Next /\ UNCHANGED smallvars
       \/ part = "objects" /\ Small!Next /\ UNCHANGED vars

MemSpec == MemInit /\ [][MemNext]_memvars

Symmetry == Permutations(CPU) \cup Permutations(SmallPage)

-----------------------------------------------------------------------------
(* Small objects: bitmap, lists and callers agree (alloc() and free()). *)
SlotsAccounted == Small!SlotsAccounted
=============================================================================
