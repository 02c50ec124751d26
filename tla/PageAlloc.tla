------------------------------ MODULE PageAlloc ------------------------------
(***************************************************************************)
(* The page allocator of core/mm.c: free blocks of 2^n pages in one list   *)
(* per n, split on allocation and merged with their buddies when freed.    *)
(* mm_page_alloc() calls itself for a larger block with mm_lock released,  *)
(* so a block is in nobody's list while it is on its way down, and other   *)
(* processors allocate and free in between.  Pages are numbered, as in     *)
(* pagestruct[].                                                           *)
(***************************************************************************)
EXTENDS List1, FiniteSets

CONSTANTS
    CPU,
    NUM_OF_PAGES,
    NUM_OF_ALLOCSIZE,
    Vmm,             \* pages of the VMM's image, never freed
    PanicMem,        \* pages kept back for a panic (mm_get_panicmem)
    NULL

(* Pages of a block of size n: 1 << n *)
PageCount[n \in Nat] == IF n = 0 THEN 1 ELSE 2 * PageCount[n - 1]

Page == 0 .. NUM_OF_PAGES - 1
Size == 0 .. NUM_OF_ALLOCSIZE - 1

ASSUME PageAssumption ==
    /\ NUM_OF_ALLOCSIZE \in Nat \ {0}
    /\ NUM_OF_PAGES \in Nat \ {0}
    /\ NUM_OF_PAGES % PageCount[NUM_OF_ALLOCSIZE - 1] = 0
    /\ Vmm \subseteq Page /\ PanicMem \subseteq Page /\ Vmm \cap PanicMem = {}
    /\ NULL \notin Page \cup CPU

VARIABLES
    type,            \* page type
    allocsize,       \* logarithm of the size of the block a page heads
    list1_freepage,  \* free blocks of each size
    mm_lock,         \* the processor that is in mm_page_free()'s loop, or NULL
    pages,           \* pages that mm_init_global() has still to free
    panicmem,        \* pages that mm_free_panicmem() has still to free
    call,            \* the calls of mm_page_alloc() on a processor
    block,           \* the block mm_page_free() merges
    owned,           \* blocks that callers have
    asserted         \* an assertion has failed: the VMM is in panic

pagevars == <<type, allocsize, list1_freepage, mm_lock>>
vars == <<pagevars, pages, panicmem, call, block, owned, asserted>>

-----------------------------------------------------------------------------
(* virt_to_page(virt ^ s): the other half of the block of twice the size *)
Buddy(p, n) == IF (p \div PageCount[n]) % 2 = 0 THEN p + PageCount[n] ELSE p - PageCount[n]

(* A call of mm_page_alloc(want) that has got to mm_page_alloc(n); p is    *)
(* what that returned.                                                     *)
Call(want, n, p) == [want |-> want, n |-> n, p |-> p]
NoCall == Call(NULL, NULL, NULL)

(* ASSERT (n < NUM_OF_ALLOCSIZE) has failed: out of memory, a panic *)
OutOfMemory(c) == call[c].n = NUM_OF_ALLOCSIZE

Init ==
    /\ type = [p \in Page |-> "RESERVED"]
    /\ allocsize = [p \in Page |-> 0]
    /\ list1_freepage = [n \in Size |-> <<>>]
    /\ mm_lock = NULL
    /\ pages = Page \ (Vmm \cup PanicMem)
    /\ panicmem = PanicMem
    /\ call = [c \in CPU |-> NoCall]
    /\ block = NULL
    /\ owned = {}
    /\ asserted = FALSE

-----------------------------------------------------------------------------
(* mm_page_free: the block goes to the list of its size *)
Link(c, p) ==
    /\ mm_lock = NULL
    /\ mm_lock' = c
    /\ block' = p
    /\ type' = [type EXCEPT ![p] = "FREE"]
    /\ list1_freepage' = [list1_freepage EXCEPT ![allocsize[p]] = LIST1_ADD(@, p)]

CanMerge(p) ==
    /\ allocsize[p] < NUM_OF_ALLOCSIZE - 1
    /\ type[Buddy(p, allocsize[p])] = "FREE"
    /\ allocsize[Buddy(p, allocsize[p])] = allocsize[p]

(* One round of the loop: the lower half heads the block of twice the size *)
Merge(c) ==
    LET n == allocsize[block]
        p == IF Buddy(block, n) < block THEN Buddy(block, n) ELSE block
        q == Buddy(p, n)
    IN  /\ mm_lock = c
        /\ CanMerge(block)
        /\ type' = [type EXCEPT ![q] = "NOT_HEAD"]
        /\ allocsize' = [allocsize EXCEPT ![p] = n + 1]
        /\ list1_freepage' =
               [list1_freepage EXCEPT ![n] = LIST1_DEL(LIST1_DEL(@, p), q),
                                      ![n + 1] = LIST1_ADD(@, p)]
        /\ block' = p
        /\ UNCHANGED <<mm_lock, pages, panicmem, call, owned, asserted>>

Merged(c) ==
    /\ mm_lock = c
    /\ ~CanMerge(block)
    /\ mm_lock' = NULL
    /\ block' = NULL
    /\ UNCHANGED <<type, allocsize, list1_freepage, pages, panicmem, call, owned, asserted>>

(* mm_init_global: every page that may be used is freed, from the first *)
mm_init_global(c) ==
    \E p \in pages :
        /\ \A r \in pages : p <= r
        /\ Link(c, p)
        /\ pages' = pages \ {p}
        /\ UNCHANGED <<allocsize, panicmem, call, owned, asserted>>

(* mm_free_panicmem, from a panic for whatever reason *)
mm_free_panicmem(c) ==
    \E p \in panicmem :
        /\ pages = {}
        /\ call[c] = NoCall \/ OutOfMemory(c)
        /\ \A r \in panicmem : p <= r
        /\ Link(c, p)
        /\ panicmem' = panicmem \ {p}
        /\ call' = [call EXCEPT ![c] = NoCall]
        /\ UNCHANGED <<allocsize, pages, owned, asserted>>

(* free_page, free_page_phys; not necessarily where it was allocated *)
free_page(c) ==
    \E p \in owned :
        /\ call[c] = NoCall
        /\ Link(c, p)
        /\ owned' = owned \ {p}
        /\ UNCHANGED <<allocsize, pages, panicmem, call, asserted>>

-----------------------------------------------------------------------------
(* alloc_pages: n is the smallest size that is enough. *)
alloc_pages(c) ==
    \E n \in Size :
        /\ pages = {} /\ mm_lock # c
        /\ call[c] = NoCall
        /\ call' = [call EXCEPT ![c] = Call(n, n, NULL)]
        /\ UNCHANGED <<pagevars, pages, panicmem, block, owned, asserted>>

(* The innermost call of mm_page_alloc has popped p and returns it. *)
Popped(c, n, p) ==
    LET done == n = call[c].want
    IN  /\ call' = [call EXCEPT ![c] = IF done THEN NoCall ELSE Call(@.want, n, p)]
        /\ owned' = IF done THEN owned \cup {p} ELSE owned

(* A slip: the page is marked only after mm_lock is released, if at all. *)
Mark_Late(t, p) == t

Mark(t, p) == [t EXCEPT ![p] = "ALLOCATED"]

Searches(c) == call[c] # NoCall /\ call[c].p = NULL /\ ~OutOfMemory(c)

(* The list is not empty. *)
Pop(c) ==
    LET n == call[c].n
        p == Head(list1_freepage[n])
    IN  /\ mm_lock = NULL
        /\ Searches(c)
        /\ list1_freepage[n] # <<>>
        /\ list1_freepage' = [list1_freepage EXCEPT ![n] = LIST1_POP(@)]
        /\ type' = Mark(type, p)
        /\ asserted' = (asserted \/ type[p] # "FREE")
        /\ Popped(c, n, p)
        /\ UNCHANGED <<allocsize, mm_lock, pages, panicmem, block>>

(* It is empty: mm_page_alloc(n + 1) is called. *)
GoUp(c) ==
    /\ mm_lock = NULL
    /\ Searches(c)
    /\ list1_freepage[call[c].n] = <<>>
    /\ call' = [call EXCEPT ![c].n = @ + 1]
    /\ UNCHANGED <<pagevars, pages, panicmem, block, owned, asserted>>

(* A slip: the lower half keeps the size of the block it was part of. *)
Halve_KeepSize(p, n) == allocsize

(* The upper half has had this size since it was merged. *)
Halve(p, n) == [allocsize EXCEPT ![p] = n]

(***************************************************************************)
(* mm_page_alloc(n + 1) has returned p.  Both halves go to the end of the  *)
(* list, and its first block is taken: one of them, or one that another    *)
(* processor has freed in the meantime.                                    *)
(***************************************************************************)
Split(c) ==
    LET n    == call[c].n - 1
        p    == call[c].p
        q    == Buddy(p, n)
        t    == [type EXCEPT ![p] = "FREE", ![q] = "FREE"]
        list == LIST1_ADD(LIST1_ADD(list1_freepage[n], p), q)
    IN  /\ mm_lock = NULL
        /\ p # NULL
        /\ allocsize' = Halve(p, n)
        /\ list1_freepage' = [list1_freepage EXCEPT ![n] = LIST1_POP(list)]
        /\ type' = Mark(t, Head(list))
        /\ asserted' = (asserted \/ t[Head(list)] # "FREE")
        /\ Popped(c, n, Head(list))
        /\ UNCHANGED <<mm_lock, pages, panicmem, block>>

Next ==
    \E c \in CPU :
        \/ mm_init_global(c) \/ mm_free_panicmem(c) \/ free_page(c)
        \/ Merge(c) \/ Merged(c)
        \/ alloc_pages(c) \/ Pop(c) \/ GoUp(c) \/ Split(c)

Spec == Init /\ [][Next]_vars

-----------------------------------------------------------------------------
TypeOK ==
    /\ type \in [Page -> {"FREE", "NOT_HEAD", "ALLOCATED", "RESERVED"}]
    /\ allocsize \in [Page -> Size]
    /\ list1_freepage \in [Size -> Seq(Page)]
    /\ mm_lock \in CPU \cup {NULL}
    /\ pages \subseteq Page /\ panicmem \subseteq Page /\ owned \subseteq Page
    /\ block \in Page \cup {NULL}
    /\ \A c \in CPU : call[c].p \in Page \cup {NULL}

(* The pages of the block that p heads *)
Covers(p) == p .. p + PageCount[allocsize[p]] - 1

(* The free blocks: head, list and position *)
FreeBlocks == UNION {{<<list1_freepage[n][i], n, i>> : i \in 1 .. Len(list1_freepage[n])} : n \in Size}

Kept == Vmm \cup panicmem \cup pages

(***************************************************************************)
(* No page is handed out twice and none is lost: every page lies in        *)
(* exactly one of the free blocks, the callers' blocks, the blocks on      *)
(* their way down a mm_page_alloc() and the pages never freed, whatever    *)
(* other processors split and merge while mm_lock is released.             *)
(***************************************************************************)
EachPageOnce ==
    \A x \in Page :
          Cardinality({b \in FreeBlocks : x \in Covers(b[1])})
        + Cardinality({p \in owned : x \in Covers(p)})
        + Cardinality({c \in CPU : call[c].p # NULL /\ x \in Covers(call[c].p)})
        + (IF x \in Kept THEN 1 ELSE 0) = 1

(***************************************************************************)
(* "The old_type must be PAGE_TYPE_FREE, or the memory will be corrupted"  *)
(* (mm.c:567), and merging relies on the fields of pages it does not own:  *)
(* a page is FREE with size n exactly if it is in the list of that size,   *)
(* and the head of an upper half remembers at which size it was merged.    *)
(***************************************************************************)
FieldsAgree ==
    /\ ~asserted
    /\ \A b \in FreeBlocks : type[b[1]] = "FREE" /\ allocsize[b[1]] = b[2]
    /\ \A p \in Page : type[p] = "FREE" => \E b \in FreeBlocks : b[1] = p
    /\ \A p \in Page : type[p] = "NOT_HEAD" =>
           p % PageCount[allocsize[p] + 1] = PageCount[allocsize[p]]
=============================================================================
