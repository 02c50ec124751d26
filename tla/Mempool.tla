------------------------------- MODULE Mempool -------------------------------
(***************************************************************************)
(* The memory pools of core/mm.c, which the protection-domain builds of    *)
(* the VPN, storage and ID manager services use: blocks of pages, each cut *)
(* into pieces that are in the block's alloc list or in its free list.     *)
(* Every function holds mp->lock from its first access to its return.      *)
(***************************************************************************)
EXTENDS List1

CONSTANTS
    Block,           \* addresses alloc_pages() can return
    PAGESIZE,        \* in units of the smallest request
    MaxLen,          \* bound: the longest request
    numkeeps,        \* unused blocks that a pool keeps
    Keep             \* values mp->keep may have: mempool_new() does not set it

VARIABLES
    block,           \* addresses of the pool's blocks, in order
    len,             \* p->len of a block
    alloc, free,     \* the lists of a block
    keep,            \* mp->keep
    inuse            \* a block is given back while a piece of it is in use

vars == <<block, len, alloc, free, keep, inuse>>

Piece(o, l) == [off |-> o, len |-> l]

Init ==
    /\ block = <<>>
    /\ len = [b \in Block |-> 0]
    /\ alloc = [b \in Block |-> <<>>]
    /\ free = [b \in Block |-> <<>>]
    /\ keep \in Keep
    /\ inuse = FALSE

-----------------------------------------------------------------------------
Fits(b, l) == {i \in 1 .. Len(free[b]) : free[b][i].len >= l}

Index(s, e) == CHOOSE i \in 1 .. Len(s) : s[i] = e

First(S) == CHOOSE i \in S : \A j \in S : i <= j

(***************************************************************************)
(* `found' in mempool_allocmem(), with free list f of block b: a piece of  *)
(* the right length changes its list.  Of a longer one the beginning is    *)
(* cut off: the rest starts later, but q->len is not reduced.              *)
(***************************************************************************)
Take(b, f, l, blen, k) ==
    LET i == First({j \in 1 .. Len(f) : f[j].len >= l})
        q == f[i]
    IN  /\ keep' = IF q.len = blen THEN k - 1 ELSE k
        /\ alloc' = [alloc EXCEPT ![b] = LIST1_ADD(@, Piece(q.off, l))]
        /\ free' = [free EXCEPT ![b] = IF q.len = l THEN DeleteAt(f, i)
                                       ELSE [f EXCEPT ![i].off = @ + l]]

allocmem_found(l) ==
    \E b \in Range(block) :
        /\ Fits(b, l) # {}
        /\ \A x \in Range(block) : Fits(x, l) # {} => Index(block, b) <= Index(block, x)
        /\ Take(b, free[b], l, len[b], keep)
        /\ UNCHANGED <<block, len, inuse>>

(* numpages is 1 here, doubled until it is enough *)
Bytes(l) == PAGESIZE * First({n \in {1, 2, 4, 8} : PAGESIZE * n >= l})

allocmem_new(l) ==
    \E b \in Block \ Range(block) :
        /\ \A x \in Range(block) : Fits(x, l) = {}
        /\ block' = LIST1_ADD(block, b)
        /\ len' = [len EXCEPT ![b] = Bytes(l)]
        /\ Take(b, <<Piece(0, Bytes(l))>>, l, Bytes(l), keep + 1)
        /\ UNCHANGED inuse

mempool_allocmem == \E l \in 1 .. MaxLen : allocmem_found(l) \/ allocmem_new(l)

-----------------------------------------------------------------------------
(* Positions of the free pieces that end where q starts, start where q ends *)
Before(f, q) == {i \in 1 .. Len(f) : f[i].off + f[i].len = q.off}
After(f, q)  == {i \in 1 .. Len(f) : q.off + q.len = f[i].off}

(* The piece q, at the end of f, is joined with the piece before it ... *)
JoinBefore(f) ==
    LET q == f[Len(f)] i == First(Before(f, q))
    IN  IF Before(f, q) = {} THEN <<f, Len(f)>>
        ELSE <<DeleteAt([f EXCEPT ![i].len = @ + q.len], Len(f)), i>>

(* ... and the one at position k with the piece behind it. *)
JoinAfter(f, k) ==
    LET i == First(After(f, f[k]))
    IN  IF After(f, f[k]) = {} THEN f
        ELSE DeleteAt([f EXCEPT ![k].len = @ + f[i].len], i)

(* mempool_freemem of a piece that a caller got.  When the first free      *)
(* piece looks like the whole block, the block is kept or given back.      *)
mempool_freemem ==
    \E b \in Range(block) : \E i \in 1 .. Len(alloc[b]) :
        LET q  == alloc[b][i]
            j  == JoinBefore(LIST1_ADD(free[b], q))
            f  == JoinAfter(j[1], j[2])
            a  == DeleteAt(alloc[b], i)
            whole == f[1].len = len[b]
            GivenBack == whole /\ keep >= numkeeps
        IN  /\ q.off < len[b]    \* otherwise the block is not found: a panic
            /\ \A k \in 1 .. i - 1 : alloc[b][k].off # q.off
            /\ alloc' = [alloc EXCEPT ![b] = IF GivenBack THEN <<>> ELSE a]
            /\ free' = [free EXCEPT ![b] = IF GivenBack THEN <<>> ELSE f]
            /\ block' = IF GivenBack THEN LIST1_DEL(block, b) ELSE block
            /\ keep' = IF whole /\ ~GivenBack THEN keep + 1 ELSE keep
            /\ inuse' = (inuse \/ (GivenBack /\ a # <<>>))
            /\ UNCHANGED len

Next == ~inuse /\ (mempool_allocmem \/ mempool_freemem)

Spec == Init /\ [][Next]_vars

-----------------------------------------------------------------------------
(***************************************************************************)
(* ASSERT (LIST1_POP (p->alloc) == NULL) in mempool_freemem(): no caller   *)
(* has a piece of a block that is given back.                              *)
(***************************************************************************)
GivenBackUnused == ~inuse
=============================================================================
