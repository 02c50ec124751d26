----------------------------- MODULE FrameQueue -----------------------------
(***************************************************************************)
(* What a network driver of the VMM promises to the function it calls with *)
(* received frames (recvphys_func): the good frames, each once and in the  *)
(* order of their arrival, in batches of at most BATCH.  Frames are lost   *)
(* only when they do not fit any more, or when the card is reset.          *)
(***************************************************************************)
EXTENDS Integers, Sequences

CONSTANTS Frame, BATCH

VARIABLES
    q,      \* frames received and not yet delivered
    out     \* the batch that was delivered last

vars == <<q, out>>

Init == q = <<>> /\ out = <<>>

Arrive(f) == q' = Append(q, f) /\ UNCHANGED out

(* A slip: the newest frame first *)
Deliver_Backwards(k) ==
    /\ k <= Len(q) /\ k <= BATCH
    /\ out' = [i \in 1 .. k |-> q[k + 1 - i]]
    /\ q' = SubSeq(q, k + 1, Len(q))

Deliver(k) ==
    /\ k <= Len(q) /\ k <= BATCH
    /\ out' = SubSeq(q, 1, k)
    /\ q' = SubSeq(q, k + 1, Len(q))

Reset == q' = <<>> /\ UNCHANGED out

Next == \/ \E f \in Frame : Arrive(f)
        \/ \E k \in 0 .. BATCH : Deliver(k)
        \/ Reset

Spec == Init /\ [][Next]_vars
=============================================================================
