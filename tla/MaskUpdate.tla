------------------------------ MODULE MaskUpdate ------------------------------
(***************************************************************************)
(* What one launch of the cache_miss_topk kernel promises the host: every  *)
(* row of available_slot_mask is extended once, as a whole, by the empty   *)
(* slots its misses still need, in any order, and none is left out.        *)
(***************************************************************************)
EXTENDS TopkMasks

CONSTANT MaxBatch   \* the largest batch

VARIABLES
    miss,    \* cache_miss_token_mask
    old,     \* topk_indices_old
    mask,    \* available_slot_mask
    left     \* the rows that are not extended yet

vars == <<miss, old, mask, left>>

Init ==
    \E n \in 1 .. MaxBatch :
        LET Rows == 0 .. n - 1
        IN  /\ miss \in [Rows -> SUBSET Slot]
            /\ mask \in [Rows -> SUBSET Slot]
            /\ DOMAIN old = Rows
            /\ left = Rows

ExtendRow(r) ==
    /\ r \in left
    /\ mask' = [mask EXCEPT ![r] = KernelRow(miss[r], mask[r], old[r])]
    /\ left' = left \ {r}
    /\ UNCHANGED <<miss, old>>

Next == \E r \in left : ExtendRow(r)

Spec == Init /\ [][Next]_vars /\ WF_vars(Next)
==============================================================================
