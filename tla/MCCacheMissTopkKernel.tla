------------------------- MODULE MCCacheMissTopkKernel -------------------------
(* Small values for the constants of CacheMissTopkKernel.  The inputs of a   *)
(* row are the masks get_cache_miss_topk_indices computes from two rows of   *)
(* token ids.                                                                *)
EXTENDS CacheMissTopkKernel

InputsOf(n, o) == [miss |-> DiffCols(n, o), avail |-> DiffCols(o, n), old |-> o]

\* A row that needs empty slots, all but its last, and one that misses as many
\* tokens as a row has, the largest count, with its last slot to fill.
TwoInputs ==
    {InputsOf([i \in Slot |-> IF i = TopK - 1 THEN Empty ELSE i], [i \in Slot |-> Empty]),
     InputsOf([i \in Slot |-> i], [i \in Slot |-> IF i = TopK - 1 THEN TopK ELSE Empty])}
==============================================================================
