------------------------------ MODULE TopkMasks ------------------------------
(***************************************************************************)
(* The data operations of get_cache_miss_topk_indices and of the kernel it *)
(* launches, as functions of their inputs.                                 *)
(*                                                                         *)
(* A [num_reqs, topk] tensor is a function from rows to rows; a row is a   *)
(* function on Slot.  A boolean mask of that shape is the function from a  *)
(* row to the set of columns in which the mask is true.                    *)
(***************************************************************************)
EXTENDS Integers, FiniteSets

CONSTANTS
    TopK       \* topk, the width of a row

ASSUME TopKAssumption == TopK \in Nat \ {0}

\* The value of a column that holds no token.
Empty == -1

Slot == 0 .. TopK - 1

\* The tokens a row holds.
Held(row) == {row[i] : i \in Slot} \ {Empty}

\* The columns of a row that hold no token.
EmptyCols(row) == {i \in Slot : row[i] = Empty}

-----------------------------------------------------------------------------
(* What is asked of a row.                                                 *)

\* No token is in two columns: top-k selection returns each at most once.
Distinct(row) == \A i, j \in Slot : row[i] = row[j] /\ row[i] # Empty => i = j

\* Row a is not padded more than row old, unless old has no padding at all.  A
\* request whose context grows keeps this from one call to the next.
PadOK(a, old) ==
    \/ Cardinality(EmptyCols(a)) <= Cardinality(EmptyCols(old))
    \/ EmptyCols(old) = {}

-----------------------------------------------------------------------------
(* The masks.                                                              *)

\* Columns of a whose value occurs nowhere in b.
DiffCols(a, b) == {i \in Slot : \A j \in Slot : a[i] # b[j]}

GetSetDiffMask(a, b) == [r \in DOMAIN a |-> DiffCols(a[r], b[r])]

\* Mutant: the running sum is read before column i is counted.
EmptyCumsumLate(row, i) == Cardinality({j \in 0 .. i - 1 : row[j] = Empty})

\* cumsum after column i: the empty columns seen up to and including i.
EmptyCumsum(row, i) == Cardinality({j \in 0 .. i : row[j] = Empty})

\* Mutant: the comparison with the shortage is strict.
SelectEmptyStrict(row, shortage) ==
    {i \in EmptyCols(row) : EmptyCumsum(row, i) < shortage}

\* selected_empty_slot_mask of one row.
SelectEmpty(row, shortage) ==
    {i \in EmptyCols(row) : EmptyCumsum(row, i) <= shortage}

\* What the kernel leaves in one row of available_slot_mask.
KernelRow(missCols, availCols, old) ==
    availCols \cup SelectEmpty(old, Cardinality(missCols) - Cardinality(availCols))

CacheMissTopk(miss, avail, old) ==
    [r \in DOMAIN miss |-> KernelRow(miss[r], avail[r], old[r])]

-----------------------------------------------------------------------------
(* masked_select and aclnnInplaceMaskedScatter: both walk the whole tensor *)
(* in row-major order, across row boundaries.                              *)

Cells(mask) == {p \in (DOMAIN mask) \X Slot : p[2] \in mask[p[1]]}

NotAfter(p, q) == p[1] < q[1] \/ (p[1] = q[1] /\ p[2] <= q[2])

\* The position of cell p among the true cells of the mask, from 1.
Rank(mask, p) == Cardinality({q \in Cells(mask) : NotAfter(q, p)})

MaskedSelect(x, mask) ==
    [k \in 1 .. Cardinality(Cells(mask)) |->
        LET p == CHOOSE p \in Cells(mask) : Rank(mask, p) = k
        IN  x[p[1]][p[2]]]

\* True cells beyond the end of the source read past it: they get `junk`.
MaskedScatter(self, mask, source, junk) ==
    [r \in DOMAIN self |->
        [i \in Slot |->
            IF i \notin mask[r]                   THEN self[r][i]
            ELSE IF Rank(mask, <<r, i>>) \in DOMAIN source
                 THEN source[Rank(mask, <<r, i>>)]
                 ELSE junk]]
=============================================================================
