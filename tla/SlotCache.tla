------------------------------ MODULE SlotCache ------------------------------
(***************************************************************************)
(* What get_cache_miss_topk_indices promises its caller, without tensors,  *)
(* masks or kernels: topk_buffer is a cache of TopK slots per row, and one *)
(* call turns the contents of the rows of the batch into exactly the       *)
(* wanted tokens, moving none of those that are there already.             *)
(***************************************************************************)
EXTENDS Naturals

CONSTANTS
    MaxReqs,   \* the rows of the cache
    TopK,      \* the slots of a row
    Page,      \* what a slot can hold: a token of a request
    Free       \* the contents of a slot that holds nothing

VARIABLES
    slots,     \* slots[r][s]: what slot s of row r holds
    want       \* the batch being served: row -> the pages it wants

vars == <<slots, want>>

Row  == 0 .. MaxReqs - 1
Slot == 0 .. TopK - 1

\* No batch is being served.
NoBatch == [r \in {} |-> {}]

Holds(row) == {row[s] : s \in Slot} \ {Free}

Init ==
    /\ slots = [r \in Row |-> [s \in Slot |-> Free]]
    /\ want = NoBatch

Ask ==
    /\ want = NoBatch
    /\ \E n \in 1 .. MaxReqs : want' \in [0 .. n - 1 -> SUBSET Page]
    /\ UNCHANGED slots

\* One row after it was served: it holds the wanted pages and no other, each
\* once, and a page that was there already has not moved.
Served(before, after, wanted) ==
    /\ Holds(after) = wanted
    /\ \A s, t \in Slot : after[s] = after[t] /\ after[s] # Free => s = t
    /\ \A s \in Slot : before[s] \in wanted => after[s] = before[s]

Serve ==
    /\ want # NoBatch
    /\ slots' \in [Row -> [Slot -> Page \cup {Free}]]
    /\ \A r \in Row :
          IF r \in DOMAIN want
          THEN Served(slots[r], slots'[r], want[r])
          ELSE slots'[r] = slots[r]
    /\ want' = NoBatch

\* The call failed: the cache is as it was.
Abort ==
    /\ want # NoBatch
    /\ want' = NoBatch
    /\ UNCHANGED slots

Next == Ask \/ Serve \/ Abort

Spec == Init /\ [][Next]_vars
==============================================================================
