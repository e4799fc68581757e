--------------------------- MODULE GetCacheMissTopk ---------------------------
(***************************************************************************)
(* get_cache_miss_topk_indices and the loop that calls it: before every    *)
(* attention step the caller passes the top-k tokens of each row of the    *)
(* batch; the call decides which of them are missing from topk_buffer and  *)
(* which slots take them, records that in last_step_topk_indices and       *)
(* returns, in topk_indices, what to load where; a loader then fills the   *)
(* slots.                                                                  *)
(***************************************************************************)
EXTENDS TopkMasks

CONSTANTS
    ReqStride,     \* 1 << 16, the distance of the id ranges of two requests
    MaxReqs,       \* last_step_topk_indices.size(0)
    Req,           \* request ids
    Tok,           \* token positions topk_indices may hold
    PadCounts,     \* how many columns of a row of topk_indices may be -1
    PadDiscipline, \* TRUE: the caller keeps PadOK, see below
    Registered,    \* TRUE: the runtime knows the binary of the kernel
    RaiseAt,       \* the values of pc at which a step may throw
    Junk           \* what lies beyond the end of a tensor

ASSUME ReqStrideAssumption == ReqStride \in Nat \ {0}
ASSUME MaxReqsAssumption == MaxReqs \in Nat \ {0}
ASSUME ReqAssumption     == Req \subseteq Nat
ASSUME TokAssumption     == Tok \subseteq Nat
ASSUME JunkAssumption    == Junk \in Int
ASSUME FlagsAssumption   == PadDiscipline \in BOOLEAN /\ Registered \in BOOLEAN

VARIABLES
    last,      \* last_step_topk_indices: what each slot is recorded to hold
    buffer,    \* topk_buffer: what each slot does hold, as <<request, token>>
    numReqs,   \* num_reqs of the current or latest call
    reqs,      \* req_ids_tensor, sliced to num_reqs
    asked,     \* history: topk_indices as the caller passed it
    topk,      \* topk_indices, overwritten with what is to be loaded
    new,       \* topk_indices_new
    miss,      \* cache_miss_token_mask
    avail,     \* available_slot_mask
    toLoad,    \* topk_to_load
    pc         \* the last step that is complete

args   == <<numReqs, reqs, asked>>
locals == <<new, miss, avail, toLoad>>
vars   == <<last, buffer, args, topk, locals, pc>>

Row     == 0 .. MaxReqs - 1
Rows(n) == 0 .. n - 1

\* The points between two calls and the points inside one.
AtRest == {"idle", "loaded", "raised"}
Inside == {"called", "masked", "launched", "scattered", "recorded"}

\* A slot of topk_buffer that was never filled.
NoToken == <<>>

\* A local that is not alive.
Dead == <<>>

-----------------------------------------------------------------------------
(* Token ids that tell the requests apart.                                 *)

\* Mutant: the offset of two neighbouring requests overlaps by one token.
ReqIdsOffsetOverlapping(req) == req * (ReqStride - 1)

ReqIdsOffset(req) == req * ReqStride

AddOffset(x, q) ==
    [r \in DOMAIN x |-> [i \in Slot |->
        IF x[r][i] >= 0 THEN x[r][i] + ReqIdsOffset(q[r]) ELSE Empty]]

SubOffset(x, q) ==
    [r \in DOMAIN x |-> [i \in Slot |->
        IF x[r][i] >= 0 THEN x[r][i] - ReqIdsOffset(q[r]) ELSE Empty]]

-----------------------------------------------------------------------------
(* What the caller passes.                                                 *)

InputRow ==
    {row \in [Slot -> Tok \cup {Empty}] :
        Distinct(row) /\ Cardinality(EmptyCols(row)) \in PadCounts}

\* A batch has one row per request.
ReqIds(n) == {q \in [Rows(n) -> Req] : \A r, s \in Rows(n) : q[r] = q[s] => r = s}

-----------------------------------------------------------------------------
Init ==
    /\ last = [r \in Row |-> [s \in Slot |-> Empty]]
    /\ buffer = [r \in Row |-> [s \in Slot |-> NoToken]]
    /\ numReqs = 0 /\ reqs = <<>> /\ asked = <<>> /\ topk = <<>>
    /\ new = Dead /\ miss = Dead /\ avail = Dead /\ toLoad = Dead
    /\ pc = "idle"

\* The call up to and including the shape checks, which all hold.
Call(n, q, x) ==
    /\ pc \in AtRest
    /\ PadDiscipline => \A r \in Rows(n) : PadOK(x[r], last[r])
    /\ numReqs' = n /\ reqs' = q /\ asked' = x /\ topk' = x
    /\ pc' = "called"
    /\ UNCHANGED <<last, buffer, locals>>

\* A call that ends in an exception: the caller drops its arguments.
Throw ==
    /\ numReqs' = 0 /\ reqs' = <<>> /\ asked' = <<>> /\ topk' = <<>>
    /\ new' = Dead /\ miss' = Dead /\ avail' = Dead /\ toLoad' = Dead
    /\ pc' = "raised"

\* A call whose shapes do not fit: topk_indices of n rows and w columns, and a
\* req_ids_tensor of m elements.
Reject(n, w, m) ==
    /\ pc \in AtRest
    /\ n > MaxReqs \/ w # TopK \/ m < n
    /\ Throw
    /\ UNCHANGED <<last, buffer>>

OldSlice == [r \in Rows(numReqs) |-> last[r]]

ComputeMasks ==
    /\ pc = "called"
    /\ new' = AddOffset(topk, reqs)
    /\ miss' = GetSetDiffMask(new', OldSlice)
    /\ avail' = GetSetDiffMask(OldSlice, new')
    /\ pc' = "masked"
    /\ UNCHANGED <<last, buffer, args, topk, toLoad>>

\* What the launch makes of the mask.  Without a handle of the binary the stub
\* writes a line to the log and returns 0, and EXEC_KERNEL_CMD looks at no
\* result: the mask stays as it is.
LaunchResult == IF Registered THEN CacheMissTopk(miss, avail, OldSlice) ELSE avail

\* cache_miss_topk: of a batch of no rows there is nothing to launch and no
\* mask to change.
LaunchKernel ==
    /\ pc = "masked"
    /\ avail' = LaunchResult
    /\ pc' = "launched"
    /\ UNCHANGED <<last, buffer, args, topk, new, miss, toLoad>>

NoRows == [r \in Rows(numReqs) |-> [s \in Slot |-> Empty]]

\* Mutant: topk_indices_new is not filled with -1 before the scatter.
SelectAndScatterUnfilled ==
    /\ pc = "launched"
    /\ toLoad' = MaskedSelect(new, miss)
    /\ new' = MaskedScatter(new, avail, toLoad', Junk)
    /\ pc' = "scattered"
    /\ UNCHANGED <<last, buffer, args, topk, miss, avail>>

SelectAndScatter ==
    /\ pc = "launched"
    /\ toLoad' = MaskedSelect(new, miss)
    /\ new' = MaskedScatter(NoRows, avail, toLoad', Junk)
    /\ pc' = "scattered"
    /\ UNCHANGED <<last, buffer, args, topk, miss, avail>>

InBatch(slice) == [r \in Row |-> IF r \in Rows(numReqs) THEN slice[r] ELSE last[r]]

\* Mutant: the slice takes the place of the whole history.
RecordHistorySlice ==
    /\ pc = "scattered"
    /\ last' = MaskedScatter(OldSlice, avail, toLoad, Junk)
    /\ pc' = "recorded"
    /\ UNCHANGED <<buffer, args, topk, locals>>

\* Mutant: the history is scattered where the misses are, not where they go.
RecordHistoryAtMisses ==
    /\ pc = "scattered"
    /\ last' = InBatch(MaskedScatter(OldSlice, miss, toLoad, Junk))
    /\ pc' = "recorded"
    /\ UNCHANGED <<buffer, args, topk, locals>>

\* Mutant: the history becomes the load list, without the tokens that stay.
RecordHistoryOfLoads ==
    /\ pc = "scattered"
    /\ last' = InBatch(new)
    /\ pc' = "recorded"
    /\ UNCHANGED <<buffer, args, topk, locals>>

\* last_step_slice is a view: the rows of the batch change in place.
RecordHistory ==
    /\ pc = "scattered"
    /\ last' = InBatch(MaskedScatter(OldSlice, avail, toLoad, Junk))
    /\ pc' = "recorded"
    /\ UNCHANGED <<buffer, args, topk, locals>>

Return ==
    /\ pc = "recorded"
    /\ topk' = SubOffset(new, reqs)
    /\ new' = Dead /\ miss' = Dead /\ avail' = Dead /\ toLoad' = Dead
    /\ pc' = "returned"
    /\ UNCHANGED <<last, buffer, args>>

\* A step throws (an allocation or an aclnn call fails); what the earlier
\* steps did stays done.
Raise ==
    /\ pc \in RaiseAt
    /\ Throw
    /\ UNCHANGED <<last, buffer>>

\* The loader puts each returned token into its slot of topk_buffer.
Load ==
    /\ pc = "returned"
    /\ buffer' = [r \in Row |-> [s \in Slot |->
                    IF r \in Rows(numReqs) /\ topk[r][s] >= 0
                    THEN <<reqs[r], topk[r][s]>>
                    ELSE buffer[r][s]]]
    /\ pc' = "loaded"
    /\ UNCHANGED <<last, args, topk, locals>>

Step ==
    \/ ComputeMasks
    \/ LaunchKernel
    \/ SelectAndScatter
    \/ RecordHistory
    \/ Return
    \/ Load

Next ==
    \/ \E n \in 0 .. MaxReqs : \E q \in ReqIds(n), x \in [Rows(n) -> InputRow] : Call(n, q, x)
    \/ \E n, m \in 0 .. MaxReqs + 1, w \in {TopK, TopK + 1} : Reject(n, w, m)
    \/ Step
    \/ Raise

Spec == Init /\ [][Next]_vars

-----------------------------------------------------------------------------
(* Correctness.                                                            *)

\* Every variable has its type; a local has one while it is alive.
TypeOK ==
    /\ pc \in AtRest \cup Inside \cup {"returned"}
    /\ last \in [Row -> [Slot -> Int]]
    /\ buffer \in [Row -> [Slot -> (Req \X Int) \cup {NoToken}]]
    /\ numReqs \in 0 .. MaxReqs
    /\ reqs \in [Rows(numReqs) -> Req]
    /\ asked \in [Rows(numReqs) -> [Slot -> Tok \cup {Empty}]]
    /\ topk \in [Rows(numReqs) -> [Slot -> Int]]
    /\ pc \in Inside \ {"called"} =>
          /\ new \in [Rows(numReqs) -> [Slot -> Int]]
          /\ miss \in [Rows(numReqs) -> SUBSET Slot]
          /\ avail \in [Rows(numReqs) -> SUBSET Slot]
    /\ pc \in {"scattered", "recorded"} =>
          toLoad \in [1 .. Cardinality(Cells(miss)) -> Int]

\* The pages row r of the batch asked for.
Wanted(r) == {<<reqs[r], t>> : t \in Held(asked[r])}

\* After the loads, topk_buffer holds every token the caller asked for, in the
\* row of the request that asked: attention reads no token that is not there.
WantedTokensResident ==
    pc = "loaded" =>
        \A r \in Rows(numReqs) : Wanted(r) \subseteq {buffer[r][s] : s \in Slot}

\* Between calls last_step_topk_indices never claims a token that its slot of
\* topk_buffer does not hold, whichever calls failed before they wrote the
\* history: a later hit is a real hit.
HistoryMirrorsBuffer ==
    pc \in AtRest =>
        \A r \in Row, s \in Slot :
            last[r][s] # Empty =>
                /\ buffer[r][s] # NoToken
                /\ last[r][s] = buffer[r][s][2] + ReqIdsOffset(buffer[r][s][1])

\* After the kernel a row has as many slots to fill as tokens to load, so that
\* the scatter, which walks the flattened batch, never carries a token of one
\* row into another and never runs out of tokens.
SlotsSuffice ==
    pc = "launched" =>
        \A r \in Rows(numReqs) : Cardinality(avail[r]) = Cardinality(miss[r])

\* Row r keeps page p in slot s: it is recorded there and not loaded again.
Keeps(r, s, p) == topk[r][s] = Empty /\ last[r][s] # Empty /\ buffer[r][s] = p

\* The returned topk_indices and the slots they leave alone give each wanted
\* token exactly one slot: a hit is neither loaded again nor overwritten, a
\* miss is loaded once, and nothing else is loaded.
EachTokenHasOneSlot ==
    pc = "returned" =>
        \A r \in Rows(numReqs) :
            /\ Held(topk[r]) \subseteq Held(asked[r])
            /\ \A t \in Held(asked[r]) :
                  Cardinality({s \in Slot :
                      topk[r][s] = t \/ Keeps(r, s, <<reqs[r], t>>)}) = 1

-----------------------------------------------------------------------------
(* The call implements the abstract cache: the batch is served at the      *)
(* moment last_step_topk_indices is updated.                               *)

Page == Req \X Tok

\* The page a recorded id stands for.
Decode(id) ==
    IF id = Empty THEN NoToken ELSE <<id \div ReqStride, id % ReqStride>>

Unserved == {"called", "masked", "launched", "scattered"}

Cache == INSTANCE SlotCache WITH
    Free  <- NoToken,
    slots <- [r \in Row |-> [s \in Slot |-> Decode(last[r][s])]],
    want  <- [r \in (IF pc \in Unserved THEN Rows(numReqs) ELSE {}) |-> Wanted(r)]

\* Seen through Decode, the rows of last_step_topk_indices are a cache that
\* serves each batch exactly, in one step, without moving a hit or touching a
\* row outside the batch, or not at all.
ImplementsSlotCache == Cache!Spec
==============================================================================
