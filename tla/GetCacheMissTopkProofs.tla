------------------------ MODULE GetCacheMissTopkProofs ------------------------
(***************************************************************************)
(* Theorems about get_cache_miss_topk_indices, for every number of rows,   *)
(* row width and set of requests and tokens: type correctness for any      *)
(* caller; then, under the caller's padding discipline and with a kernel   *)
(* that runs, the safety properties and the refinement of SlotCache.       *)
(***************************************************************************)
EXTENDS GetCacheMissTopk, TopkMasksProofs

-----------------------------------------------------------------------------
(* Type correctness.                                                       *)

\* A shorter way to say that numReqs and Rows fit the lemmas of TopkMasksProofs.
LEMMA RowsFact ==
    ASSUME TypeOK
    PROVE  /\ numReqs \in Nat
           /\ Rows(numReqs) = 0 .. numReqs - 1
           /\ Rows(numReqs) \subseteq Row
BY MaxReqsAssumption DEF TypeOK, Rows, Row

LEMMA OffsetType == \A q \in Req : ReqIdsOffset(q) \in Nat
<1>1. SUFFICES ASSUME NEW q \in Req PROVE q * ReqStride \in Nat
    BY DEF ReqIdsOffset
<1>2. q \in Nat /\ ReqStride \in Nat
    BY ReqAssumption, ReqStrideAssumption
<1> QED
    BY <1>2, SMT

\* The masks have the shape of the batch, and the ids are integers.
LEMMA ComputeMasksType ==
    ASSUME TypeOK, ComputeMasks
    PROVE  /\ new' \in [Rows(numReqs) -> [Slot -> Int]]
           /\ miss' \in [Rows(numReqs) -> SUBSET Slot]
           /\ avail' \in [Rows(numReqs) -> SUBSET Slot]
<1>1. /\ topk \in [Rows(numReqs) -> [Slot -> Int]]
      /\ reqs \in [Rows(numReqs) -> Req]
      /\ OldSlice \in [Rows(numReqs) -> [Slot -> Int]]
    BY RowsFact DEF TypeOK, OldSlice
<1>2. \A r \in Rows(numReqs) : ReqIdsOffset(reqs[r]) \in Int
    BY <1>1, OffsetType
<1>3. new' \in [Rows(numReqs) -> [Slot -> Int]]
    BY <1>1, <1>2 DEF ComputeMasks, AddOffset, Empty
<1>4. \A a, b : DiffCols(a, b) \in SUBSET Slot
    BY DEF DiffCols
<1> QED
    BY <1>1, <1>3, <1>4 DEF ComputeMasks, GetSetDiffMask

\* The kernel only ever adds columns of the row.
LEMMA LaunchKernelType ==
    ASSUME TypeOK, LaunchKernel
    PROVE  avail' \in [Rows(numReqs) -> SUBSET Slot]
<1>1. /\ miss \in [Rows(numReqs) -> SUBSET Slot]
      /\ avail \in [Rows(numReqs) -> SUBSET Slot]
    BY DEF TypeOK, LaunchKernel, Inside
<1>2. \A r \in Rows(numReqs) :
         KernelRow(miss[r], avail[r], OldSlice[r]) \in SUBSET Slot
    BY <1>1 DEF KernelRow, SelectEmpty, EmptyCols
<1> QED
    BY <1>1, <1>2 DEF LaunchKernel, LaunchResult, CacheMissTopk

\* The load list has one id per miss, the scattered tensors keep their shape.
LEMMA ScatterType ==
    ASSUME TypeOK, SelectAndScatter
    PROVE  /\ toLoad' \in [1 .. Cardinality(Cells(miss)) -> Int]
           /\ new' \in [Rows(numReqs) -> [Slot -> Int]]
<1>1. /\ miss \in [Rows(numReqs) -> SUBSET Slot]
      /\ new \in [Rows(numReqs) -> [Slot -> Int]]
    BY DEF TypeOK, SelectAndScatter, Inside
<1>2. numReqs \in Nat /\ Rows(numReqs) = 0 .. numReqs - 1
    BY RowsFact
<1>3. IsMask(miss, numReqs) /\ IsTensor(new, numReqs, Int) /\ IsTensor(NoRows, numReqs, Int)
    BY <1>1, <1>2 DEF IsMask, IsTensor, NoRows, Empty
<1>4. toLoad' \in [1 .. Cardinality(Cells(miss)) -> Int]
    BY <1>2, <1>3, MaskedSelectIs DEF SelectAndScatter
<1>5. Cardinality(Cells(miss)) \in Nat
    BY <1>2, <1>3, CellsFinite
<1>6. IsTensor(MaskedScatter(NoRows, avail, toLoad', Junk), numReqs, Int)
    BY <1>2, <1>3, <1>4, <1>5, JunkAssumption, MaskedScatterType
<1> QED
    BY <1>2, <1>4, <1>6 DEF SelectAndScatter, IsTensor

LEMMA RecordHistoryType ==
    ASSUME TypeOK, RecordHistory
    PROVE  last' \in [Row -> [Slot -> Int]]
<1>1. /\ toLoad \in [1 .. Cardinality(Cells(miss)) -> Int]
      /\ miss \in [Rows(numReqs) -> SUBSET Slot]
      /\ last \in [Row -> [Slot -> Int]]
    BY DEF TypeOK, RecordHistory, Inside
<1>2. numReqs \in Nat /\ Rows(numReqs) = 0 .. numReqs - 1 /\ Rows(numReqs) \subseteq Row
    BY RowsFact
<1>3. IsMask(miss, numReqs) /\ IsTensor(OldSlice, numReqs, Int)
    BY <1>1, <1>2 DEF IsMask, IsTensor, OldSlice
<1>4. Cardinality(Cells(miss)) \in Nat
    BY <1>2, <1>3, CellsFinite
<1>5. IsTensor(MaskedScatter(OldSlice, avail, toLoad, Junk), numReqs, Int)
    BY <1>1, <1>2, <1>3, <1>4, JunkAssumption, MaskedScatterType
<1> QED
    BY <1>1, <1>2, <1>5 DEF RecordHistory, InBatch, IsTensor

LEMMA ReturnType ==
    ASSUME TypeOK, Return
    PROVE  topk' \in [Rows(numReqs) -> [Slot -> Int]]
<1>1. /\ new \in [Rows(numReqs) -> [Slot -> Int]]
      /\ reqs \in [Rows(numReqs) -> Req]
    BY DEF TypeOK, Return, Inside
<1>2. \A r \in Rows(numReqs) : ReqIdsOffset(reqs[r]) \in Int
    BY <1>1, OffsetType
<1> QED
    BY <1>1, <1>2 DEF Return, SubOffset, Empty

\* The loader fills slots of the batch with tokens of its requests.
LEMMA LoadType ==
    ASSUME TypeOK, Load
    PROVE  buffer' \in [Row -> [Slot -> (Req \X Int) \cup {NoToken}]]
BY DEF TypeOK, Load

\* Every step keeps the types.
LEMMA TypeOKStep ==
    ASSUME TypeOK, [Next]_vars
    PROVE  TypeOK'
<1> USE DEF AtRest, Inside
<1>1. ASSUME NEW n \in 0 .. MaxReqs, NEW q \in ReqIds(n),
             NEW x \in [Rows(n) -> InputRow], Call(n, q, x)
      PROVE  TypeOK'
  <2>1. q \in [Rows(n) -> Req] /\ x \in [Rows(n) -> [Slot -> Tok \cup {Empty}]]
      BY DEF ReqIds, InputRow
  <2>2. Tok \cup {Empty} \subseteq Int
      BY TokAssumption DEF Empty
  <2>3. ASSUME NEW r \in Rows(n) PROVE x[r] \in [Slot -> Int]
    <3>1. x[r] \in [Slot -> Tok \cup {Empty}]
        BY <2>1
    <3> QED
        BY <2>2, <3>1
  <2>4. x \in [Rows(n) -> [Slot -> Int]]
      BY <2>1, <2>3
  <2> QED
      BY <1>1, <2>1, <2>4 DEF Call, TypeOK, locals
<1>2. ASSUME NEW n \in 0 .. MaxReqs + 1, NEW w, NEW m, Reject(n, w, m)
      PROVE  TypeOK'
    BY <1>2, MaxReqsAssumption DEF Reject, Throw, TypeOK, Rows
<1>3. CASE ComputeMasks
    BY <1>3, ComputeMasksType DEF ComputeMasks, TypeOK, args
<1>4. CASE LaunchKernel
    BY <1>4, LaunchKernelType DEF LaunchKernel, TypeOK, args
<1>5. CASE SelectAndScatter
    BY <1>5, ScatterType DEF SelectAndScatter, TypeOK, args
<1>6. CASE RecordHistory
    BY <1>6, RecordHistoryType DEF RecordHistory, TypeOK, args, locals
<1>7. CASE Return
    BY <1>7, ReturnType DEF Return, TypeOK, args
<1>8. CASE Load
    BY <1>8, LoadType DEF Load, TypeOK, args, locals
<1>9. CASE Raise
    BY <1>9, MaxReqsAssumption DEF Raise, Throw, TypeOK, Rows
<1>10. CASE UNCHANGED vars
    BY <1>10 DEF vars, args, locals, TypeOK
<1> QED
    BY <1>1, <1>2, <1>3, <1>4, <1>5, <1>6, <1>7, <1>8, <1>9, <1>10 DEF Next, Step

\* Type correctness, for every value of the constants, with or without the
\* caller's padding discipline and with or without a registered kernel: no call
\* changes the shape of last_step_topk_indices or of the buffer.
THEOREM TypeCorrect == Spec => []TypeOK
<1>1. Init => TypeOK
    BY MaxReqsAssumption DEF Init, TypeOK, AtRest, Inside, Row, Rows, Slot, Empty, Dead
<1> QED
    BY <1>1, TypeOKStep, PTL DEF Spec

-----------------------------------------------------------------------------
(* What the safety properties need.                                        *)

\* What the properties need of the surroundings: rows that lose no padding
\* they still need, and a launch that happens.
Supported == PadDiscipline = TRUE /\ Registered = TRUE

-----------------------------------------------------------------------------
(* The invariant.                                                          *)

\* The ids of the tokens the caller asked for.
AskedIds == AddOffset(asked, reqs)

HistoryDistinct == \A r \in Row : Distinct(last[r])

AskedDistinct == \A r \in Rows(numReqs) : Distinct(asked[r])

PaddingKept == pc \in Unserved => \A r \in Rows(numReqs) : PadOK(asked[r], last[r])

\* The locals are the ones of this batch and of the history it started from.
MasksExact ==
    /\ pc = "called" => topk = asked
    /\ pc \in {"masked", "launched"} => new = AskedIds
    /\ pc \in {"masked", "launched", "scattered"} => miss = GetSetDiffMask(AskedIds, OldSlice)
    /\ pc = "masked" => avail = GetSetDiffMask(OldSlice, AskedIds)
    /\ pc \in {"launched", "scattered"} =>
          avail = CacheMissTopk(miss, GetSetDiffMask(OldSlice, AskedIds), OldSlice)
    /\ pc = "scattered" =>
          /\ toLoad = MaskedSelect(AskedIds, miss)
          /\ new = MaskedScatter(NoRows, avail, toLoad, Junk)

Exact == TypeOK /\ HistoryDistinct /\ AskedDistinct /\ PaddingKept /\ MasksExact

-----------------------------------------------------------------------------
(* One row of the batch.                                                   *)

\* The ids of a row are empty where the row is, and otherwise a token of the
\* request of the row; they are distinct if the tokens are.
LEMMA AskedRow ==
    ASSUME TypeOK, NEW r \in Rows(numReqs)
    PROVE  /\ AskedIds[r] \in [Slot -> Int]
           /\ \A i \in Slot :
                IF asked[r][i] = Empty
                THEN AskedIds[r][i] = Empty
                ELSE /\ asked[r][i] \in Tok
                     /\ AskedIds[r][i] = asked[r][i] + ReqIdsOffset(reqs[r])
                     /\ AskedIds[r][i] # Empty
           /\ EmptyCols(AskedIds[r]) = EmptyCols(asked[r])
           /\ Distinct(asked[r]) => Distinct(AskedIds[r])
<1> DEFINE off == ReqIdsOffset(reqs[r])
<1>1. off \in Nat
    BY OffsetType DEF TypeOK
<1>2. /\ DOMAIN asked = Rows(numReqs)
      /\ \A i \in Slot : asked[r][i] \in Tok \cup {Empty}
    BY DEF TypeOK
<1>3. \A t \in Tok : t \in Nat /\ t # Empty
    BY TokAssumption DEF Empty
<1>4. AskedIds[r] = [i \in Slot |-> IF asked[r][i] >= 0 THEN asked[r][i] + off ELSE Empty]
    BY <1>2 DEF AskedIds, AddOffset
<1> HIDE DEF off
<1>5. ASSUME NEW i \in Slot
      PROVE  IF asked[r][i] = Empty
             THEN AskedIds[r][i] = Empty
             ELSE /\ asked[r][i] \in Tok
                  /\ AskedIds[r][i] = asked[r][i] + off
                  /\ AskedIds[r][i] # Empty
                  /\ AskedIds[r][i] \in Int
  <2>1. CASE asked[r][i] = Empty
      BY <1>4, <2>1 DEF Empty
  <2>2. CASE asked[r][i] # Empty
    <3>1. asked[r][i] \in Tok /\ asked[r][i] \in Nat
        BY <1>2, <1>3, <2>2
    <3>2. AskedIds[r][i] = asked[r][i] + off
        BY <1>4, <3>1
    <3> QED
        BY <1>1, <2>2, <3>1, <3>2 DEF Empty
  <2> QED
      BY <2>1, <2>2
<1>6. AskedIds[r] \in [Slot -> Int]
    BY <1>4, <1>5 DEF Empty
<1>7. EmptyCols(AskedIds[r]) = EmptyCols(asked[r])
    BY <1>5 DEF EmptyCols
<1>8. ASSUME Distinct(asked[r]), NEW i \in Slot, NEW j \in Slot,
             AskedIds[r][i] = AskedIds[r][j], AskedIds[r][i] # Empty
      PROVE  i = j
  <2>1. /\ asked[r][i] \in Nat /\ asked[r][j] \in Nat /\ asked[r][i] # Empty
        /\ AskedIds[r][i] = asked[r][i] + off /\ AskedIds[r][j] = asked[r][j] + off
      BY <1>3, <1>5, <1>8
  <2>2. \A a, b \in Nat : a + off = b + off => a = b
      BY <1>1
  <2>3. asked[r][i] = asked[r][j]
      BY <1>8, <2>1, <2>2
  <2> QED
      BY <1>8, <2>1, <2>3 DEF Distinct
<1> QED
    BY <1>5, <1>6, <1>7, <1>8 DEF Distinct, off

\* The masks of a launched batch, row by row: the kernel's row, and it has as
\* many slots as the row has misses.
LEMMA BatchBalances ==
    ASSUME Exact, pc \in {"launched", "scattered"}
    PROVE  /\ IsMask(avail, numReqs) /\ IsMask(miss, numReqs)
           /\ IsTensor(AskedIds, numReqs, Int)
           /\ \A r \in Rows(numReqs) :
                /\ miss[r] = DiffCols(AskedIds[r], last[r])
                /\ avail[r] = KernelRow(miss[r], DiffCols(last[r], AskedIds[r]), last[r])
                /\ Distinct(AskedIds[r])
                /\ Cardinality(avail[r]) = Cardinality(miss[r])
<1>1. /\ numReqs \in Nat /\ Rows(numReqs) = 0 .. numReqs - 1 /\ Rows(numReqs) \subseteq Row
    BY RowsFact DEF Exact
<1>2. /\ miss = GetSetDiffMask(AskedIds, OldSlice)
      /\ avail = CacheMissTopk(miss, GetSetDiffMask(OldSlice, AskedIds), OldSlice)
    BY DEF Exact, MasksExact
<1>3. DOMAIN AskedIds = Rows(numReqs) /\ DOMAIN OldSlice = Rows(numReqs)
    BY DEF Exact, TypeOK, AskedIds, AddOffset, OldSlice
<1>4. /\ miss \in [Rows(numReqs) -> SUBSET Slot]
      /\ avail \in [Rows(numReqs) -> SUBSET Slot]
    BY DEF Exact, TypeOK, Inside
<1>5. ASSUME NEW r \in Rows(numReqs)
      PROVE  /\ miss[r] = DiffCols(AskedIds[r], last[r])
             /\ avail[r] = KernelRow(miss[r], DiffCols(last[r], AskedIds[r]), last[r])
             /\ Distinct(AskedIds[r])
             /\ Cardinality(avail[r]) = Cardinality(miss[r])
  <2>1. OldSlice[r] = last[r]
      BY DEF OldSlice
  <2>2. miss[r] = DiffCols(AskedIds[r], last[r])
      BY <1>2, <1>3, <2>1 DEF GetSetDiffMask
  <2>3. GetSetDiffMask(OldSlice, AskedIds)[r] = DiffCols(last[r], AskedIds[r])
      BY <1>3, <2>1 DEF GetSetDiffMask
  <2>4. avail[r] = KernelRow(miss[r], DiffCols(last[r], AskedIds[r]), last[r])
      BY <1>2, <1>4, <2>1, <2>3 DEF CacheMissTopk
  <2>5. PadOK(asked[r], last[r]) /\ Distinct(asked[r]) /\ Distinct(last[r])
      BY <1>1 DEF Exact, PaddingKept, AskedDistinct, HistoryDistinct, Unserved
  <2>6. Distinct(AskedIds[r]) /\ EmptyCols(AskedIds[r]) = EmptyCols(asked[r])
      BY <2>5, AskedRow DEF Exact
  <2>7. PadOK(AskedIds[r], last[r])
      BY <2>5, <2>6 DEF PadOK
  <2> QED
      BY <2>2, <2>4, <2>5, <2>6, <2>7, KernelRowBalances
<1>6. \A r \in Rows(numReqs) : AskedIds[r] \in [Slot -> Int]
    BY AskedRow DEF Exact
<1>7. AskedIds \in [Rows(numReqs) -> [Slot -> Int]]
    BY <1>3, <1>6 DEF AskedIds, AddOffset
<1> QED
    BY <1>1, <1>4, <1>5, <1>7 DEF IsMask, IsTensor

\* The history the call is about to record.
NextHistory == MaskedScatter(OldSlice, avail, toLoad, Junk)

\* What the two scatters do to a row of the batch: the slots to fill take the
\* ids of that row's misses, and the row then holds exactly the asked ids.
LEMMA BatchServed ==
    ASSUME Exact, pc = "scattered", NEW r \in Rows(numReqs)
    PROVE  /\ \A i \in Slot :
                /\ i \notin avail[r] => NextHistory[r][i] = last[r][i] /\ new[r][i] = Empty
                /\ i \in avail[r] =>
                      /\ NextHistory[r][i] = new[r][i]
                      /\ \E j \in Slot : new[r][i] = AskedIds[r][j]
                /\ last[r][i] \in Held(AskedIds[r]) => i \notin avail[r]
           /\ Held(NextHistory[r]) = Held(AskedIds[r])
           /\ Distinct(NextHistory[r])
<1> DEFINE f   == Partner(avail[r], miss[r])
           row == Filled(last[r], AskedIds[r], avail[r], f)
<1>1. /\ numReqs \in Nat /\ Rows(numReqs) = 0 .. numReqs - 1 /\ r \in Row
    BY RowsFact DEF Exact
<1>2. /\ IsMask(avail, numReqs) /\ IsMask(miss, numReqs)
      /\ IsTensor(AskedIds, numReqs, Int)
      /\ \A q \in 0 .. numReqs - 1 : Cardinality(avail[q]) = Cardinality(miss[q])
    BY <1>1, BatchBalances
<1>3. /\ miss[r] = DiffCols(AskedIds[r], last[r])
      /\ avail[r] = KernelRow(miss[r], DiffCols(last[r], AskedIds[r]), last[r])
      /\ Distinct(AskedIds[r])
    BY BatchBalances
<1>4. /\ toLoad = MaskedSelect(AskedIds, miss)
      /\ new = MaskedScatter(NoRows, avail, toLoad, Junk)
    BY DEF Exact, MasksExact
<1>5. IsTensor(OldSlice, numReqs, Int) /\ OldSlice[r] = last[r]
    BY <1>1, RowsFact DEF Exact, TypeOK, IsTensor, OldSlice
<1>6. IsTensor(NoRows, numReqs, Int) /\ \A i \in Slot : NoRows[r][i] = Empty
    BY <1>1 DEF IsTensor, NoRows, Empty
<1>7. ASSUME NEW i \in Slot
      PROVE  /\ NextHistory[r][i] = IF i \in avail[r] THEN AskedIds[r][f[i]] ELSE last[r][i]
             /\ new[r][i] = IF i \in avail[r] THEN AskedIds[r][f[i]] ELSE Empty
  <2>1. NextHistory[r][i] = IF i \in avail[r] THEN AskedIds[r][f[i]] ELSE OldSlice[r][i]
      BY <1>1, <1>2, <1>4, <1>5, ScatterIsRowLocal DEF NextHistory
  <2>2. new[r][i] = IF i \in avail[r] THEN AskedIds[r][f[i]] ELSE NoRows[r][i]
      BY <1>1, <1>2, <1>4, <1>6, ScatterIsRowLocal
  <2> QED
      BY <1>5, <1>6, <2>1, <2>2
<1>8. avail[r] \in SUBSET Slot /\ miss[r] \in SUBSET Slot
    BY <1>1, <1>2 DEF IsMask
<1>9. Assigns(f, avail[r], miss[r])
    BY <1>1, <1>2, <1>8, PartnerAssigns
<1> HIDE DEF f
<1>10. NextHistory[r] = row
  <2>1. NextHistory[r] = [i \in Slot |-> NextHistory[r][i]]
      BY <1>1, <1>5 DEF NextHistory, MaskedScatter, IsTensor
  <2> QED
      BY <1>7, <2>1 DEF Filled
<1>11. Distinct(last[r])
    BY <1>1 DEF Exact, HistoryDistinct
<1>12. /\ Held(row) = Held(AskedIds[r]) /\ Distinct(row)
       /\ \A i \in Slot : last[r][i] \in Held(AskedIds[r]) => i \notin avail[r]
    BY <1>3, <1>9, <1>11, RowServed
<1>13. \A i \in avail[r] : f[i] \in Slot
    BY <1>8, <1>9 DEF Assigns
<1> QED
    BY <1>7, <1>10, <1>12, <1>13

-----------------------------------------------------------------------------
(* Every step keeps the invariant.                                         *)

LEMMA ExactInit == Init => Exact
<1>1. Init => TypeOK
    BY MaxReqsAssumption DEF Init, TypeOK, AtRest, Inside, Row, Rows, Slot, Empty, Dead
<1>2. Init => HistoryDistinct
    BY DEF Init, HistoryDistinct, Distinct
<1>3. Init => AskedDistinct /\ PaddingKept /\ MasksExact
    BY DEF Init, AskedDistinct, PaddingKept, MasksExact, Rows, Unserved
<1> QED
    BY <1>1, <1>2, <1>3 DEF Exact

LEMMA ExactStep ==
    ASSUME Supported, Exact, [Next]_vars
    PROVE  Exact'
<1> USE DEF Exact
<1>0. TypeOK'
    BY TypeOKStep
<1>1. ASSUME NEW n \in 0 .. MaxReqs, NEW q \in ReqIds(n),
             NEW x \in [Rows(n) -> InputRow], Call(n, q, x)
      PROVE  Exact'
  <2>1. HistoryDistinct'
      BY <1>1 DEF Call, HistoryDistinct
  <2>2. AskedDistinct'
      BY <1>1 DEF Call, AskedDistinct, InputRow
  <2>3. PaddingKept'
      BY <1>1 DEF Call, PaddingKept, Supported
  <2>4. MasksExact'
      BY <1>1 DEF Call, MasksExact
  <2> QED
      BY <1>0, <2>1, <2>2, <2>3, <2>4
<1>2. ASSUME Throw, UNCHANGED <<last, buffer>>
      PROVE  Exact'
    BY <1>0, <1>2 DEF Throw, HistoryDistinct, AskedDistinct, PaddingKept, MasksExact, Rows, Unserved
<1>3. CASE ComputeMasks
  <2>1. MasksExact'
      BY <1>3 DEF ComputeMasks, MasksExact, AskedIds, OldSlice, args
  <2>2. (HistoryDistinct /\ AskedDistinct /\ PaddingKept)'
      BY <1>3 DEF ComputeMasks, HistoryDistinct, AskedDistinct, PaddingKept, Unserved, args
  <2> QED
      BY <1>0, <2>1, <2>2
<1>4. CASE LaunchKernel
  <2>1. MasksExact'
      BY <1>4 DEF LaunchKernel, LaunchResult, Supported, MasksExact, AskedIds, OldSlice, args
  <2>2. (HistoryDistinct /\ AskedDistinct /\ PaddingKept)'
      BY <1>4 DEF LaunchKernel, HistoryDistinct, AskedDistinct, PaddingKept, Unserved, args
  <2> QED
      BY <1>0, <2>1, <2>2
<1>5. CASE SelectAndScatter
  <2>1. MasksExact'
      BY <1>5 DEF SelectAndScatter, MasksExact, AskedIds, OldSlice, NoRows, args
  <2>2. (HistoryDistinct /\ AskedDistinct /\ PaddingKept)'
      BY <1>5 DEF SelectAndScatter, HistoryDistinct, AskedDistinct, PaddingKept, Unserved, args
  <2> QED
      BY <1>0, <2>1, <2>2
<1>6. CASE RecordHistory
  <2>1. HistoryDistinct'
    <3>1. SUFFICES ASSUME NEW r \in Row PROVE Distinct(last'[r])
        BY DEF HistoryDistinct
    <3>2. last'[r] = IF r \in Rows(numReqs) THEN NextHistory[r] ELSE last[r]
        BY <1>6 DEF RecordHistory, InBatch, NextHistory
    <3>3. r \in Rows(numReqs) => Distinct(NextHistory[r])
        BY <1>6, BatchServed DEF RecordHistory
    <3> QED
        BY <3>2, <3>3 DEF HistoryDistinct
  <2>2. (AskedDistinct /\ PaddingKept /\ MasksExact)'
      BY <1>6 DEF RecordHistory, AskedDistinct, PaddingKept, MasksExact, Unserved, args
  <2> QED
      BY <1>0, <2>1, <2>2
<1>7. CASE Return
    BY <1>0, <1>7
       DEF Return, HistoryDistinct, AskedDistinct, PaddingKept, MasksExact, Unserved, args
<1>8. CASE Load
    BY <1>0, <1>8
       DEF Load, HistoryDistinct, AskedDistinct, PaddingKept, MasksExact, Unserved, args
<1>9. CASE UNCHANGED vars
    BY <1>0, <1>9 DEF vars, args, locals, HistoryDistinct, AskedDistinct, PaddingKept,
                       MasksExact, AskedIds, OldSlice, NoRows
<1> QED
    BY <1>1, <1>2, <1>3, <1>4, <1>5, <1>6, <1>7, <1>8, <1>9 DEF Next, Step, Reject, Raise

\* After the kernel every row has as many slots to fill as tokens to load,
\* after any sequence of calls, failed ones included.
THEOREM SlotsAlwaysSuffice ==
    ASSUME Supported
    PROVE  Spec => []SlotsSuffice
<1>1. Exact => SlotsSuffice
    BY BatchBalances DEF SlotsSuffice
<1>2. Exact /\ [Next]_vars => Exact'
    BY ExactStep
<1> QED
    BY <1>1, <1>2, ExactInit, PTL DEF Spec

-----------------------------------------------------------------------------
(* The history mirrors the buffer.                                         *)

\* No call fails between the update of the history and the load.
FailsEarly == RaiseAt \cap {"recorded", "returned"} = {}

\* Slot s of row r is recorded to hold what it does hold, if anything.
Mirror(r, s) ==
    last[r][s] # Empty =>
        /\ buffer[r][s] \in Req \X Tok
        /\ last[r][s] = buffer[r][s][2] + ReqIdsOffset(buffer[r][s][1])

\* The slots the history is ahead of are the ones the load list names.
MirrorKept ==
    /\ pc \in AtRest \cup Unserved => \A r \in Row, s \in Slot : Mirror(r, s)
    /\ pc = "recorded" =>
          \A r \in Row, s \in Slot :
              IF r \in Rows(numReqs) /\ new[r][s] # Empty
              THEN /\ last[r][s] = new[r][s]
                   /\ \E t \in Tok : new[r][s] = t + ReqIdsOffset(reqs[r])
              ELSE Mirror(r, s)
    /\ pc = "returned" =>
          \A r \in Row, s \in Slot :
              IF r \in Rows(numReqs) /\ topk[r][s] # Empty
              THEN /\ topk[r][s] \in Tok
                   /\ last[r][s] = topk[r][s] + ReqIdsOffset(reqs[r])
              ELSE Mirror(r, s)

\* From the moment it is recorded, the batch holds exactly what it asked for.
ServedKept ==
    pc \in {"recorded", "returned", "loaded"} =>
        \A r \in Rows(numReqs) : Held(last[r]) = Held(AskedIds[r])

Mirrored == Exact /\ MirrorKept /\ ServedKept

\* RecordHistory puts the history ahead of the buffer by the load list.
LEMMA RecordHistoryMirrored ==
    ASSUME Mirrored, RecordHistory
    PROVE  MirrorKept' /\ ServedKept'
<1>1. /\ pc = "scattered" /\ pc' = "recorded" /\ buffer' = buffer /\ new' = new
      /\ numReqs' = numReqs /\ reqs' = reqs /\ asked' = asked
      /\ \A r \in Row : last'[r] = IF r \in Rows(numReqs) THEN NextHistory[r] ELSE last[r]
    BY DEF RecordHistory, InBatch, NextHistory, args, locals
<1>2. \A r \in Row, s \in Slot : Mirror(r, s)
    BY <1>1 DEF Mirrored, MirrorKept, Unserved
<1>3. Exact /\ Rows(numReqs) \subseteq Row
    BY RowsFact DEF Mirrored, Exact
<1>4. ASSUME NEW r \in Row, NEW s \in Slot
      PROVE  IF r \in Rows(numReqs) /\ new[r][s] # Empty
             THEN /\ last'[r][s] = new[r][s]
                  /\ \E t \in Tok : new[r][s] = t + ReqIdsOffset(reqs[r])
             ELSE Mirror(r, s)'
  <2>1. CASE r \in Rows(numReqs) /\ new[r][s] # Empty
    <3>1. /\ NextHistory[r][s] = new[r][s]
          /\ \E j \in Slot : new[r][s] = AskedIds[r][j]
        BY <1>1, <1>3, <2>1, BatchServed
    <3>2. PICK j \in Slot : new[r][s] = AskedIds[r][j]
        BY <3>1
    <3>3. asked[r][j] \in Tok /\ AskedIds[r][j] = asked[r][j] + ReqIdsOffset(reqs[r])
        BY <1>3, <2>1, <3>2, AskedRow DEF Exact
    <3> QED
        BY <1>1, <2>1, <3>1, <3>2, <3>3
  <2>2. CASE r \in Rows(numReqs) /\ new[r][s] = Empty
    <3>1. last'[r][s] = last[r][s] \/ last'[r][s] = Empty
        BY <1>1, <1>3, <2>2, BatchServed
    <3> QED
        BY <1>1, <1>2, <2>2, <3>1 DEF Mirror
  <2>3. CASE r \notin Rows(numReqs)
      BY <1>1, <1>2, <2>3 DEF Mirror
  <2> QED
      BY <2>1, <2>2, <2>3
<1>5. ASSUME NEW r \in Rows(numReqs)
      PROVE  Held(last'[r]) = Held(AskedIds[r])
    BY <1>1, <1>3, BatchServed
<1>6. MirrorKept'
    BY <1>1, <1>4 DEF MirrorKept, AtRest, Unserved
<1>7. AskedIds' = AskedIds
    BY <1>1 DEF AskedIds
<1>8. ServedKept'
    BY <1>1, <1>5, <1>7 DEF ServedKept
<1> QED
    BY <1>6, <1>8

\* Return takes the offset off the load list and nothing else changes.
LEMMA ReturnMirrored ==
    ASSUME Mirrored, Return
    PROVE  MirrorKept' /\ ServedKept'
<1>1. /\ pc = "recorded" /\ pc' = "returned" /\ buffer' = buffer /\ last' = last
      /\ numReqs' = numReqs /\ reqs' = reqs /\ asked' = asked
      /\ topk' = SubOffset(new, reqs)
    BY DEF Return, args
<1>2. /\ new \in [Rows(numReqs) -> [Slot -> Int]]
      /\ reqs \in [Rows(numReqs) -> Req]
    BY <1>1 DEF Mirrored, Exact, TypeOK, Inside
<1>3. ASSUME NEW r \in Row, NEW s \in Slot
      PROVE  IF r \in Rows(numReqs) /\ topk'[r][s] # Empty
             THEN /\ topk'[r][s] \in Tok
                  /\ last[r][s] = topk'[r][s] + ReqIdsOffset(reqs[r])
             ELSE Mirror(r, s)
  <2>1. IF r \in Rows(numReqs) /\ new[r][s] # Empty
        THEN /\ last[r][s] = new[r][s]
             /\ \E t \in Tok : new[r][s] = t + ReqIdsOffset(reqs[r])
        ELSE Mirror(r, s)
      BY <1>1 DEF Mirrored, MirrorKept
  <2>2. CASE r \in Rows(numReqs) /\ new[r][s] # Empty
    <3> DEFINE off == ReqIdsOffset(reqs[r])
    <3>1. PICK t \in Tok : new[r][s] = t + off
        BY <2>1, <2>2
    <3>2. t \in Nat /\ off \in Nat
        BY <1>2, <2>2, TokAssumption, OffsetType
    <3>3. topk'[r][s] = IF new[r][s] >= 0 THEN new[r][s] - off ELSE Empty
        BY <1>1, <1>2, <2>2 DEF SubOffset
    <3> HIDE DEF off
    <3>4. topk'[r][s] = t
        BY <3>1, <3>2, <3>3
    <3> QED
        BY <2>1, <2>2, <3>1, <3>2, <3>4 DEF Empty, off
  <2>3. CASE r \in Rows(numReqs) /\ new[r][s] = Empty
    <3>1. topk'[r][s] = Empty
        BY <1>1, <1>2, <2>3 DEF SubOffset, Empty
    <3> QED
        BY <2>1, <2>3, <3>1
  <2>4. CASE r \notin Rows(numReqs)
      BY <2>1, <2>4
  <2> QED
      BY <2>2, <2>3, <2>4
<1>4. MirrorKept'
    BY <1>1, <1>3 DEF MirrorKept, AtRest, Unserved, Mirror
<1>5. ServedKept'
    BY <1>1 DEF Mirrored, ServedKept, AskedIds
<1> QED
    BY <1>4, <1>5

\* The load makes the buffer catch up with the history.
LEMMA LoadMirrored ==
    ASSUME Mirrored, Load
    PROVE  MirrorKept' /\ ServedKept'
<1>1. /\ pc = "returned" /\ pc' = "loaded" /\ last' = last
      /\ numReqs' = numReqs /\ reqs' = reqs /\ asked' = asked
    BY DEF Load, args
<1>2. reqs \in [Rows(numReqs) -> Req] /\ topk \in [Rows(numReqs) -> [Slot -> Int]]
    BY DEF Mirrored, Exact, TypeOK
<1>3. ASSUME NEW r \in Row, NEW s \in Slot
      PROVE  Mirror(r, s)'
  <2>1. IF r \in Rows(numReqs) /\ topk[r][s] # Empty
        THEN /\ topk[r][s] \in Tok
             /\ last[r][s] = topk[r][s] + ReqIdsOffset(reqs[r])
        ELSE Mirror(r, s)
      BY <1>1 DEF Mirrored, MirrorKept
  <2>2. buffer'[r][s] = IF r \in Rows(numReqs) /\ topk[r][s] >= 0
                        THEN <<reqs[r], topk[r][s]>> ELSE buffer[r][s]
      BY DEF Load
  <2>3. CASE r \in Rows(numReqs) /\ topk[r][s] # Empty
    <3>1. topk[r][s] \in Tok /\ topk[r][s] >= 0 /\ reqs[r] \in Req
        BY <1>2, <2>1, <2>3, TokAssumption
    <3>2. buffer'[r][s] = <<reqs[r], topk[r][s]>>
        BY <2>2, <2>3, <3>1
    <3> QED
        BY <1>1, <2>1, <2>3, <3>1, <3>2 DEF Mirror
  <2>4. CASE ~(r \in Rows(numReqs) /\ topk[r][s] # Empty)
    <3>1. buffer'[r][s] = buffer[r][s]
        BY <2>2, <2>4 DEF Empty
    <3> QED
        BY <1>1, <2>1, <2>4, <3>1 DEF Mirror
  <2> QED
      BY <2>3, <2>4
<1>4. MirrorKept'
    BY <1>1, <1>3 DEF MirrorKept
<1>5. ServedKept'
    BY <1>1 DEF Mirrored, ServedKept, AskedIds
<1> QED
    BY <1>4, <1>5

\* A call that throws before the history is written leaves the mirror intact.
LEMMA ThrowMirrored ==
    ASSUME Mirrored, pc \in AtRest \cup Unserved, Throw, UNCHANGED <<last, buffer>>
    PROVE  MirrorKept' /\ ServedKept'
<1>1. \A r \in Row, s \in Slot : Mirror(r, s)'
    BY DEF Mirrored, MirrorKept, Mirror
<1> QED
    BY <1>1 DEF Throw, MirrorKept, ServedKept

LEMMA MirroredInit == Init => Mirrored
<1>1. Init => MirrorKept /\ ServedKept
    BY DEF Init, MirrorKept, Mirror, ServedKept
<1> QED
    BY <1>1, ExactInit DEF Mirrored

LEMMA MirroredStep ==
    ASSUME Supported, FailsEarly, Mirrored, [Next]_vars
    PROVE  Mirrored'
<1>0. Exact'
    BY ExactStep DEF Mirrored
<1>1. SUFFICES MirrorKept' /\ ServedKept'
    BY <1>0 DEF Mirrored
<1>2. pc \in AtRest \cup Unserved => \A r \in Row, s \in Slot : Mirror(r, s)
    BY DEF Mirrored, MirrorKept
<1>3. ASSUME NEW n \in 0 .. MaxReqs, NEW q \in ReqIds(n),
             NEW x \in [Rows(n) -> InputRow], Call(n, q, x)
      PROVE  MirrorKept' /\ ServedKept'
    BY <1>2, <1>3 DEF Call, MirrorKept, ServedKept, Mirror
<1>4. ASSUME NEW n, NEW w, NEW m, Reject(n, w, m)
      PROVE  MirrorKept' /\ ServedKept'
    BY <1>4, ThrowMirrored DEF Reject
<1>5. CASE Raise
  <2>1. pc \in AtRest \cup Unserved
      BY <1>5 DEF Raise, FailsEarly, Mirrored, Exact, TypeOK, AtRest, Inside, Unserved
  <2> QED
      BY <1>5, <2>1, ThrowMirrored DEF Raise
<1>6. CASE ComputeMasks \/ LaunchKernel \/ SelectAndScatter
  <2>1. /\ pc \in Unserved /\ pc' \in {"masked", "launched", "scattered"}
        /\ last' = last /\ buffer' = buffer
      BY <1>6 DEF ComputeMasks, LaunchKernel, SelectAndScatter, Unserved
  <2> QED
      BY <1>2, <2>1 DEF MirrorKept, ServedKept, Mirror
<1>7. CASE UNCHANGED vars
  <2>1. AskedIds' = AskedIds
      BY <1>7 DEF vars, args, AskedIds
  <2> QED
      BY <1>7, <2>1 DEF vars, args, locals, Mirrored, MirrorKept, ServedKept, Mirror
<1> QED
    BY <1>3, <1>4, <1>5, <1>6, <1>7, RecordHistoryMirrored, ReturnMirrored,
       LoadMirrored DEF Next, Step

\* Between calls the history never claims a token its slot does not hold.
THEOREM HistoryAlwaysMirrors ==
    ASSUME Supported, FailsEarly
    PROVE  Spec => []HistoryMirrorsBuffer
<1>1. Mirrored => HistoryMirrorsBuffer
  <2>1. \A p \in Req \X Tok : p # NoToken
      BY DEF NoToken
  <2> QED
      BY <2>1 DEF Mirrored, MirrorKept, Mirror, HistoryMirrorsBuffer
<1>2. Mirrored /\ [Next]_vars => Mirrored'
    BY MirroredStep
<1> QED
    BY <1>1, <1>2, MirroredInit, PTL DEF Spec

-----------------------------------------------------------------------------
(* The wanted tokens are there.                                            *)

\* Token positions stay below the distance of the id ranges.
InRange == Tok \subseteq 0 .. ReqStride - 1

\* An id tells its request and its token.
LEMMA IdsAreUnique ==
    ASSUME InRange, NEW p \in Req, NEW q \in Req, NEW t \in Tok, NEW u \in Tok,
           t + ReqIdsOffset(p) = u + ReqIdsOffset(q)
    PROVE  p = q /\ t = u
<1>1. /\ p \in Nat /\ q \in Nat /\ ReqStride \in Nat
      /\ t \in 0 .. ReqStride - 1 /\ u \in 0 .. ReqStride - 1
    BY ReqAssumption, ReqStrideAssumption DEF InRange
<1>2. t + p * ReqStride = u + q * ReqStride
    BY DEF ReqIdsOffset
<1>3. ASSUME NEW a \in Nat, NEW b \in Nat, a < b
      PROVE  (a + 1) * ReqStride <= b * ReqStride
    BY <1>1, <1>3
<1>4. \A a \in Nat : (a + 1) * ReqStride = a * ReqStride + ReqStride
    BY <1>1
<1>5. p * ReqStride \in Nat /\ q * ReqStride \in Nat
    BY <1>1
<1>6. ~ p < q
  <2>1. SUFFICES ASSUME p < q PROVE FALSE
      OBVIOUS
  <2>2. p * ReqStride + ReqStride <= q * ReqStride
      BY <1>1, <1>3, <1>4, <2>1
  <2> QED
      BY <1>1, <1>2, <1>5, <2>2
<1>7. ~ q < p
  <2>1. SUFFICES ASSUME q < p PROVE FALSE
      OBVIOUS
  <2>2. q * ReqStride + ReqStride <= p * ReqStride
      BY <1>1, <1>3, <1>4, <2>1
  <2> QED
      BY <1>1, <1>2, <1>5, <2>2
<1>8. p = q
    BY <1>1, <1>6, <1>7
<1> QED
    BY <1>1, <1>2, <1>5, <1>8

\* After the loads every wanted token is in the row of its request.
THEOREM WantedTokensAlwaysResident ==
    ASSUME Supported, FailsEarly, InRange
    PROVE  Spec => []WantedTokensResident
<1>1. ASSUME Mirrored PROVE WantedTokensResident
  <2>1. SUFFICES ASSUME pc = "loaded", NEW r \in Rows(numReqs),
                        NEW t \in Held(asked[r])
                 PROVE  \E s \in Slot : buffer[r][s] = <<reqs[r], t>>
      BY DEF WantedTokensResident, Wanted
  <2>2. r \in Row /\ reqs[r] \in Req /\ TypeOK
      BY <1>1, RowsFact DEF Mirrored, Exact, TypeOK
  <2>3. PICK j \in Slot : asked[r][j] = t /\ t # Empty
      BY DEF Held
  <2>4. t \in Tok /\ AskedIds[r][j] = t + ReqIdsOffset(reqs[r]) /\ AskedIds[r][j] # Empty
      BY <2>2, <2>3, AskedRow
  <2>5. Held(last[r]) = Held(AskedIds[r])
      BY <1>1, <2>1 DEF Mirrored, ServedKept
  <2>6. PICK s \in Slot : last[r][s] = AskedIds[r][j]
      BY <2>4, <2>5 DEF Held
  <2>7. Mirror(r, s)
      BY <1>1, <2>1, <2>2 DEF Mirrored, MirrorKept, AtRest
  <2>8. /\ buffer[r][s] \in Req \X Tok
        /\ t + ReqIdsOffset(reqs[r]) = buffer[r][s][2] + ReqIdsOffset(buffer[r][s][1])
      BY <2>4, <2>6, <2>7 DEF Mirror
  <2>9. buffer[r][s][1] = reqs[r] /\ buffer[r][s][2] = t
      BY <2>2, <2>4, <2>8, IdsAreUnique
  <2> QED
      BY <2>8, <2>9
<1>2. Mirrored /\ [Next]_vars => Mirrored'
    BY MirroredStep
<1> QED
    BY <1>1, <1>2, MirroredInit, PTL DEF Spec

\* Every wanted token has one slot, which either keeps it or loads it.
THEOREM EachTokenAlwaysHasOneSlot ==
    ASSUME Supported, FailsEarly, InRange
    PROVE  Spec => []EachTokenHasOneSlot
<1>1. ASSUME Mirrored PROVE EachTokenHasOneSlot
  <2>1. SUFFICES ASSUME pc = "returned", NEW r \in Rows(numReqs)
                 PROVE  /\ Held(topk[r]) \subseteq Held(asked[r])
                        /\ \A t \in Held(asked[r]) :
                              Cardinality({s \in Slot :
                                topk[r][s] = t \/ Keeps(r, s, <<reqs[r], t>>)}) = 1
      BY DEF EachTokenHasOneSlot
  <2> DEFINE off == ReqIdsOffset(reqs[r])
  <2>2. /\ r \in Row /\ reqs[r] \in Req /\ TypeOK
        /\ Distinct(last[r]) /\ Held(last[r]) = Held(AskedIds[r])
      BY <1>1, <2>1, RowsFact DEF Mirrored, Exact, TypeOK, HistoryDistinct, ServedKept
  <2>3. \A s \in Slot :
           IF topk[r][s] # Empty
           THEN topk[r][s] \in Tok /\ last[r][s] = topk[r][s] + off
           ELSE Mirror(r, s)
      BY <1>1, <2>1, <2>2 DEF Mirrored, MirrorKept
  <2>4. \A t, u \in Tok, q \in Req : t + ReqIdsOffset(q) = u + off => q = reqs[r] /\ t = u
      BY <2>2, IdsAreUnique
  <2>5. \A t \in Tok : t # Empty /\ t + off # Empty
      BY <2>2, TokAssumption, OffsetType DEF Empty
  <2>6. \A j \in Slot : asked[r][j] # Empty =>
           asked[r][j] \in Tok /\ AskedIds[r][j] = asked[r][j] + off
      BY <2>2, AskedRow
  <2>7. \A j \in Slot : asked[r][j] = Empty => AskedIds[r][j] = Empty
      BY <2>2, AskedRow
  <2> HIDE DEF off
  <2>8. ASSUME NEW t \in Held(topk[r]) PROVE t \in Held(asked[r])
    <3>1. PICK s \in Slot : topk[r][s] = t /\ t # Empty
        BY DEF Held
    <3>2. t \in Tok /\ last[r][s] = t + off
        BY <2>3, <3>1
    <3>3. PICK j \in Slot : AskedIds[r][j] = t + off
        BY <2>2, <2>5, <3>2 DEF Held
    <3>4. asked[r][j] # Empty
        BY <2>5, <2>7, <3>2, <3>3
    <3>5. asked[r][j] = t
        BY <2>2, <2>4, <2>6, <3>2, <3>3, <3>4 DEF off
    <3> QED
        BY <3>1, <3>5 DEF Held
  <2>9. ASSUME NEW t \in Held(asked[r])
        PROVE  \E s \in Slot :
                  {x \in Slot : topk[r][x] = t \/ Keeps(r, x, <<reqs[r], t>>)} = {s}
    <3>1. PICK j \in Slot : asked[r][j] = t /\ t # Empty
        BY DEF Held
    <3>2. t \in Tok /\ AskedIds[r][j] = t + off /\ t + off # Empty
        BY <2>5, <2>6, <3>1
    <3>3. PICK s \in Slot : last[r][s] = t + off
        BY <2>2, <3>2 DEF Held
    <3>4. topk[r][s] = t \/ Keeps(r, s, <<reqs[r], t>>)
      <4>1. CASE topk[r][s] # Empty
          BY <2>2, <2>3, <2>4, <3>2, <3>3, <4>1 DEF off
      <4>2. CASE topk[r][s] = Empty
        <5>1. /\ buffer[r][s] \in Req \X Tok
              /\ t + off = buffer[r][s][2] + ReqIdsOffset(buffer[r][s][1])
            BY <2>3, <3>2, <3>3, <4>2 DEF Mirror
        <5>2. buffer[r][s][1] = reqs[r] /\ buffer[r][s][2] = t
            BY <2>4, <3>2, <5>1
        <5> QED
            BY <3>2, <3>3, <4>2, <5>1, <5>2 DEF Keeps
      <4> QED
          BY <4>1, <4>2
    <3>5. ASSUME NEW x \in Slot, topk[r][x] = t \/ Keeps(r, x, <<reqs[r], t>>)
          PROVE  x = s
      <4>1. CASE topk[r][x] = t
        <5>1. last[r][x] = t + off
            BY <2>3, <3>1, <4>1
        <5> QED
            BY <2>2, <3>2, <3>3, <5>1 DEF Distinct
      <4>2. CASE Keeps(r, x, <<reqs[r], t>>)
        <5>1. last[r][x] = t + off
            BY <2>3, <4>2 DEF Keeps, Mirror, off
        <5> QED
            BY <2>2, <3>2, <3>3, <5>1 DEF Distinct
      <4> QED
          BY <3>5, <4>1, <4>2
    <3> QED
        BY <3>4, <3>5
  <2> QED
      BY <2>8, <2>9, FS_Singleton
<1>2. Mirrored /\ [Next]_vars => Mirrored'
    BY MirroredStep
<1> QED
    BY <1>1, <1>2, MirroredInit, PTL DEF Spec

-----------------------------------------------------------------------------
(* Reading the history back.                                               *)

\* Decode returns the request and the token of an id.
LEMMA DecodeId ==
    ASSUME InRange, NEW q \in Req, NEW t \in Tok
    PROVE  Decode(t + ReqIdsOffset(q)) = <<q, t>> /\ t + ReqIdsOffset(q) # Empty
<1> DEFINE P  == q * ReqStride
           id == t + P
<1>1. /\ q \in Nat /\ ReqStride \in Nat \ {0} /\ t \in 0 .. ReqStride - 1
    BY ReqAssumption, ReqStrideAssumption DEF InRange
<1>2. P \in Nat
    BY <1>1
<1>3. (id - t) \div ReqStride = q /\ P = ReqStride * q
    BY <1>1
<1>4. id \in Nat /\ id # Empty
    BY <1>1, <1>2 DEF Empty
<1>5. \A k \in Int : ReqStride * k <= id /\ id < ReqStride * k + ReqStride => k = q
  <2>1. SUFFICES ASSUME NEW k \in Int, ReqStride * k <= id, id < ReqStride * k + ReqStride
                 PROVE  k = q
      OBVIOUS
  <2>2. ASSUME NEW a \in Int, NEW b \in Int, a < b
        PROVE  ReqStride * a + ReqStride <= ReqStride * b
    <3>1. ReqStride * (a + 1) <= ReqStride * b
        BY <1>1, <2>2
    <3> QED
        BY <1>1, <3>1
  <2>3. ~ k < q
    <3>1. k < q => ReqStride * k + ReqStride <= P
        BY <1>1, <1>3, <2>2
    <3> DEFINE K == ReqStride * k
    <3>2. K \in Int
        BY <1>1
    <3> HIDE DEF P, K
    <3> QED
        BY <1>1, <1>2, <2>1, <3>1, <3>2 DEF K
  <2>4. ~ q < k
    <3>1. q < k => P + ReqStride <= ReqStride * k
        BY <1>1, <1>3, <2>2
    <3> DEFINE K == ReqStride * k
    <3>2. K \in Int
        BY <1>1
    <3> HIDE DEF P, K
    <3> QED
        BY <1>1, <1>2, <2>1, <3>1, <3>2 DEF K
  <2> QED
      BY <1>1, <2>3, <2>4
<1> HIDE DEF P
<1>6. /\ id \div ReqStride \in Int
      /\ ReqStride * (id \div ReqStride) <= id
      /\ id < ReqStride * (id \div ReqStride) + ReqStride
  <2> HIDE DEF id
  <2> QED
      BY <1>1, <1>4
<1>7. id \div ReqStride = q
    BY <1>5, <1>6
<1>8. id % ReqStride = id - ReqStride * (id \div ReqStride)
  <2> HIDE DEF id
  <2> QED
      BY <1>1, <1>4
<1>9. id % ReqStride = t
    BY <1>1, <1>2, <1>3, <1>7, <1>8
<1> QED
    BY <1>4, <1>7, <1>9 DEF Decode, ReqIdsOffset, P, Empty

\* Every recorded id is the id of some token of some request.
IdsKnown ==
    \A r \in Row, s \in Slot :
        last[r][s] = Empty \/ \E q \in Req, t \in Tok : last[r][s] = t + ReqIdsOffset(q)

Known == Exact /\ IdsKnown

LEMMA KnownInit == Init => Known
<1>1. Init => IdsKnown
    BY DEF Init, IdsKnown
<1> QED
    BY <1>1, ExactInit DEF Known

LEMMA KnownStep ==
    ASSUME Supported, Known, [Next]_vars
    PROVE  Known'
<1>1. Exact'
    BY ExactStep DEF Known
<1>2. CASE RecordHistory
  <2>1. SUFFICES ASSUME NEW r \in Row, NEW s \in Slot
                 PROVE  \/ last'[r][s] = Empty
                        \/ \E q \in Req, t \in Tok : last'[r][s] = t + ReqIdsOffset(q)
      BY <1>1 DEF Known, IdsKnown
  <2>2. /\ pc = "scattered"
        /\ last'[r] = IF r \in Rows(numReqs) THEN NextHistory[r] ELSE last[r]
      BY <1>2 DEF RecordHistory, InBatch, NextHistory
  <2>3. CASE r \notin Rows(numReqs) \/ s \notin avail[r]
    <3>1. last'[r][s] = last[r][s]
        BY <2>2, <2>3, BatchServed DEF Known
    <3> QED
        BY <3>1 DEF Known, IdsKnown
  <2>4. CASE r \in Rows(numReqs) /\ s \in avail[r]
    <3>1. PICK j \in Slot : last'[r][s] = AskedIds[r][j]
        BY <2>2, <2>4, BatchServed DEF Known
    <3>2. reqs[r] \in Req
        BY <2>4 DEF Known, Exact, TypeOK
    <3> QED
        BY <2>4, <3>1, <3>2, AskedRow DEF Known, Exact
  <2> QED
      BY <2>3, <2>4
<1>3. CASE last' = last
    BY <1>1, <1>3 DEF Known, IdsKnown
<1> QED
    BY <1>2, <1>3 DEF Next, Step, vars, Call, Reject, Raise, ComputeMasks, LaunchKernel,
       SelectAndScatter, Return, Load

-----------------------------------------------------------------------------
(* The refinement mapping.                                                 *)

\* The slots and the wanted batch of the abstract cache.
AbsSlots == [r \in Row |-> [s \in Slot |-> Decode(last[r][s])]]

AbsWant == [r \in (IF pc \in Unserved THEN Rows(numReqs) ELSE {}) |-> Wanted(r)]

\* A page of a recorded id, and no other id has it.
LEMMA DecodeKnown ==
    ASSUME InRange, NEW x,
           x = Empty \/ \E q \in Req, t \in Tok : x = t + ReqIdsOffset(q)
    PROVE  /\ Decode(x) \in Page \cup {NoToken}
           /\ x = Empty <=> Decode(x) = NoToken
           /\ \A q \in Req, t \in Tok : Decode(x) = <<q, t>> => x = t + ReqIdsOffset(q)
<1>1. \A q, t : <<q, t>> # NoToken
    BY DEF NoToken
<1>2. CASE x = Empty
    BY <1>1, <1>2 DEF Decode
<1>3. CASE \E q \in Req, t \in Tok : x = t + ReqIdsOffset(q)
  <2>1. PICK q \in Req, t \in Tok : x = t + ReqIdsOffset(q)
      BY <1>3
  <2>2. Decode(x) = <<q, t>> /\ x # Empty
      BY <2>1, DecodeId
  <2> QED
      BY <1>1, <2>1, <2>2 DEF Page
<1> QED
    BY <1>2, <1>3

\* One row that is recorded is one row served.
LEMMA RowIsServed ==
    ASSUME InRange, Known, Known', RecordHistory, NEW r \in Rows(numReqs)
    PROVE  Cache!Served(AbsSlots[r], AbsSlots'[r], Wanted(r))
<1> DEFINE before == AbsSlots[r]
           after  == AbsSlots'[r]
           off    == ReqIdsOffset(reqs[r])
<1>1. /\ pc = "scattered" /\ r \in Row /\ TypeOK /\ reqs[r] \in Req
      /\ last'[r] = NextHistory[r]
    BY RowsFact DEF RecordHistory, InBatch, NextHistory, Known, Exact, TypeOK
<1>2. /\ Held(last'[r]) = Held(AskedIds[r]) /\ Distinct(last'[r])
      /\ \A s \in Slot : last[r][s] \in Held(AskedIds[r]) => last'[r][s] = last[r][s]
    BY <1>1, BatchServed DEF Known
<1>3. \A s \in Slot : before[s] = Decode(last[r][s]) /\ after[s] = Decode(last'[r][s])
    BY <1>1 DEF AbsSlots, Decode
<1>4. \A s \in Slot :
         /\ last[r][s] = Empty \/ \E q \in Req, t \in Tok : last[r][s] = t + ReqIdsOffset(q)
         /\ last'[r][s] = Empty \/ \E q \in Req, t \in Tok : last'[r][s] = t + ReqIdsOffset(q)
    BY <1>1 DEF Known, IdsKnown
<1>0. ASSUME NEW s \in Slot
      PROVE  /\ \A q \in Req, t \in Tok : before[s] = <<q, t>> => last[r][s] = t + ReqIdsOffset(q)
             /\ \A q \in Req, t \in Tok : after[s] = <<q, t>> => last'[r][s] = t + ReqIdsOffset(q)
             /\ after[s] \in Page \cup {NoToken}
             /\ last'[r][s] = Empty <=> after[s] = NoToken
  <2> DEFINE x == last[r][s]
             y == last'[r][s]
  <2>1. before[s] = Decode(x) /\ after[s] = Decode(y)
      BY <1>3
  <2>2. /\ x = Empty \/ \E q \in Req, t \in Tok : x = t + ReqIdsOffset(q)
        /\ y = Empty \/ \E q \in Req, t \in Tok : y = t + ReqIdsOffset(q)
      BY <1>4
  <2> HIDE DEF before, after, x, y
  <2>3. \A q \in Req, t \in Tok : Decode(x) = <<q, t>> => x = t + ReqIdsOffset(q)
      BY <2>2, DecodeKnown
  <2>4. /\ \A q \in Req, t \in Tok : Decode(y) = <<q, t>> => y = t + ReqIdsOffset(q)
        /\ Decode(y) \in Page \cup {NoToken}
        /\ y = Empty <=> Decode(y) = NoToken
      BY <2>2, DecodeKnown
  <2> QED
      BY <2>1, <2>3, <2>4 DEF x, y
<1>5. \A t \in Held(asked[r]) : t \in Tok /\ t + off \in Held(AskedIds[r])
    BY <1>1, AskedRow DEF Held
<1>6. \A x \in Held(AskedIds[r]) : \E t \in Held(asked[r]) : x = t + off
    BY <1>1, AskedRow DEF Held
<1> HIDE DEF off
<1>7. \A t \in Tok : Decode(t + off) = <<reqs[r], t>> /\ <<reqs[r], t>> # NoToken
    BY <1>1, DecodeId DEF off, NoToken
<1> HIDE DEF before, after
<1>8. ASSUME NEW s \in Slot, after[s] # NoToken
      PROVE  after[s] \in Wanted(r)
  <2>1. last'[r][s] \in Held(AskedIds[r])
      BY <1>2, <1>3, <1>8 DEF Held, Decode
  <2>2. PICK t \in Held(asked[r]) : last'[r][s] = t + off
      BY <1>6, <2>1
  <2> QED
      BY <1>3, <1>5, <1>7, <2>2 DEF Wanted
<1>9. ASSUME NEW t \in Held(asked[r])
      PROVE  \E s \in Slot : after[s] = <<reqs[r], t>>
  <2>1. PICK s \in Slot : last'[r][s] = t + off
      BY <1>2, <1>5 DEF Held
  <2> QED
      BY <1>3, <1>5, <1>7, <2>1
<1>10. ASSUME NEW s \in Slot, NEW u \in Slot, after[s] = after[u], after[s] # NoToken
       PROVE  s = u
  <2>1. after[s] \in Req \X Tok
      BY <1>0, <1>10 DEF Page
  <2>2. PICK q \in Req, t \in Tok : after[s] = <<q, t>>
      BY <2>1
  <2>3. last'[r][s] = last'[r][u] /\ last'[r][s] # Empty
    <3>1. last'[r][s] = t + ReqIdsOffset(q) /\ last'[r][u] = t + ReqIdsOffset(q)
        BY <1>0, <1>10, <2>2
    <3> QED
        BY <1>0, <1>10, <3>1
  <2> QED
      BY <1>2, <2>3 DEF Distinct
<1>11. ASSUME NEW s \in Slot, before[s] \in Wanted(r)
       PROVE  after[s] = before[s]
  <2>1. PICK t \in Held(asked[r]) : before[s] = <<reqs[r], t>>
      BY <1>11 DEF Wanted
  <2>2. last[r][s] = t + off
      BY <1>0, <1>1, <1>5, <2>1 DEF off
  <2> QED
      BY <1>2, <1>3, <1>5, <2>2
<1>12. {after[s] : s \in Slot} \ {NoToken} = Wanted(r)
    BY <1>5, <1>7, <1>8, <1>9 DEF Wanted
<1> QED
    BY <1>10, <1>11, <1>12 DEF Cache!Served, Cache!Holds, Cache!Slot, Slot, before, after

-----------------------------------------------------------------------------
(* The simulation.                                                         *)

LEMMA CacheInit == Init => Cache!Init
<1>1. ASSUME Init
      PROVE  AbsSlots = [r \in Row |-> [s \in Slot |-> NoToken]] /\ AbsWant = [r \in {} |-> {}]
    BY <1>1 DEF Init, AbsSlots, AbsWant, Decode, Unserved
<1> QED
    BY <1>1 DEF Cache!Init, Cache!Row, Cache!Slot, Cache!NoBatch, Row, Slot, AbsSlots, AbsWant

\* A step that leaves the history alone leaves the slots alone.
LEMMA SameSlots ==
    ASSUME UNCHANGED last
    PROVE  UNCHANGED AbsSlots
BY DEF AbsSlots, Decode

\* No batch is being served at rest.
LEMMA WantAtRest ==
    ASSUME pc \notin Unserved
    PROVE  AbsWant = [r \in {} |-> {}]
BY DEF AbsWant

\* A call asks for its batch.
LEMMA CallAsks ==
    ASSUME Known, NEW n \in 0 .. MaxReqs, NEW q \in ReqIds(n),
           NEW x \in [Rows(n) -> InputRow], Call(n, q, x)
    PROVE  Cache!Ask \/ UNCHANGED <<AbsSlots, AbsWant>>
<1>1. /\ pc \in AtRest /\ pc' \in Unserved /\ numReqs' = n /\ UNCHANGED AbsSlots
      /\ reqs' = q /\ asked' = x
    BY SameSlots DEF Call, Unserved
<1>2. AbsWant = [r \in {} |-> {}]
    BY <1>1, WantAtRest DEF AtRest, Unserved
<1>3. AbsWant' = [r \in Rows(n) |-> Wanted(r)']
    BY <1>1 DEF AbsWant
<1>4. CASE n = 0
  <2>1. Rows(n) = {}
      BY <1>4 DEF Rows
  <2> QED
      BY <1>1, <1>2, <1>3, <2>1
<1>5. CASE n # 0
  <2>1. n \in 1 .. MaxReqs
      BY <1>5, MaxReqsAssumption
  <2>2. ASSUME NEW r \in Rows(n) PROVE Wanted(r)' \in SUBSET Page
    <3>1. q[r] \in Req /\ x[r] \in [Slot -> Tok \cup {Empty}]
        BY DEF ReqIds, InputRow
    <3> QED
        BY <1>1, <3>1 DEF Wanted, Held, Page
  <2>3. AbsWant' \in [0 .. n - 1 -> SUBSET Page]
      BY <1>3, <2>2 DEF Rows
  <2> QED
      BY <1>1, <1>2, <2>1, <2>3 DEF Cache!Ask, Cache!NoBatch, AbsSlots, AbsWant
<1> QED
    BY <1>4, <1>5

\* An exception aborts the batch, if there is one.
LEMMA ThrowAborts ==
    ASSUME Throw, UNCHANGED last
    PROVE  Cache!Abort \/ UNCHANGED <<AbsSlots, AbsWant>>
<1>1. UNCHANGED AbsSlots /\ AbsWant' = [r \in {} |-> {}]
    BY SameSlots, WantAtRest DEF Throw, AbsWant, Unserved
<1> QED
    BY <1>1 DEF Cache!Abort, Cache!NoBatch, AbsSlots, AbsWant

\* The update of the history serves the batch.
LEMMA RecordHistoryServes ==
    ASSUME InRange, Known, Known', RecordHistory
    PROVE  Cache!Serve \/ UNCHANGED <<AbsSlots, AbsWant>>
<1>1. /\ pc \in Unserved /\ pc' \notin Unserved /\ TypeOK
      /\ numReqs \in Nat /\ Rows(numReqs) = 0 .. numReqs - 1 /\ Rows(numReqs) \subseteq Row
    BY RowsFact DEF RecordHistory, Unserved, Known, Exact
<1>2. /\ AbsWant = [r \in Rows(numReqs) |-> Wanted(r)]
      /\ AbsWant' = [r \in {} |-> {}]
    BY <1>1 DEF AbsWant
<1>3. \A r \in Row : r \notin Rows(numReqs) => AbsSlots'[r] = AbsSlots[r]
  <2>1. SUFFICES ASSUME NEW r \in Row, r \notin Rows(numReqs)
                 PROVE  AbsSlots'[r] = AbsSlots[r]
      OBVIOUS
  <2>2. last'[r] = last[r]
      BY <2>1 DEF RecordHistory, InBatch
  <2> QED
      BY <2>2 DEF AbsSlots, Decode
<1>4. CASE numReqs = 0
  <2>1. Rows(numReqs) = {}
      BY <1>1, <1>4
  <2>2. AbsSlots' = AbsSlots
      BY <1>3, <2>1 DEF AbsSlots
  <2> QED
      BY <1>2, <2>1, <2>2
<1>5. CASE numReqs # 0
  <2>1. AbsWant # [r \in {} |-> {}]
      BY <1>1, <1>2, <1>5
  <2>2. AbsSlots' \in [Row -> [Slot -> Page \cup {NoToken}]]
    <3>1. ASSUME NEW r \in Row, NEW s \in Slot
          PROVE  Decode(last'[r][s]) \in Page \cup {NoToken}
      <4> DEFINE y == last'[r][s]
      <4>1. y = Empty \/ \E q \in Req, t \in Tok : y = t + ReqIdsOffset(q)
          BY DEF Known, IdsKnown
      <4> HIDE DEF y
      <4>2. Decode(y) \in Page \cup {NoToken}
          BY <4>1, DecodeKnown
      <4> QED
          BY <4>2 DEF y
    <3>2. AbsSlots' = [r \in Row |-> [s \in Slot |-> Decode(last'[r][s])]]
        BY DEF AbsSlots, Decode
    <3> QED
        BY <3>1, <3>2
  <2>3. \A r \in Rows(numReqs) : Cache!Served(AbsSlots[r], AbsSlots'[r], Wanted(r))
      BY RowIsServed
  <2>4. \A r \in Row : IF r \in DOMAIN AbsWant
                       THEN Cache!Served(AbsSlots[r], AbsSlots'[r], AbsWant[r])
                       ELSE AbsSlots'[r] = AbsSlots[r]
      BY <1>2, <1>3, <2>3
  <2> QED
      BY <1>2, <2>1, <2>2, <2>4
         DEF Cache!Serve, Cache!NoBatch, Cache!Row, Cache!Slot, Row, Slot, AbsSlots, AbsWant
<1> QED
    BY <1>4, <1>5

\* Every step of the operator is a step of the cache or leaves it alone.
LEMMA CacheStep ==
    ASSUME Supported, InRange, Known, [Next]_vars
    PROVE  [Cache!Next]_(Cache!vars)
<1>0. Known'
    BY KnownStep
<1>1. SUFFICES Cache!Next \/ UNCHANGED <<AbsSlots, AbsWant>>
    BY DEF Cache!vars, AbsSlots, AbsWant
<1>2. CASE \E n \in 0 .. MaxReqs :
              \E q \in ReqIds(n), x \in [Rows(n) -> InputRow] : Call(n, q, x)
    BY <1>2, CallAsks DEF Cache!Next
<1>3. CASE \E n, m \in 0 .. MaxReqs + 1, w \in {TopK, TopK + 1} : Reject(n, w, m)
    BY <1>3, ThrowAborts DEF Reject, Cache!Next
<1>4. CASE Raise
    BY <1>4, ThrowAborts DEF Raise, Cache!Next
<1>5. CASE RecordHistory
    BY <1>0, <1>5, RecordHistoryServes DEF Cache!Next
<1>6. CASE ComputeMasks \/ LaunchKernel \/ SelectAndScatter
  <2>1. /\ UNCHANGED last /\ pc \in Unserved /\ pc' \in Unserved
        /\ numReqs' = numReqs /\ reqs' = reqs /\ asked' = asked
      BY <1>6 DEF ComputeMasks, LaunchKernel, SelectAndScatter, Unserved, args
  <2> QED
      BY <2>1, SameSlots DEF AbsWant, Wanted
<1>7. CASE Return \/ Load
  <2>1. UNCHANGED last /\ pc \notin Unserved /\ pc' \notin Unserved
      BY <1>7 DEF Return, Load, Unserved
  <2> QED
      BY <2>1, SameSlots DEF AbsWant
<1>8. CASE UNCHANGED vars
    BY <1>8, SameSlots DEF vars, args, AbsWant, Wanted
<1> QED
    BY <1>2, <1>3, <1>4, <1>5, <1>6, <1>7, <1>8 DEF Next, Step

\* The history, decoded, is a cache that serves every batch exactly and in one
\* step, whatever calls fail and wherever they fail.
THEOREM OperatorImplementsCache ==
    ASSUME Supported, InRange
    PROVE  Spec => ImplementsSlotCache
<1>1. Known /\ [Next]_vars => Known' /\ [Cache!Next]_(Cache!vars)
    BY KnownStep, CacheStep
<1> QED
    BY <1>1, KnownInit, CacheInit, PTL DEF Spec, ImplementsSlotCache, Cache!Spec
================================================================================
