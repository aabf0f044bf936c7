--------------------------- MODULE CircuitSplitting ---------------------------
(***************************************************************************)
(* The splitting arithmetic of distributed-prover: how many subcircuits a  *)
(* circuit with num_rows rows is cut into, what shape each subcircuit has, *)
(* and which Groth16 proving key the coordinator's gen-keys command stores *)
(* for each index.  All operators are pure; MCSplitting checks them over a *)
(* bounded range of num_rows.                                              *)
(***************************************************************************)
EXTENDS Integers, Sequences

(* Rows per batch of the batched filter circuit and of the coordinator's  *)
(* hard-coded index range.                                                 *)
BatchSize == 64

(* The index range the coordinator's start-stage0, start-stage1 and        *)
(* end-proof commands iterate over: (num_rows+63)/64.                      *)
CoordinatorNumSubcircuits(numRows) == (numRows + BatchSize - 1) \div BatchSize

(* muti_tuple_filter_circuit: one subcircuit per batch of 64 rows.         *)
BatchedNumSubcircuits(numRows) == (numRows + BatchSize - 1) \div BatchSize

(* The rows of batch idx: end_idx - start_idx, the number of comparison    *)
(* gadgets subcircuit idx allocates; it is what fixes the batch's shape.   *)
BatchRows(numRows, idx) ==
    LET startIdx == idx * BatchSize
        endIdx   == IF startIdx + BatchSize < numRows
                    THEN startIdx + BatchSize ELSE numRows
    IN  endIdx - startIdx

BatchedShape(numRows, idx) == BatchRows(numRows, idx)

(* muti_tuple_filter_circuit::representative_subcircuit.                   *)
BatchedRepresentative(numRows, idx) ==
    IF idx = 0 THEN 0
    ELSE IF idx = numRows - 1 THEN 3
    ELSE 1

(* muti_tuple_filter_circuit::get_unique_subcircuits.                      *)
BatchedUniqueSubcircuits == {0, 1, 3}

(* single_tuple_filter_circuit: one subcircuit per row; the same unique    *)
(* list and representative mapping as the batched filter.                  *)
SingleNumSubcircuits(numRows) == numRows
SingleUniqueSubcircuits == {0, 1, 3}
SingleRepresentative(numRows, idx) ==
    IF idx = 0 THEN 0
    ELSE IF idx = numRows - 1 THEN 3
    ELSE 1

(* test_circuit (merge sort): the loop that halves size (rounding up)      *)
(* until one segment is left, counting one layer per halving.              *)
RECURSIVE HalvingLayersFloor(_, _), HalvingLayers(_, _)

(* Bug variant of the layer loop that halves rounding down.               *)
HalvingLayersFloor(size, count) ==
    IF size > 1 THEN HalvingLayersFloor(size \div 2, count + 1) ELSE count

MergeSortNumSubcircuitsFloor(numRows) == HalvingLayersFloor(numRows, 0)

HalvingLayers(size, count) ==
    IF size > 1 THEN HalvingLayers((size + 1) \div 2, count + 1) ELSE count

MergeSortNumSubcircuits(numRows) == HalvingLayers(numRows, 0)

(* Reference definition: the least k with 2^k >= numRows.                  *)
CeilLog2(n) == CHOOSE k \in 0..n : 2^k >= n /\ (k = 0 \/ 2^(k-1) < n)

(* The merge layer a subcircuit proves: subcircuit idx merges segments of  *)
(* 2^(layers-idx-1) rows, pairing them two by two.  Every layer is its own *)
(* representative, so the pair <<segment size, pairs>> is its shape.       *)
MergeSegmentSize(numRows, idx) ==
    2^(MergeSortNumSubcircuits(numRows) - idx - 1)

MergeShape(numRows, idx) ==
    LET seg      == MergeSegmentSize(numRows, idx)
        segments == (numRows + seg - 1) \div seg
    IN  <<seg, segments \div 2>>

(* Bug variant of PkSource: the middle key is saved over 1..N-1, after     *)
(* the last one, so it also lands at index N-1.                            *)
PkSourceMiddleOverwritesLast(n, idx) == IF idx = 0 THEN 0 ELSE 1

(* gen-keys proves three indices, 0, 1 and N-1, and stores the key of      *)
(* index 0 at 0, that of index 1 at 1..N-2 and that of N-1 at N-1; the     *)
(* aggregation key's pk_fetcher makes the same choice.                     *)
PkSource(n, idx) ==
    IF idx = 0 THEN 0
    ELSE IF idx = n - 1 THEN n - 1
    ELSE 1

(* Bug variant of MergeSetupOrder: the comparison without equality.        *)
MergeSetupOrderStrict(a, b) == a < b

(* get_portal_subtraces takes the left element when left.0 <= right.0.     *)
MergeSetupOrder(a, b) == a <= b

(* generate_constraints takes it when is_cmp(right, Less, false): a        *)
(* strict left < right, so a tie takes the right element.                  *)
MergeProverOrder(a, b) == a < b

(* Whether the merge run by side ("setup" or "prover") takes the left      *)
(* element, given the left and the right sort key.                         *)
MergeTakesLeft(side, a, b) ==
    IF side = "setup" THEN MergeSetupOrder(a, b) ELSE MergeProverOrder(a, b)

(* The two-way merge of test_circuit.rs.  A segment is a sequence of       *)
(* <<sort key, row index>>; while both sides are non-empty the head of the *)
(* left side is taken when MergeTakesLeft, else the head of the right      *)
(* side; then the rest of either side is appended.                         *)
RECURSIVE MergeBy(_, _, _)
MergeBy(l, r, side) ==
    IF l = << >> THEN r
    ELSE IF r = << >> THEN l
    ELSE IF MergeTakesLeft(side, Head(l)[1], Head(r)[1])
         THEN << Head(l) >> \o MergeBy(Tail(l), r, side)
         ELSE << Head(r) >> \o MergeBy(l, Tail(r), side)

(* The number of is_cmp gadgets the merge loop of generate_constraints     *)
(* allocates for one pair: one per iteration while both sides are          *)
(* non-empty, and the side it advances is chosen from                      *)
(* is_left_smaller.value(), the witness.  The rest is copied unchecked.   *)
RECURSIVE MergeComparisons(_, _)
MergeComparisons(l, r) ==
    IF l = << >> \/ r = << >> THEN 0
    ELSE 1 + IF MergeProverOrder(Head(l)[1], Head(r)[1])
             THEN MergeComparisons(Tail(l), r)
             ELSE MergeComparisons(l, Tail(r))

(* The comparisons generate_constraints(idx) allocates over all pairs of   *)
(* its layer, for a table whose sort column is keys (0-indexed) and the    *)
(* identity sorted_indices of new().                                       *)
MergeLayerComparisons(numRows, keys, idx) ==
    LET seg   == MergeSegmentSize(numRows, idx)
        pairs == ((numRows + seg - 1) \div seg) \div 2
        Run(from, to) == [k \in 1..(to - from) |-> <<keys[from + k - 1], from + k - 1>>]
        Cmp(p) == LET rs == 2 * p * seg + seg
                      re == IF rs + seg < numRows THEN rs + seg ELSE numRows
                  IN  MergeComparisons(Run(2 * p * seg, rs), Run(rs, re))
        RECURSIVE SumFrom(_)
        SumFrom(p) == IF p >= pairs THEN 0 ELSE Cmp(p) + SumFrom(p + 1)
    IN  SumFrom(0)
===============================================================================
