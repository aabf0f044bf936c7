------------------------------ MODULE MCSplitting ------------------------------
(***************************************************************************)
(* Checks the splitting arithmetic of CircuitSplitting for every num_rows  *)
(* in 2..MaxRows (gen-keys asserts num_rows > 1).  The state is the input; *)
(* the invariants are statements about the pure operators at that input.  *)
(***************************************************************************)
EXTENDS CircuitSplitting, BitonicSort

CONSTANTS
    MinRows,     \* least num_rows checked (gen_test_circuit_params asserts > 1)
    MaxRows,     \* bound on num_rows
    SortKeys,    \* values of returnflag and linestatus in the sorted tables
    MaxSortRows  \* bound on num_rows for the sorting-network checks

VARIABLE rows

ASSUME MinRows > 1

Init == rows \in MinRows..MaxRows
Next == UNCHANGED rows
Spec == Init /\ [][Next]_rows

(* The merge-sort circuit's layer loop (test_circuit.rs num_subcircuits)   *)
(* yields ceil(log2 num_rows) layers, the depth of a bottom-up merge sort. *)
MergeLayersAreCeilLog2 == MergeSortNumSubcircuits(rows) = CeilLog2(rows)

(* For the batched filter circuit, the key gen-keys stores at each index   *)
(* (first, middle or last, test_multi_sort_co.rs generate_g16_pks) was     *)
(* generated for a subcircuit with that index's shape.                     *)
BatchedKeysMatchShapes ==
    LET n == BatchedNumSubcircuits(rows)
    IN  n >= 2 => \A i \in 0..n-1 :
                     BatchedShape(rows, PkSource(n, i)) = BatchedShape(rows, i)

(* The same for the merge-sort circuit the coordinator binary is built     *)
(* with: every stored key belongs to a layer of the index's shape.         *)
MergeKeysMatchShapes ==
    LET n == MergeSortNumSubcircuits(rows)
    IN  n >= 2 => \A i \in 0..n-1 :
                     MergeShape(rows, PkSource(n, i)) = MergeShape(rows, i)

(* Spec 4.1: indices mapped to one representative share one shape (one key *)
(* serves them all).  Checked for muti_tuple_filter_circuit.               *)
BatchedRepresentativeSharesShape ==
    LET n == BatchedNumSubcircuits(rows)
    IN  \A i, j \in 0..n-1 :
           BatchedRepresentative(rows, i) = BatchedRepresentative(rows, j)
              => BatchedShape(rows, i) = BatchedShape(rows, j)

(* Spec 4.1: get_unique_subcircuits names subcircuits of the circuit; key *)
(* setup builds each one with generate_constraints, which for an index    *)
(* past the last batch subtracts past zero.  Checked for the batched       *)
(* filter.                                                                 *)
BatchedUniqueSubcircuitsExist ==
    BatchedUniqueSubcircuits \subseteq 0..BatchedNumSubcircuits(rows) - 1

(* Spec 4.1: representative_subcircuit maps every subcircuit to one of the *)
(* unique subcircuits, an existing index.  Checked for the single-row      *)
(* filter, whose last row maps to 3.                                       *)
SingleRepresentativesAreUnique ==
    \A i \in 0..SingleNumSubcircuits(rows) - 1 :
        SingleRepresentative(rows, i)
            \in SingleUniqueSubcircuits \cap 0..SingleNumSubcircuits(rows) - 1

(* The coordinator's stage loops cover exactly the subcircuits of the      *)
(* merge-sort circuit it is built with: (num_rows+63)/64 equals the        *)
(* circuit's num_subcircuits, which sized the keys and the TIPA setup.     *)
CoordinatorRangeMatchesCircuit ==
    CoordinatorNumSubcircuits(rows) = MergeSortNumSubcircuits(rows)

(* generate_g16_pks proves the keys of subcircuits 0, 1 and N-1 of the   *)
(* merge-sort circuit; each must be a subcircuit, or gen_pk builds a      *)
(* layer past the last one (current_layer underflows) and gen-keys panics. *)
GenKeysIndicesExist ==
    LET n == MergeSortNumSubcircuits(rows)
    IN  {0, 1, n - 1} \subseteq 0..n-1

(* Sorted segments of len rows whose keys come from {1, 2} (so ties        *)
(* occur), each element tagged with its row index offset+1..offset+len.    *)
SortedSegments(len, offset) ==
    {[k \in 1..len |-> <<f[k], offset + k>>] :
        f \in {g \in [1..len -> {1, 2}] : \A k \in 1..len-1 : g[k] <= g[k+1]}}

(* The merge loop of get_portal_subtraces (test_circuit.rs) turns two      *)
(* sorted segments, the left one first in the table, into their stable     *)
(* sort: reference definition, the unique permutation ordered by key and,  *)
(* among equal keys, by row index.  Checked for segments of up to 3 rows, *)
(* together at most num_rows.                                              *)
MergeIsStableSort ==
    \A ll, rl \in 0..3 :
        ll + rl <= rows =>
        \A l \in SortedSegments(ll, 0), r \in SortedSegments(rl, ll) :
            LET m == MergeBy(l, r, "setup")
            IN  /\ Len(m) = ll + rl
                /\ {m[k] : k \in 1..Len(m)} = {l[k] : k \in 1..ll} \cup {r[k] : k \in 1..rl}
                /\ \A i, j \in 1..Len(m) :
                       i < j => \/ m[i][1] < m[j][1]
                                \/ m[i][1] = m[j][1] /\ m[i][2] < m[j][2]

(* The lineitem tables of n rows subcircuit 1 of the bitonic circuit sorts: *)
(* each row's two sort keys from SortKeys (which holds 0, the padding's    *)
(* value), and its other columns told apart by the row index.             *)
SortTables(n) ==
    IF n > MaxSortRows THEN {}
    ELSE {[i \in 0..n-1 |-> <<f[i][1], f[i][2], i + 1>>] : f \in [0..n-1 -> SortKeys \X SortKeys]}

(* Reference: tab holds its rows in order of (returnflag, linestatus).     *)
IsSortedTable(tab) ==
    \A i, j \in DOMAIN tab : i < j => ~CompareRows(tab[j], tab[i])

(* The bitonic network of BitonicSortGadget::construct sorts the padded     *)
(* table: its output is a reordering of the padded rows, in order.  Checked *)
(* for every table of num_rows <= MaxSortRows rows, padded to 2, 4 or 8.   *)
BitonicNetworkSorts ==
    \A input \in SortTables(rows) :
        LET p      == NextPow2(rows)
            padded == [i \in 0..p-1 |-> IF i < rows THEN input[i] ELSE Padding]
            out    == Network(padded, Log2(p))
        IN  RowBag(out) = RowBag(padded) /\ IsSortedTable(out)

(* What construct returns satisfies the constraints of SortedCheckGadget,  *)
(* so an honest prover of subcircuit 1 can always satisfy them, ties        *)
(* between rows included.                                                   *)
SortedCheckAccepts ==
    \A input \in SortTables(rows) : SortedCheck(Construct(input))

(* construct removes the padding rows and keeps output of the original     *)
(* length (its comment at the truncation): the output is the input's rows, *)
(* reordered and sorted.                                                    *)
BitonicOutputIsSortedInput ==
    \A input \in SortTables(rows) :
        LET out == Construct(input)
        IN  RowBag(out) = RowBag(input) /\ IsSortedTable(out)

(* Spec 4.1 and 8: subcircuits of one shape have identical constraint     *)
(* structure, so the key gen-keys builds from new()'s constant table       *)
(* serves the table start-stage0 proves.  For the merge-sort circuit the   *)
(* count of is_cmp gadgets of each layer must not depend on the sort keys: *)
(* checked over the sorted key columns of 0s then 1s, of which the all-1   *)
(* column (a constant table, like new()'s) is one.                         *)
MergeShapeIsDataIndependent ==
    LET Step(t) == [i \in 0..rows-1 |-> IF i < t THEN 0 ELSE 1]
    IN  \A idx \in 0..MergeSortNumSubcircuits(rows) - 1, t \in 0..rows :
            MergeLayerComparisons(rows, Step(t), idx) = MergeLayerComparisons(rows, Step(0), idx)

(* Every subcircuit index the code names is consistent with the circuit's *)
(* own splitting (spec 4.1, 4.4): the coordinator's range is the circuit's *)
(* subcircuit count, the indices gen-keys proves exist, every stored key   *)
(* has its index's shape, a merge layer's shape does not depend on the    *)
(* data, indices that share a representative share a shape, and the       *)
(* unique lists and representatives are existing subcircuits.  Each       *)
(* conjunct fails on its own: the coordinator range from 3 rows, gen-keys' *)
(* indices at 2, the merge-sort keys from 9, the merge layer's comparison *)
(* count at 3, the batched representative at 129, the unique list and the *)
(* single-row representative from 2.                                       *)
SubcircuitIndexingConsistent ==
    /\ CoordinatorRangeMatchesCircuit
    /\ GenKeysIndicesExist
    /\ MergeKeysMatchShapes
    /\ MergeShapeIsDataIndependent
    /\ BatchedRepresentativeSharesShape
    /\ BatchedUniqueSubcircuitsExist
    /\ SingleRepresentativesAreUnique
===============================================================================
