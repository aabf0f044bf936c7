----------------------------- MODULE PortalTrace -----------------------------
(***************************************************************************)
(* Portal traces of the circuits.  At setup the coordinator calls         *)
(* get_portal_subtraces(), which runs a SetupRomPortalManager over the     *)
(* whole table and returns one subtrace per subcircuit.  When subcircuit   *)
(* i is proven, generate_constraints(i) issues its own pm.set / pm.get     *)
(* calls to a RomProverPortalManager that replays subtrace i: the calls    *)
(* must be the entries of the subtrace, in order, with the same values     *)
(* (spec.md 4.1), or the subcircuit's constraints are unsatisfiable.       *)
(*                                                                         *)
(* Only the shipdate column (the sort column of the merge sort) and      *)
(* right_shipdate matter to the portals.  A portal key is format!(..) of  *)
(* a prefix and indices, modelled as the tuple (decimal indices joined by *)
(* '_' are injective).  The multi-tuple filter's 64-bit comparison word   *)
(* is modelled by the set of its one bits (UInt64::from_bits_le and the   *)
(* shifted ORs are both injective on 64 bits).                            *)
(* The portal manager itself is library code, modelled from spec.md.      *)
(***************************************************************************)
EXTENDS Integers, Sequences, CircuitSplitting
LOCAL INSTANCE SequencesExt

CONSTANTS
    Kinds,      \* circuits checked, a subset of {"multi","single","bitonic","merge"}
    RowCounts,  \* params.num_rows values checked
    ShipDates,  \* values a shipdate cell can hold
    Rhs,        \* right_shipdate
    MaxSubcircuits, \* bound on the subcircuits proven (2^N interleavings)
    NoTrace     \* model value: setup has not run / subcircuit not proven

\* The shipdate columns checked for n rows: every table with at most one
\* row differing from the rest, which puts a tie, a smaller and a larger
\* value at every position, batch boundaries included.
Tables(n) ==
    {[j \in 0..n-1 |-> IF j = k THEN v ELSE w] : k \in 0..n-1, v, w \in ShipDates}

Leq(a, b) == a <= b

NumSubcircuits(k, n) ==
    CASE k = "multi" -> BatchedNumSubcircuits(n)
      [] k = "single" -> n
      [] k = "bitonic" -> 2
      [] k = "merge" -> MergeSortNumSubcircuits(n)

Set(key, val) == [op |-> "set", key |-> key, val |-> val]
Get(key, val) == [op |-> "get", key |-> key, val |-> val]
CmpBit(c) == IF c THEN 1 ELSE 0

(***************************************************************************)
(* get_portal_subtraces of each circuit.                                   *)
(***************************************************************************)
\* One subtrace per batch: the bits of rows whose shipdate <= rhs.
MultiTrace(n, tab) ==
    [b \in 1..BatchedNumSubcircuits(n) |->
        LET start == (b - 1) * BatchSize
        IN  << Set(<<"batch", b - 1>>,
                   {i \in 0..BatchRows(n, b - 1) - 1 : Leq(tab[start + i], Rhs)}) >>]

\* A variant whose portal key loses the row index.
SingleTraceSameKey(n, tab) ==
    [i \in 1..n |-> << Set(<<"lhs", 0>>, CmpBit(Leq(tab[i - 1], Rhs))) >>]

\* One subtrace per row: the comparison bit of that row.
SingleTrace(n, tab) ==
    [i \in 1..n |-> << Set(<<"lhs", i - 1>>, CmpBit(Leq(tab[i - 1], Rhs))) >>]

\* Two subtraces: every row's comparison bit is set, then every one is read.
BitonicTrace(n, tab) ==
    << [k \in 1..n |-> Set(<<"lhs", k - 1>>, CmpBit(Leq(tab[k - 1], Rhs)))],
       [k \in 1..n |-> Get(<<"lhs", k - 1>>, CmpBit(Leq(tab[k - 1], Rhs)))] >>

(* The merge-sort circuit (test_circuit.rs).  Both get_portal_subtraces    *)
(* and generate_constraints walk one layer: segments of                    *)
(* 2^(layers-layer-1) rows, taken two by two; each pair's left and right   *)
(* segments read sorted_indices (the identity of new(), never updated) and *)
(* the shipdate of each row, are merged, and the merged row indices are    *)
(* set at merged_indices_{pair}_{i}.  Only the comparison differs.         *)
MergeRun(tab, from, len) == [k \in 1..len |-> <<tab[from + k - 1], from + k - 1>>]

MergeLayerOps(n, tab, layer, side) ==
    LET seg    == 2^(MergeSortNumSubcircuits(n) - layer - 1)
        pairs  == ((n + seg - 1) \div seg) \div 2
        Merged(p) ==
            LET rightStart == 2 * p * seg + seg
                rightEnd   == IF rightStart + seg < n THEN rightStart + seg ELSE n
            IN  MergeBy(MergeRun(tab, 2 * p * seg, seg),
                        MergeRun(tab, rightStart, rightEnd - rightStart), side)
        PairOps(p) ==
            [i \in 1..Len(Merged(p)) |-> Set(<<"merged", p, i - 1>>, Merged(p)[i][2])]
    IN  FlattenSeq([p \in 1..pairs |-> PairOps(p - 1)])

\* One subtrace per layer, merged with <=.
MergeTrace(n, tab) ==
    [b \in 1..MergeSortNumSubcircuits(n) |-> MergeLayerOps(n, tab, b - 1, "setup")]

Subtraces(k, n, tab) ==
    CASE k = "multi" -> MultiTrace(n, tab)
      [] k = "single" -> SingleTrace(n, tab)
      [] k = "bitonic" -> BitonicTrace(n, tab)
      [] k = "merge" -> MergeTrace(n, tab)

\* The value a ROM holds for key after the whole trace: its one write.
RomValue(tr, key) ==
    LET sets == {e \in UNION {{s[j] : j \in DOMAIN s} : s \in {tr[b] : b \in DOMAIN tr}} :
                    e.op = "set" /\ e.key = key}
    IN  (CHOOSE e \in sets : TRUE).val

(***************************************************************************)
(* The portal calls generate_constraints(i) makes.  is_cmp(rhs, Less,      *)
(* true) is lhs <= rhs; the multi-tuple word pads the batch with false.   *)
(***************************************************************************)
\* A variant comparing strictly (is_cmp without the equality flag).
MultiProverOpsStrict(n, tab, tr, i) ==
    LET start == i * BatchSize
        bits  == [k \in 0..63 |-> k < BatchRows(n, i) /\ tab[start + k] < Rhs]
    IN  << Set(<<"batch", i>>, {k \in 0..63 : bits[k]}) >>

MultiProverOps(n, tab, tr, i) ==
    LET start == i * BatchSize
        bits  == [k \in 0..63 |-> k < BatchRows(n, i) /\ Leq(tab[start + k], Rhs)]
    IN  << Set(<<"batch", i>>, {k \in 0..63 : bits[k]}) >>

\* subcircuit_idx < num_rows always holds (num_subcircuits = num_rows).
SingleProverOps(n, tab, tr, i) == << Set(<<"lhs", i>>, CmpBit(Leq(tab[i], Rhs))) >>

\* Subcircuit i < num_rows compares row i; otherwise it reads every row's
\* comparison bit.
BitonicProverOps(n, tab, tr, i) ==
    IF i < n THEN << Set(<<"lhs", i>>, CmpBit(Leq(tab[i], Rhs))) >>
    ELSE [k \in 1..n |-> Get(<<"lhs", k - 1>>, RomValue(tr, <<"lhs", k - 1>>))]

\* Subcircuit i proves layer i, merged with is_cmp(Less, false).
MergeProverOps(n, tab, tr, i) == MergeLayerOps(n, tab, i, "prover")

ProverOps(k, n, tab, tr, i) ==
    CASE k = "multi" -> MultiProverOps(n, tab, tr, i)
      [] k = "single" -> SingleProverOps(n, tab, tr, i)
      [] k = "bitonic" -> BitonicProverOps(n, tab, tr, i)
      [] k = "merge" -> MergeProverOps(n, tab, tr, i)

VARIABLES
    kind, numRows, shipdate,  \* the circuit and its shipdate column
    trace,                    \* the subtraces get_portal_subtraces returned
    proven                    \* portal calls of each proven subcircuit

vars == <<kind, numRows, shipdate, trace, proven>>

Init ==
    /\ kind \in Kinds
    /\ numRows \in RowCounts
    /\ NumSubcircuits(kind, numRows) <= MaxSubcircuits
    /\ shipdate \in Tables(numRows)
    /\ trace = NoTrace
    /\ proven = [i \in 0..NumSubcircuits(kind, numRows) - 1 |-> NoTrace]

\* Setup: the full, non-split evaluation records the subtraces.
RecordSubtraces ==
    /\ trace = NoTrace
    /\ trace' = Subtraces(kind, numRows, shipdate)
    /\ UNCHANGED <<kind, numRows, shipdate, proven>>

\* A worker builds subcircuit i's constraints against the replayed trace.
ProveSubcircuit(i) ==
    /\ trace # NoTrace
    /\ proven[i] = NoTrace
    /\ proven' = [proven EXCEPT ![i] = ProverOps(kind, numRows, shipdate, trace, i)]
    /\ UNCHANGED <<kind, numRows, shipdate, trace>>

Next ==
    \/ RecordSubtraces
    \/ \E i \in DOMAIN proven : ProveSubcircuit(i)

Spec == Init /\ [][Next]_vars

-----------------------------------------------------------------------------
\* Every proven subcircuit's portal calls are exactly its recorded subtrace,
\* so the ROM prover portal manager accepts them; generate_constraints and
\* get_portal_subtraces compute the same keys and values independently.
ProverFollowsTrace ==
    \A i \in DOMAIN proven :
        proven[i] # NoTrace => i + 1 \in DOMAIN trace /\ proven[i] = trace[i + 1]

\* The recorded trace obeys the ROM discipline (spec.md 8): no key is set
\* twice, and every read follows the set of its key and returns its value.
TraceIsRom ==
    trace # NoTrace =>
        LET flat == [p \in UNION {{<<b, j>> : j \in DOMAIN trace[b]} : b \in DOMAIN trace}
                       |-> trace[p[1]][p[2]]]
            Before(p, q) == p[1] < q[1] \/ (p[1] = q[1] /\ p[2] < q[2])
        IN  /\ \A p, q \in DOMAIN flat :
                   p # q /\ flat[p].op = "set" /\ flat[q].op = "set" => flat[p].key # flat[q].key
            /\ \A q \in DOMAIN flat : flat[q].op = "get" =>
                   \E p \in DOMAIN flat : /\ flat[p].op = "set" /\ Before(p, q)
                                          /\ flat[p].key = flat[q].key
                                          /\ flat[p].val = flat[q].val
================================================================================
