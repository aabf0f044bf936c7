----------------------------- MODULE BitonicSort -----------------------------
(***************************************************************************)
(* The sorting gadgets of the bitonic TPC-H circuit (test_circuit copy.rs),*)
(* which subcircuit 1 runs over the whole lineitem table: the rows are    *)
(* sorted on returnflag and linestatus by BitonicSortGadget::construct,   *)
(* and SortedCheckGadget constrains the result to be ordered.             *)
(*                                                                         *)
(* A row is <<returnflag, linestatus, rest>>: the two sort keys, and rest *)
(* standing for the other columns (the row index for a table row).  The   *)
(* padding rows construct adds are FpVar::constant(F::zero()) in every     *)
(* column, so they are <<0, 0, 0>> and equal to one another.  A table is a *)
(* function from 0..n-1 (the Vec index) to rows.                           *)
(***************************************************************************)
EXTENDS Integers, Sequences, FiniteSets
LOCAL INSTANCE SequencesExt

Padding == <<0, 0, 0>>

(* compare_rows: row a is strictly smaller than row b on the sort keys     *)
(* taken in order (returnflag, then linestatus); is_cmp(Less, false).      *)
CompareRows(a, b) == a[1] < b[1] \/ (a[1] = b[1] /\ a[2] < b[2])

(* n.next_power_of_two(), and trailing_zeros of a power of two.            *)
NextPow2(n) == CHOOSE p \in {2^k : k \in 0..n} : p >= n /\ (p = 1 \/ p \div 2 < n)
Log2(p) == CHOOSE k \in 0..p : 2^k = p

(* i & p # 0 for p a power of two.                                         *)
BitSet(i, p) == (i \div p) % 2 = 1

(* One (k_pow, j_pow) pass of the i loop.  Every i with l = i ^ j_pow > i  *)
(* meets its partner l once; the pair is kept when compare_rows(current[i],*)
(* current[l]) holds in an ascending block ((i & k_pow) = 0) or            *)
(* compare_rows(current[l], current[i]) holds in a descending one, and is  *)
(* swapped by the two conditionally_select calls otherwise.  The pairs are *)
(* disjoint, so the sequential loop equals this simultaneous update.       *)
CompareExchange(cur, kp, jp) ==
    [i \in DOMAIN cur |->
        LET l    == IF BitSet(i, jp) THEN i - jp ELSE i + jp
            lo   == IF BitSet(i, jp) THEN l ELSE i
            hi   == IF BitSet(i, jp) THEN i ELSE l
            keep == IF BitSet(lo, kp) THEN CompareRows(cur[hi], cur[lo])
                    ELSE CompareRows(cur[lo], cur[hi])
        IN  IF keep THEN cur[i] ELSE cur[l]]

(* Bug variant of Passes: the j loop runs upwards instead of in reverse.  *)
PassesUpwards(logP) ==
    FlattenSeq([k \in 1..logP |-> [t \in 1..k |-> <<2^k, 2^(t - 1)>>]])

(* The (k_pow, j_pow) passes: k in 1..=trailing_zeros, j in (0..k).rev().  *)
Passes(logP) ==
    FlattenSeq([k \in 1..logP |-> [t \in 1..k |-> <<2^k, 2^(k - t)>>]])

(* The sorting network over a padded table of 2^logP rows.                 *)
Network(padded, logP) ==
    FoldLeft(LAMBDA cur, pass : CompareExchange(cur, pass[1], pass[2]),
             padded, Passes(logP))

(* BitonicSortGadget::construct: pad to the next power of two with zero    *)
(* rows, return the input itself if that is at most 1, else run the       *)
(* network and keep current[0..n].                                         *)
Construct(input) ==
    LET n      == Cardinality(DOMAIN input)
        p      == NextPow2(n)
        padded == [i \in 0..p-1 |-> IF i < n THEN input[i] ELSE Padding]
    IN  IF p <= 1 THEN input
        ELSE [i \in 0..n-1 |-> Network(padded, Log2(p))[i]]

(* Bug variant of LessOrEqualRows: a < b without the all-equal case.       *)
LessOrEqualRowsStrict(a, b) == CompareRows(a, b)

(* SortedCheckGadget::less_or_equal_rows: a < b, or equal on every key.    *)
LessOrEqualRows(a, b) == CompareRows(a, b) \/ (a[1] = b[1] /\ a[2] = b[2])

(* SortedCheckGadget::generate_constraints: enforce row i <= row i+1 for   *)
(* every i in 0..n-1; true when those constraints are satisfied.          *)
SortedCheck(values) ==
    \A i \in DOMAIN values : i + 1 \in DOMAIN values => LessOrEqualRows(values[i], values[i + 1])

(* The rows of a table, counted with multiplicity.                          *)
RowBag(tab) == ToBag([i \in 1..Cardinality(DOMAIN tab) |-> tab[i - 1]])
================================================================================
