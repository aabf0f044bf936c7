------------------------- MODULE WitnessSerialization -------------------------
(***************************************************************************)
(* The witness hand-off of a subcircuit: the party holding the full        *)
(* circuit calls get_serialized_witnesses(idx), the bytes travel, and the  *)
(* party proving subcircuit idx calls set_serialized_witnesses(idx, bytes) *)
(* on a circuit it built with new().  The contract of CircuitWithPortals   *)
(* is that afterwards the receiver holds every witness subcircuit idx     *)
(* reads.                                                                  *)
(*                                                                         *)
(* A field element is abstracted to a single byte-sequence entry, so a     *)
(* slice [k*field_size .. (k+1)*field_size] is entry k+1.  The sender's   *)
(* witnesses are symbolic and pairwise distinct (row, column), which is    *)
(* the most demanding table: any misplaced or repeated entry shows.        *)
(*                                                                         *)
(* Kinds: "multi" = muti_tuple_filter_circuit.rs (64 rows per subcircuit), *)
(* "single" = single_tuple_filter_circuit.rs (one row per subcircuit),     *)
(* "bitonic" = test_circuit copy.rs (subcircuit 0 carries the table).      *)
(* test_circuit.rs (merge sort) is left out: its set_serialized_witnesses *)
(* does not compile (line 167).                                            *)
(***************************************************************************)
EXTENDS Integers, Sequences, CircuitSplitting

CONSTANTS
    Kinds,      \* the circuits checked, a subset of {"multi","single","bitonic"}
    MaxRows     \* bound on params.num_rows

Columns == 0..6                 \* the seven lineitem columns

\* Abstract field elements.  Sender data is <<row, column>>; constants are
\* tagged with a negative first component so that all of them are distinct.
Zero   == <<-1, 0>>
One    == <<-1, 1>>
F12    == <<-1, 12>>
F13    == <<-1, 13>>
RhsVal == <<-2, 0>>             \* the sender's right_shipdate

\* The sender's circuit: every witness distinct.
SenderTable(n) == [i \in 0..n-1 |-> [c \in Columns |-> <<i, c>>]]

\* ZkDbSqlCircuit::new of each kind: the receiver's starting point.
NewFill(kind) ==
    CASE kind = "multi" -> F13 [] kind = "single" -> One [] kind = "bitonic" -> Zero
NewTable(kind, n) == [i \in 0..n-1 |-> [c \in Columns |-> NewFill(kind)]]
NewRhs(kind) == IF kind = "bitonic" THEN Zero ELSE F12

NumSubcircuits(kind, n) ==
    CASE kind = "multi"   -> BatchedNumSubcircuits(n)
      [] kind = "single"  -> n
      [] kind = "bitonic" -> 2

VARIABLES
    kind, numRows, idx, \* the circuit, its params.num_rows, the subcircuit
    bytes,              \* the serialized witnesses in transit
    table, rhs,         \* the receiver's lineitem_table and right_shipdate
    phase               \* "get", "set", "done"

vars == <<kind, numRows, idx, bytes, table, rhs, phase>>

(***************************************************************************)
(* get_serialized_witnesses of each kind, applied to the sender's circuit. *)
(***************************************************************************)
MultiGet(n, i) ==
    LET start == i * BatchSize
    IN  [k \in 1..BatchRows(n, i) |-> SenderTable(n)[start + k - 1][6]] \o <<RhsVal>>

SingleGet(n, i) == << SenderTable(n)[i][6], RhsVal >>

\* Subcircuit 0 writes every field of every row, row by row; right_shipdate
\* is not written (its line is commented out).  Other subcircuits write nothing.
BitonicGet(n, i) ==
    IF i = 0 THEN [k \in 1..7*n |-> SenderTable(n)[(k-1) \div 7][(k-1) % 7]]
    ELSE << >>

GetSerialized(k, n, i) ==
    CASE k = "multi" -> MultiGet(n, i)
      [] k = "single" -> SingleGet(n, i)
      [] k = "bitonic" -> BitonicGet(n, i)

(***************************************************************************)
(* set_serialized_witnesses of each kind: the receiver's new table and     *)
(* right_shipdate, as a record.                                            *)
(***************************************************************************)
\* A variant that writes the batch at the top of the table.
MultiSetAtZero(tab, r, n, i, b) ==
    LET num == BatchRows(n, i)
    IN  [table |-> [j \in DOMAIN tab |->
                      IF j < num THEN [tab[j] EXCEPT ![6] = b[j + 1]] ELSE tab[j]],
         rhs   |-> b[num + 1]]

MultiSet(tab, r, n, i, b) ==
    LET start == i * BatchSize
        num   == BatchRows(n, i)
    IN  [table |-> [j \in DOMAIN tab |->
                      IF j \in start..start+num-1
                      THEN [tab[j] EXCEPT ![6] = b[j - start + 1]]
                      ELSE tab[j]],
         rhs   |-> b[num + 1]]

SingleSet(tab, r, n, i, b) ==
    [table |-> [tab EXCEPT ![i][6] = b[1]], rhs |-> b[2]]

\* Subcircuit 0 clears the table and rebuilds num_rows rows, every field
\* deserialized from the start of bytes (the slice never advances).
BitonicSet(tab, r, n, i, b) ==
    IF i = 0 THEN [table |-> [j \in 0..n-1 |-> [c \in Columns |-> b[1]]], rhs |-> r]
    ELSE [table |-> tab, rhs |-> r]

SetSerialized(k, tab, r, n, i, b) ==
    CASE k = "multi" -> MultiSet(tab, r, n, i, b)
      [] k = "single" -> SingleSet(tab, r, n, i, b)
      [] k = "bitonic" -> BitonicSet(tab, r, n, i, b)

(***************************************************************************)
(* What subcircuit i reads in generate_constraints: (row, column) cells    *)
(* and whether it reads right_shipdate.  A bitonic subcircuit i < num_rows *)
(* compares row i's shipdate; otherwise it reads every field of the table. *)
(***************************************************************************)
ReadCells(k, n, i) ==
    CASE k = "multi"   -> {<<j, 6>> : j \in i*BatchSize..i*BatchSize + BatchRows(n, i) - 1}
      [] k = "single"  -> {<<i, 6>>}
      [] k = "bitonic" -> IF i < n THEN {<<i, 6>>}
                          ELSE {<<j, c>> : j \in 0..n-1, c \in Columns}
ReadsRhs(k, n, i) == k # "bitonic" \/ i < n

Init ==
    /\ kind \in Kinds
    /\ numRows \in 1..MaxRows
    /\ idx \in 0..NumSubcircuits(kind, numRows) - 1
    /\ bytes = << >>
    /\ table = NewTable(kind, numRows)
    /\ rhs = NewRhs(kind)
    /\ phase = "get"

\* The sender serializes subcircuit idx's witnesses.
GetWitnesses ==
    /\ phase = "get"
    /\ bytes' = GetSerialized(kind, numRows, idx)
    /\ phase' = "set"
    /\ UNCHANGED <<kind, numRows, idx, table, rhs>>

\* The receiver loads them into its fresh circuit.
SetWitnesses ==
    /\ phase = "set"
    /\ LET res == SetSerialized(kind, table, rhs, numRows, idx, bytes)
       IN  /\ table' = res.table
           /\ rhs' = res.rhs
    /\ phase' = "done"
    /\ UNCHANGED <<kind, numRows, idx, bytes>>

\* The hand-off ends after SetWitnesses: the process stops there.
Next == GetWitnesses \/ SetWitnesses

Spec == Init /\ [][Next]_vars

-----------------------------------------------------------------------------
\* After set_serialized_witnesses(idx, get_serialized_witnesses(idx)) the
\* receiver holds the sender's value in every cell generate_constraints(idx)
\* reads, and the sender's right_shipdate if it reads that.
WitnessRoundTrip ==
    phase = "done" =>
        /\ \A cell \in ReadCells(kind, numRows, idx) :
               table[cell[1]][cell[2]] = SenderTable(numRows)[cell[1]][cell[2]]
        /\ ReadsRhs(kind, numRows, idx) => rhs = RhsVal
================================================================================
