# TLA+ models of distributed-prover

These modules model the file-based distributed SNARK prover in
`src/distributed-prover/src`. They cover the coordinator and worker command-line tools, how those tools pass files to each other, and the pure computations of the circuits that decide how a circuit is split into subcircuits.

## The system

| Part | Code | State | Operations |
|---|---|---|---|
| Coordinator CLI | `bin/test_multi_sort_co.rs` | files in `g16-pk-dir` and `coord-state-dir` (parameters, proving keys, aggregation key, `CoordinatorStage0State`, `FinalAggState`, the final proof) | `gen-keys` (`generate_g16_pks`), `start-stage0` (`begin_stage0`), `start-stage1` (`process_stage0_resps`), `end-proof` (`process_stage1_resps`) |
| Worker CLI | `bin/test-worker.rs` | none of its own; it reads and writes files | `process-stage0-request`, `process-stage1-request` |
| Shared directories | both | one file per subcircuit index: proving key, stage0 request, stage0 response, stage1 request, stage1 response | `serialize_to_path` (overwrites) and `deserialize_from_path(..).unwrap()` (panics if the file is missing) |
| Circuits | `test_circuit.rs` (merge sort, compiled into both binaries), `muti_tuple_filter_circuit.rs`, `single_tuple_filter_circuit.rs`, `test_circuit copy.rs` (bitonic TPC-H) | table, right-hand comparison value, sorted indices | `num_subcircuits`, `representative_subcircuit`, `get/set_serialized_witnesses`, `generate_constraints` |
| Library (not under `src/`) | coordinator, worker, aggregation, portal manager | | modelled from `spec.md` |
| `tpch/tpch_1.rs` | | | entirely commented out |

### How the parts interact

An operator runs the commands in this order:

1. `gen-keys`
2. `start-stage0`
3. N × `process-stage0-request`
4. `start-stage1`
5. N × `process-stage1-request`
6. `end-proof`

No process talks to another directly: each one only reads and writes files in the shared directories.

What makes this hard:

- **Worker calls overlap everything.** They can run at the same time as each other and as coordinator commands.
- **Worker calls can be lost or repeated.** A call may die, or a timed-out call may be retried.
- **Commands can crash halfway.** `start-stage0` and `start-stage1` write many files and may die partway through.
- **A rerun leaves earlier files in place.** Rerunning `start-stage0` keeps the previous responses; they stay valid only because `rand()` is `new()`, so the rerun reissues the same requests.
- **Commitments are random.** `thread_rng` in the worker means a re-run produces a different commitment.
- **Index ranges can disagree.** The coordinator hardcodes its index range, and the circuit computes its own.

## Modules

| Module | Models |
|---|---|
| `CircuitSplitting` | Pure operators, each translated from its source function:<br>• subcircuit counts: `(num_rows+63)/64` in the coordinator and the filter, and the halving loop of merge sort (`RECURSIVE HalvingLayers`);<br>• the constraint shape of each subcircuit;<br>• `representative_subcircuit` and `get_unique_subcircuits` of both filters;<br>• the first/middle/last key layout of `generate_g16_pks` (`PkSource`).<br>• the merge loop of merge sort (`MergeBy`), and the count of `is_cmp` gadgets that `generate_constraints` allocates per pair and per layer (`MergeComparisons`, `MergeLayerComparisons`).<br>`CeilLog2` is the reference definition that the halving loop is checked against. |
| `BitonicSort` | The sorting gadgets of the bitonic circuit, as pure operators:<br>• `BitonicSortGadget::construct`: zero padding to the next power of two, the compare-exchange passes (`CompareExchange`, `Passes`, `Network`), and the truncation to `n` rows (`Construct`);<br>• `SortedCheckGadget` (`LessOrEqualRows`, `SortedCheck`).<br>A row is its two sort keys plus a tag standing for its other columns. |
| `MCSplitting` | Checks the operators of `CircuitSplitting` for every row count 2..200, the row counts that `gen_test_circuit_params` accepts (it asserts `num_rows > 1`). For row counts up to 5, it also checks the merge of `CircuitSplitting` and the gadgets of `BitonicSort` on every table over sort keys {0, 1}. |
| `ProverPipeline` | The CLI pipeline. See below. |
| `MCProverPipeline` | Instantiates the pipeline with the multi-tuple filter's split (200 rows: 4 subcircuits, two of which share the middle key, and a partial last batch). The violation run `pipeline_late_retry` uses 150 rows (3 subcircuits) and `MaxFaults = 2`, which are enough to reach it. |
| `StagedCoordinator` | Abstract contract from `spec.md` §4.2 and §5: `Uninitialized → Stage0Ready → Stage1Ready → Aggregated`. Commitments are fixed when the challenge is derived, and the aggregate exists only once every subcircuit has been proven against those fixed commitments. |
| `PortalTrace` | Portal traces. At setup, `get_portal_subtraces` runs a ROM setup portal manager over the whole circuit and records one subtrace per subcircuit. When subcircuit i is proven, `generate_constraints(i)` issues its own `pm.set`/`pm.get` calls to a ROM prover portal manager that replays subtrace i. The portal manager is library code, modelled from `spec.md` §4.1: it accepts the calls only if they are that subtrace's entries, in order, with the same values. Covers the two filters, the bitonic circuit and the merge sort. For the merge sort, `MergeLayerOps` is the per-layer loop that both functions share; `MergeBy` (in `CircuitSplitting`) is the two-way merge, and only its comparison differs between them.<br>A multi-tuple comparison word is modelled as the set of its one bits. A portal key is modelled as the pair (prefix, index) that `format!` builds it from. |
| `WitnessSerialization` | One witness hand-off: `get_serialized_witnesses` on the full circuit, then `set_serialized_witnesses` on a fresh `new()` circuit, for the single-tuple filter, the multi-tuple filter and the bitonic circuit. |

### ProverPipeline

**State.** There is one variable per file kind. Each is a function from subcircuit index to the file, or to `NoFile` if it does not exist. In addition:

- `running0` and `running1` hold the inputs that a worker call has read but not yet answered;
- `faults` counts crashes, lost calls and duplicate calls;
- `stage` records how far the operator has got.

**Actions.**

- Each coordinator command is one action, containing everything the command does. A command's guard is that every file it unwraps exists.
- `GenKeys` also models the panic of `gen_pk(1)` when there is only one subcircuit.
- `BeginStage0Crash` and `ProcessStage0RespsCrash` model a command that dies after writing only some of its files.
- Each worker command is split in two:
  - `Stage0Begin` / `Stage1Begin` read the inputs;
  - `Stage0End` / `Stage1End` compute and overwrite the response.
  This split lets a call read a file before a concurrent command rewrites it.
- `WorkerLost` is a call that dies before writing.
- A call for an index that already has a response is a duplicate (a retry).
- The model value `Circuits` is the witness that `start-stage0` takes from `rand()`. In every circuit the binaries can be built with, `rand()` returns `new()` (`test_circuit.rs:79-81`, `muti_tuple_filter_circuit.rs:107-109`), so every run gives `Circuits` one value, and a rerun of `start-stage0` reissues the same requests.
- `Rand` is the worker's commitment randomness.
- The proof statement (`ProofOf`, `ValidProof`, `Verifies`) comes from the library's interface in `spec.md`. A proof is sound only if:
  - its witness opens its commitment;
  - it was made with the key of its own shape;
  - it is bound to the commitments from which the challenge was derived.

**The operator.** `OrchestratorDrains` says whether the operator waits for every worker call of a stage to finish before promoting, and issues no more calls of that stage afterwards. The code does not enforce this, so it is a constant and both values are checked.

**Refinement.** `CoordinatorRefinement` instantiates `StagedCoordinator` with this mapping:

- stage 0 is open once a request or the stage-0 state exists;
- the fixed commitments are those in the first stage-1 request or the final aggregation state;
- an index is proven when its stage-1 response is valid against those commitments.

## Runs

| Run | Result | Shows |
|---|---|---|
| `pipeline_correct` (`MCProverPipeline.cfg`) | pass, 42301 states | With a draining operator, and despite up to three crashes, lost calls or duplicate calls:<br>• every saved proof verifies (`ProofVerifies`);<br>• the pipeline implements `StagedCoordinator` (`CoordinatorRefinement`);<br>• if the operator retries each command and call until it succeeds, a verifying proof is eventually saved (`EventuallyProof`). |
| `pipeline_late_retry` | violation | A stage-0 retry that lands after `start-stage1` re-commits with new randomness, so the proof fails. |
| `splitting_pass` | pass | The merge-sort layer count equals ceil(log2 n). The key layout fits every batch shape of the filter. The merge loop of the merge-sort setup trace (`MergeBy` with `<=`) is the stable sort of two sorted segments: checked against that reference definition for segments of up to 3 rows with tied keys. The bitonic network sorts every padded table (a reordering, in order), and what `construct` returns always satisfies `SortedCheckGadget`'s constraints. |
| `splitting_indexing` (`MCSplitting_indexing.cfg`, rows = 2) | violation at 2 rows | `SubcircuitIndexingConsistent` has seven conjuncts. Each was also checked on its own, and the two indexing runs pick a row count where the conjuncts of their findings fail in the traced state. At 2 rows:<br>• the merge sort has one subcircuit, but `gen-keys` proves subcircuit 1, so it panics after saving the parameters (`GenKeysIndicesExist`; `ProverPipeline`'s `GenKeys` models that step);<br>• the multi-tuple filter lists subcircuit 3 as unique, which exists only from 193 rows (`BatchedUniqueSubcircuitsExist`);<br>• the single-tuple filter maps its last subcircuit to the nonexistent representative 3, for 2 or 3 rows (`SingleRepresentativesAreUnique`). |
| `splitting_shapes` (`MCSplitting_shapes.cfg`, rows = 129) | violation at 129 rows | The same property at 129 rows, where:<br>• the coordinator's `(num_rows+63)/64` = 3 differs from the merge sort's 8 layers (`CoordinatorRangeMatchesCircuit`, first at 3 rows);<br>• the first/middle/last key layout gives merge layers 2..6 the key of layer 1, another shape (`MergeKeysMatchShapes`, first at 9 rows);<br>• a merge layer's shape depends on its data (`MergeShapeIsDataIndependent`, first at 3 rows). `generate_constraints` advances the merge on the witness value `is_left_smaller.value()` and allocates one `is_cmp` per iteration. At 3 rows, layer 0 allocates 1 comparison on a constant key column (the tie takes the right row, which exhausts that side) and 2 on the column 0, 1, 1. spec.md 4.1 and 8 require one constraint structure per shape, so a key generated from `new()`'s constant table fits no other table;<br>• the multi-tuple `representative_subcircuit` maps the partial last batch to a full batch (`BatchedRepresentativeSharesShape`, first at 129 rows);<br>• subcircuit 3 still does not exist. |
| `witness_filters` | pass | The witness round trip is exact for both filters, for 1..140 rows, including partial batches. |
| `witness_bitonic` | violation from 1 row (TLC reports the first row count it reaches, 1 or 2) | The bitonic round trip repeats the first field and drops `right_shipdate`. |
| `portal_filters` | pass | For both filters, every subcircuit's portal calls equal its recorded subtrace (`ProverFollowsTrace`). This includes partial batches, padding bits, and shipdates equal to `right_shipdate`. The ROM discipline (`TraceIsRom`) is not checked for the filters: their traces only set keys that include the subcircuit index, so it would hold by the key format alone. |
| `portal_bitonic` | violation at 2 rows | The bitonic subcircuits' portal calls differ from the recorded subtraces. Subtrace 0 sets every row's bit, but subcircuit 0 sets only row 0's. |
| `portal_merge_replay` | violation at 2 rows | On the table `new()` builds (every cell 12, which is also what `rand()` returns), the merge-sort subcircuit's portal calls differ from its subtrace. `get_portal_subtraces` merges with `<=` and takes the left row on a tie. `generate_constraints` uses `is_cmp(Less, false)` and takes the right one. Every pair ties on that table, so the circuit the CLI uses cannot be proven. |
| `portal_merge_keys` | violation at 7 rows | `merged_indices_{pair}_{i}` does not name the layer, so every layer sets the earlier layers' keys again. At 7 rows of `new()`'s table, layer 1 sets `merged_indices_1_0 = 4` and layer 2 sets it to 2. |
| `bitonic_truncation` | violation at 3 rows | `BitonicSortGadget::construct` pads with zero rows, sorts, and keeps the first `n`. The comment says this removes the padding, but the zero rows sort first, so the table's largest rows are dropped. `SortedCheckGadget` accepts the result because it is ordered. In this file only tables of at most one row reach the gadget, because `num_subcircuits` is fixed at 2. With the split that its comment describes, every row count that is not a power of two would lose rows. |

Each property of a passing run has a mutant in `PROJECT.json`: a bug variant defined in the module next to the definition it replaces, which breaks the property.

### Bounds

**Pipeline runs.**

- 200 rows gives 4 subcircuits: a first batch, two middle batches and a partial last batch of 8 rows. That covers all three key slots, a middle key shared by two indices, and a last shape that differs from the middle.
- `MaxFaults = 3` allows three independent failures, such as a crash, a lost call and a duplicate call in one behaviour.
- Two randomness values are enough to tell a re-commitment apart.
- One circuit value, since `rand()` is `new()`.

**Splitting runs.** Row counts reach 200, past three batch boundaries and several powers of two. The two indexing runs each check one row count, 2 and 129, at which the conjuncts of their findings fail. The sorting checks enumerate every table of up to 5 rows with both sort keys in {0, 1}; that is 4^n tables of n rows. Five rows pad to 8 and run all three levels of the network. The merge layers' comparison counts are compared over the sorted key columns of 0s then 1s, one per split point; the all-1 column is a constant table like `new()`'s. The key 0 is the padding's value, so table rows tie with padding rows.

**Witness runs.** Row counts reach 140, past two batch boundaries.

**Portal runs.**

- Row counts are 1–4 and 63, 64, 65 and 129. That covers both sides of two batch boundaries.
- `MaxSubcircuits = 4` keeps the 2^N orders in which subcircuits are proven small.
- Shipdates are 11, 12 and 13, with `right_shipdate = 12`. Each table has one row that differs from the rest, so every position meets a tie, a smaller value and a larger value.
- The merge runs use the one table the CLI builds, every cell 12. They need 2 rows (the first tie) and 7 rows (the first conflicting reuse of a key).

### Fairness

The operator is assumed to keep running each command of the documented order, and each worker call it needs, until that step succeeds. This is weak fairness on `GenKeys`, `BeginStage0`, `ProcessStage0Resps`, `ProcessStage1Resps` and the begin and end step of each worker call.

Crash, loss and duplicate actions get no fairness: they are faults, and `MaxFaults` bounds them.

## Not modelled, and the plan

- **Merge-sort data flow between layers.** Each layer reads `sorted_indices`, which neither `get_portal_subtraces` nor `generate_constraints` updates. The model keeps the identity of `new()`. Whether `set_serialized_witnesses` was meant to carry one layer's output into the next cannot be modelled, because that function does not compile.
- **RAM portal discipline.** No circuit in `src/` uses it.
- **Merge-sort witness serialization.** It does not compile (`test_circuit.rs:167`), and it reads data that `get_serialized_witnesses` never writes.
- **Bitonic circuit's `rand()`.** It fills the sort keys with uniform field elements, and `is_cmp` rejects those above (p-1)/2. Field elements near the modulus are out of TLC's reach.
- **A `gen-keys` rerun between stages.** Each run samples fresh Groth16 keys and a fresh TIPA setup, so a rerun after `start-stage0` would mix two key generations. Modelling it needs a key generation in every key, commitment and proof record, and a violation run of its own. It is not part of this project.
- **`tpch/tpch_1.rs`.** The file is entirely commented out.
- **Worker argument parsing.** The parsing in `test-worker.rs:1-67` holds no state.
- **Field arithmetic, Groth16, KZG and TIPA.** These are abstracted to the records above; they are out of TLC's reach.
