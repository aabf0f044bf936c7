---------------------------- MODULE ProverPipeline ----------------------------
(***************************************************************************)
(* The file-based proving pipeline of distributed-prover.  The coordinator *)
(* CLI (src/bin/test_multi_sort_co.rs: gen-keys, start-stage0,             *)
(* start-stage1, end-proof) and the worker CLI (src/bin/test-worker.rs:    *)
(* process-stage0-request, process-stage1-request) share directories that  *)
(* hold one file per subcircuit index.  Every CLI call reads its inputs    *)
(* with deserialize_from_path(..).unwrap(), so a missing input is a panic  *)
(* that writes nothing: a call is enabled only when its inputs exist.      *)
(*                                                                         *)
(* Data is abstracted to what decides whether the final proof verifies: a  *)
(* proving key is the index it was generated for, a witness is a model     *)
(* value of Circuits, a commitment records the witness, the key and the    *)
(* randomness the worker's thread_rng drew.  The library calls the CLI     *)
(* makes (process_stage0_request, process_stage0_responses, gen_agg_proof) *)
(* are modelled from their interface in spec.md.                           *)
(*                                                                         *)
(* The operator who runs the commands is the environment: `stage` is the   *)
(* step of the documented command order the operator has reached.         *)
(***************************************************************************)
EXTENDS Integers, FiniteSets, CircuitSplitting

CONSTANTS
    NumRows,            \* num_rows given to gen-keys
    CircN,              \* num_subcircuits() of the circuit type compiled in
    Shape(_),           \* the constraint shape of subcircuit idx
    Circuits,           \* the witnesses CircuitWithPortals::rand can return (one: rand() is new())
    Rand,               \* commitment randomness a worker's thread_rng can draw
    OrchestratorDrains, \* TRUE: a stage is promoted only when no worker call
                        \* of it runs, and none is issued after promotion
    MaxFaults,          \* bound on crashes, lost and duplicated worker calls
    NoFile              \* model value: the file does not exist

ASSUME NumRows > 1 /\ CircN \in Nat /\ OrchestratorDrains \in BOOLEAN
ASSUME MaxFaults \in Nat

VARIABLES
    stage,      \* the operator's place in the command order
    params,     \* circuit parameter file exists (coord-state-dir)
    pk,         \* g16-pk-dir: the proving key file of each index
    aggck,      \* coord-state-dir: the aggregation key
    s0req,      \* req-dir: stage0 request of each index
    s0state,    \* coord-state-dir: CoordinatorStage0State
    s0resp,     \* resp-s0: stage0 response (commitment) of each index
    s1req,      \* req-dir: stage1 request of each index
    aggstate,   \* coord-state-dir: FinalAggState
    s1resp,     \* resp-s1: stage1 response (Groth16 proof) of each index
    proof,      \* coord-state-dir: the aggregated proof
    running0,   \* inputs read by a stage0 worker call still running
    running1,   \* inputs read by a stage1 worker call still running
    faults      \* crashes, losses and duplicates so far

vars == <<stage, params, pk, aggck, s0req, s0state, s0resp, s1req, aggstate,
          s1resp, proof, running0, running1, faults>>

(* The index range of the coordinator's stage loops, and every index a     *)
(* file may exist for.                                                     *)
CoordN   == CoordinatorNumSubcircuits(NumRows)
CoordIdx == 0..CoordN-1
CircIdx  == 0..CircN-1
Idx      == 0..((IF CircN > CoordN THEN CircN ELSE CoordN) - 1)

Stages     == {"setup", "keyed", "stage0", "stage1", "final"}
PkFile     == [src : CircIdx]
Commitment == [circ : Circuits, src : CircIdx, rnd : Rand]
Req0       == [circ : Circuits]
Req1       == [circ : Circuits, coms : [CoordIdx -> Commitment]]
Proof1     == [src : CircIdx, com : Commitment,
               coms : [CoordIdx -> Commitment], sound : BOOLEAN]
AggKey     == [src : [CircIdx -> CircIdx]]

-----------------------------------------------------------------------------
(* Bug variant of ProofOf: the proof takes the stage0 request where the    *)
(* stage0 response belongs.  Substituting it must break TypeOK.            *)
ProofOfRequest(in) ==
    [src   |-> in.pk.src,
     com   |-> in.req0,
     coms  |-> in.req1.coms,
     sound |-> in.req1.circ = in.req0.circ]

(* The statement a stage1 worker proves from the files it read: the key of *)
(* its index, its stage0 request and response, and its stage1 request.    *)
(* The Groth16 proof is sound only if the witness opens the commitment     *)
(* (same witness, same committing key) and the portal values it reads      *)
(* agree with every subcircuit's commitment (one witness throughout).      *)
ProofOf(in) ==
    [src   |-> in.pk.src,
     com   |-> in.resp0,
     coms  |-> in.req1.coms,
     sound |-> /\ in.resp0.circ = in.req0.circ
               /\ in.req1.circ = in.req0.circ
               /\ in.resp0.src = in.pk.src
               /\ \A j \in DOMAIN in.req1.coms :
                     in.req1.coms[j].circ = in.req1.circ]

(* A stage1 response for index i that verifies against the commitments   *)
(* coms: sound, made with a key of i's shape, opening i's commitment and   *)
(* bound to the global commitment.                                         *)
ValidProof(i, p, coms) ==
    /\ p.sound
    /\ Shape(p.src) = Shape(i)
    /\ i \in DOMAIN coms
    /\ p.com = coms[i]
    /\ p.coms = coms

(* Verification of the aggregated proof (spec 4.4): one proof per          *)
(* subcircuit the aggregation key was built for, each valid against the    *)
(* commitments stage0 fixed and made with the key the aggregation key      *)
(* expects for its index.                                                  *)
Verifies(p) ==
    /\ DOMAIN p.proofs = DOMAIN p.key.src
    /\ \A i \in DOMAIN p.proofs :
          /\ ValidProof(i, p.proofs[i], p.coms)
          /\ p.proofs[i].src = p.key.src[i]

-----------------------------------------------------------------------------
Init ==
    /\ stage    = "setup"
    /\ params   = FALSE
    /\ pk       = [i \in Idx |-> NoFile]
    /\ aggck    = NoFile
    /\ s0req    = [i \in Idx |-> NoFile]
    /\ s0state  = NoFile
    /\ s0resp   = [i \in Idx |-> NoFile]
    /\ s1req    = [i \in Idx |-> NoFile]
    /\ aggstate = NoFile
    /\ s1resp   = [i \in Idx |-> NoFile]
    /\ proof    = NoFile
    /\ running0 = [i \in Idx |-> NoFile]
    /\ running1 = [i \in Idx |-> NoFile]
    /\ faults   = 0

(* Bug variant of GenKeys: the key of the last index is never saved.       *)
(* Substituting it must break EventuallyProof.                             *)
GenKeysWithoutLastKey ==
    /\ stage = "setup"
    /\ params' = TRUE
    /\ IF CircN >= 2
       THEN /\ pk' = [i \in Idx |->
                        IF i \in 0..CircN-2 THEN [src |-> PkSource(CircN, i)]
                        ELSE pk[i]]
            /\ aggck' = [src |-> [i \in CircIdx |-> PkSource(CircN, i)]]
            /\ stage' = "keyed"
       ELSE UNCHANGED <<pk, aggck, stage>>
    /\ UNCHANGED <<s0req, s0state, s0resp, s1req, aggstate, s1resp, proof,
                   running0, running1, faults>>

(* gen-keys: save the parameters, then generate_g16_pks: prove keys for    *)
(* indices 0, 1 and N-1, store them first/middle/last, and build the      *)
(* aggregation key from a TIPA setup of size N and the same pk_fetcher.    *)
(* With one subcircuit gen_pk(1) panics after the parameters were saved.   *)
GenKeys ==
    /\ stage = "setup"
    /\ params' = TRUE
    /\ IF CircN >= 2
       THEN /\ pk' = [i \in Idx |->
                        IF i \in CircIdx THEN [src |-> PkSource(CircN, i)]
                        ELSE pk[i]]
            /\ aggck' = [src |-> [i \in CircIdx |-> PkSource(CircN, i)]]
            /\ stage' = "keyed"
       ELSE UNCHANGED <<pk, aggck, stage>>
    /\ UNCHANGED <<s0req, s0state, s0resp, s1req, aggstate, s1resp, proof,
                   running0, running1, faults>>

(* start-stage0 (begin_stage0): sample a circuit, write one stage0 request *)
(* per index of (num_rows+63)/64, then the coordinator state.  The        *)
(* operator may rerun it (abandoning stage 0) until stage 1 starts.        *)
BeginStage0 ==
    /\ stage \in {"keyed", "stage0"}
    /\ params
    /\ \E c \in Circuits :
          /\ s0req' = [i \in Idx |-> IF i \in CoordIdx THEN [circ |-> c]
                                     ELSE s0req[i]]
          /\ s0state' = [circ |-> c]
    /\ stage' = "stage0"
    /\ UNCHANGED <<params, pk, aggck, s0resp, s1req, aggstate, s1resp, proof,
                   running0, running1, faults>>

(* start-stage0 dies while the requests are being written in parallel:     *)
(* some requests of the new circuit exist, the coordinator state does not. *)
BeginStage0Crash ==
    /\ stage \in {"keyed", "stage0"}
    /\ params
    /\ faults < MaxFaults
    /\ \E c \in Circuits, written \in SUBSET CoordIdx :
          s0req' = [i \in Idx |-> IF i \in written THEN [circ |-> c]
                                  ELSE s0req[i]]
    /\ stage' = "stage0"
    /\ faults' = faults + 1
    /\ UNCHANGED <<params, pk, aggck, s0state, s0resp, s1req, aggstate,
                   s1resp, proof, running0, running1>>

(* Whether the operator may issue or let finish a worker call of stage s.  *)
WorkerCallAllowed(s) == stage = s \/ ~OrchestratorDrains

(* A call for an index that already has a response is a duplicate (a      *)
(* retry after a timeout); duplicates are bounded by MaxFaults.            *)
CountCall(resp) ==
    IF resp = NoFile THEN UNCHANGED faults
    ELSE faults < MaxFaults /\ faults' = faults + 1

(* process-stage0-request, first half: read the proving key and the stage0 *)
(* request of index i (the request's index equals i by construction).     *)
Stage0Begin(i) ==
    /\ WorkerCallAllowed("stage0")
    /\ running0[i] = NoFile
    /\ pk[i] # NoFile /\ s0req[i] # NoFile
    /\ CountCall(s0resp[i])
    /\ running0' = [running0 EXCEPT ![i] = [pk |-> pk[i], req0 |-> s0req[i]]]
    /\ UNCHANGED <<stage, params, pk, aggck, s0req, s0state, s0resp, s1req,
                   aggstate, s1resp, proof, running1>>

(* process-stage0-request, second half: commit to the witness under the    *)
(* key with fresh randomness and overwrite the response file of index i.   *)
Stage0End(i) ==
    /\ running0[i] # NoFile
    /\ \E r \in Rand :
          s0resp' = [s0resp EXCEPT ![i] = [circ |-> running0[i].req0.circ,
                                           src  |-> running0[i].pk.src,
                                           rnd  |-> r]]
    /\ running0' = [running0 EXCEPT ![i] = NoFile]
    /\ UNCHANGED <<stage, params, pk, aggck, s0req, s0state, s1req, aggstate,
                   s1resp, proof, running1, faults>>

(* start-stage1 (process_stage0_resps): read the state, the aggregation    *)
(* key and every stage0 response of 0..(num_rows+63)/64-1, fix them in the *)
(* global commitment and its challenge, write one stage1 request per index *)
(* and then the final aggregation state.  Rerun after a crash.            *)
ProcessStage0Resps ==
    /\ stage \in {"stage0", "stage1"}
    /\ params /\ s0state # NoFile /\ aggck # NoFile
    /\ \A i \in CoordIdx : s0resp[i] # NoFile
    /\ OrchestratorDrains => \A i \in Idx : running0[i] = NoFile
    /\ LET coms == [i \in CoordIdx |-> s0resp[i]]
       IN  /\ s1req' = [i \in Idx |->
                          IF i \in CoordIdx
                          THEN [circ |-> s0state.circ, coms |-> coms]
                          ELSE s1req[i]]
           /\ aggstate' = [coms |-> coms]
    /\ stage' = "stage1"
    /\ UNCHANGED <<params, pk, aggck, s0req, s0state, s0resp, s1resp, proof,
                   running0, running1, faults>>

(* start-stage1 dies while writing the stage1 requests: some exist, the    *)
(* final aggregation state does not.                                       *)
ProcessStage0RespsCrash ==
    /\ stage \in {"stage0", "stage1"}
    /\ params /\ s0state # NoFile /\ aggck # NoFile
    /\ \A i \in CoordIdx : s0resp[i] # NoFile
    /\ OrchestratorDrains => \A i \in Idx : running0[i] = NoFile
    /\ faults < MaxFaults
    /\ \E written \in SUBSET CoordIdx :
          s1req' = [i \in Idx |->
                      IF i \in written
                      THEN [circ |-> s0state.circ,
                            coms |-> [j \in CoordIdx |-> s0resp[j]]]
                      ELSE s1req[i]]
    /\ stage' = "stage1"
    /\ faults' = faults + 1
    /\ UNCHANGED <<params, pk, aggck, s0req, s0state, s0resp, aggstate,
                   s1resp, proof, running0, running1>>

(* process-stage1-request, first half: read the key, the stage0 request    *)
(* and response, and the stage1 request of index i.                        *)
Stage1Begin(i) ==
    /\ WorkerCallAllowed("stage1")
    /\ running1[i] = NoFile
    /\ pk[i] # NoFile /\ s0req[i] # NoFile
    /\ s0resp[i] # NoFile /\ s1req[i] # NoFile
    /\ CountCall(s1resp[i])
    /\ running1' = [running1 EXCEPT ![i] = [pk |-> pk[i], req0 |-> s0req[i],
                                            resp0 |-> s0resp[i],
                                            req1 |-> s1req[i]]]
    /\ UNCHANGED <<stage, params, pk, aggck, s0req, s0state, s0resp, s1req,
                   aggstate, s1resp, proof, running0>>

(* process-stage1-request, second half: prove and write the response.      *)
Stage1End(i) ==
    /\ running1[i] # NoFile
    /\ s1resp' = [s1resp EXCEPT ![i] = ProofOf(running1[i])]
    /\ running1' = [running1 EXCEPT ![i] = NoFile]
    /\ UNCHANGED <<stage, params, pk, aggck, s0req, s0state, s0resp, s1req,
                   aggstate, proof, running0, faults>>

(* A worker process dies before writing its response: the call is lost.    *)
WorkerLost(i) ==
    /\ faults < MaxFaults
    /\ \/ /\ running0[i] # NoFile
          /\ running0' = [running0 EXCEPT ![i] = NoFile]
          /\ UNCHANGED running1
       \/ /\ running1[i] # NoFile
          /\ running1' = [running1 EXCEPT ![i] = NoFile]
          /\ UNCHANGED running0
    /\ faults' = faults + 1
    /\ UNCHANGED <<stage, params, pk, aggck, s0req, s0state, s0resp, s1req,
                   aggstate, s1resp, proof>>

(* Bug variant of ProcessStage1Resps: aggregate whichever stage1 responses *)
(* exist instead of unwrapping every one.  Substituting it must break      *)
(* CoordinatorRefinement.                                                  *)
ProcessStage1RespsSkipMissing ==
    /\ stage \in {"stage1", "final"}
    /\ params /\ aggstate # NoFile /\ aggck # NoFile
    /\ OrchestratorDrains => \A i \in Idx : running1[i] = NoFile
    /\ LET present == {i \in CoordIdx : s1resp[i] # NoFile}
       IN  proof' = [coms   |-> aggstate.coms,
                     proofs |-> [i \in present |-> s1resp[i]],
                     key    |-> aggck]
    /\ stage' = "final"
    /\ UNCHANGED <<params, pk, aggck, s0req, s0state, s0resp, s1req, aggstate,
                   s1resp, running0, running1, faults>>

(* end-proof (process_stage1_resps): read the final aggregation state, the *)
(* aggregation key and every stage1 response, aggregate and save.          *)
ProcessStage1Resps ==
    /\ stage \in {"stage1", "final"}
    /\ params /\ aggstate # NoFile /\ aggck # NoFile
    /\ \A i \in CoordIdx : s1resp[i] # NoFile
    /\ OrchestratorDrains => \A i \in Idx : running1[i] = NoFile
    /\ proof' = [coms   |-> aggstate.coms,
                 proofs |-> [i \in CoordIdx |-> s1resp[i]],
                 key    |-> aggck]
    /\ stage' = "final"
    /\ UNCHANGED <<params, pk, aggck, s0req, s0state, s0resp, s1req, aggstate,
                   s1resp, running0, running1, faults>>

Next ==
    \/ GenKeys
    \/ BeginStage0
    \/ BeginStage0Crash
    \/ ProcessStage0Resps
    \/ ProcessStage0RespsCrash
    \/ ProcessStage1Resps
    \/ \E i \in Idx : \/ Stage0Begin(i) \/ Stage0End(i)
                      \/ Stage1Begin(i) \/ Stage1End(i)
                      \/ WorkerLost(i)

(* The operator runs each command of the order and each worker call it     *)
(* needs until it succeeds; crashes, losses and duplicates are not fair.  *)
Fairness ==
    /\ WF_vars(GenKeys)
    /\ WF_vars(BeginStage0)
    /\ WF_vars(ProcessStage0Resps)
    /\ WF_vars(ProcessStage1Resps)
    /\ \A i \in Idx : /\ WF_vars(Stage0Begin(i)) /\ WF_vars(Stage0End(i))
                      /\ WF_vars(Stage1Begin(i)) /\ WF_vars(Stage1End(i))

Spec == Init /\ [][Next]_vars /\ Fairness

-----------------------------------------------------------------------------
TypeOK ==
    /\ stage \in Stages
    /\ params \in BOOLEAN
    /\ pk \in [Idx -> PkFile \cup {NoFile}]
    /\ aggck \in AggKey \cup {NoFile}
    /\ s0req \in [Idx -> Req0 \cup {NoFile}]
    /\ s0state \in Req0 \cup {NoFile}
    /\ s0resp \in [Idx -> Commitment \cup {NoFile}]
    /\ s1req \in [Idx -> Req1 \cup {NoFile}]
    /\ aggstate \in [coms : [CoordIdx -> Commitment]] \cup {NoFile}
    /\ s1resp \in [Idx -> Proof1 \cup {NoFile}]
    /\ faults \in 0..MaxFaults

(* End to end: an aggregated proof end-proof saves always verifies.  It    *)
(* fails if a commitment changed after the challenge was derived, if a     *)
(* stale response of an abandoned stage was folded in, or if a worker      *)
(* proved with the key of another shape.                                   *)
ProofVerifies == proof # NoFile => Verifies(proof)

(* Once every worker call the operator issues succeeds eventually, the     *)
(* pipeline ends with a verifying aggregated proof.                        *)
EventuallyProof == <>(proof # NoFile /\ Verifies(proof))

-----------------------------------------------------------------------------
(* Refinement mapping onto StagedCoordinator.  Stage 0 is open once a      *)
(* request or the stage0 state was written; the commitments are fixed once *)
(* the first stage1 request (or the final aggregation state) is written,   *)
(* since the challenge is derived from them at that point.                 *)
IssuedStage0 == s0state # NoFile \/ \E i \in Idx : s0req[i] # NoFile

FixedComs ==
    IF aggstate # NoFile THEN aggstate.coms
    ELSE IF \E i \in Idx : s1req[i] # NoFile
         THEN s1req[CHOOSE i \in Idx : s1req[i] # NoFile].coms
         ELSE NoFile

CoordinatorStage ==
    IF proof # NoFile THEN "Aggregated"
    ELSE IF FixedComs # NoFile THEN "Stage1Ready"
    ELSE IF IssuedStage0 THEN "Stage0Ready"
    ELSE "Uninitialized"

ProvenIndices ==
    {i \in CircIdx : /\ FixedComs # NoFile /\ aggck # NoFile
                     /\ s1resp[i] # NoFile
                     /\ ValidProof(i, s1resp[i], FixedComs)
                     /\ s1resp[i].src = aggck.src[i]}

Abstract == INSTANCE StagedCoordinator
              WITH Indices     <- CircIdx,
                   Commitments <- Commitment,
                   NoValue     <- NoFile,
                   cstage      <- CoordinatorStage,
                   committed   <- [i \in CircIdx |-> s0resp[i]],
                   fixed       <- FixedComs,
                   proven      <- ProvenIndices,
                   aggregated  <- IF proof = NoFile THEN NoFile ELSE proof.coms

(* The pipeline implements the staged coordinator: no commitment changes   *)
(* after the challenge is derived, the challenge is derived only from a    *)
(* commitment of every subcircuit, and end-proof aggregates only once every *)
(* subcircuit has a proof against the fixed commitments.                   *)
CoordinatorRefinement == Abstract!Spec
===============================================================================
