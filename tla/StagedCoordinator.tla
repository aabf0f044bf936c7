--------------------------- MODULE StagedCoordinator ---------------------------
(***************************************************************************)
(* What the coordinator promises (spec.md 4.2, 5): a one-way state machine *)
(* Uninitialized -> Stage0Ready -> Stage1Ready -> Aggregated.  Subcircuit  *)
(* commitments may change only while stage 0 is open; promotion fixes all *)
(* of them at once, which is when the challenge is derived; a subcircuit   *)
(* counts as proven only by a proof against the fixed commitments; the    *)
(* aggregate exists only once every subcircuit is proven, and folds the    *)
(* fixed commitments.                                                      *)
(***************************************************************************)
CONSTANTS
    Indices,        \* the subcircuits of the circuit, 0..N-1
    Commitments,    \* the values a stage0 commitment can take
    NoValue         \* model value: nothing yet

VARIABLES
    cstage,         \* the coordinator's state
    committed,      \* the commitment currently held for each subcircuit
    fixed,          \* the commitments the challenge was derived from
    proven,         \* subcircuits with a valid proof against fixed
    aggregated      \* the commitments the aggregated proof folds

avars == <<cstage, committed, fixed, proven, aggregated>>

Init ==
    /\ cstage = "Uninitialized"
    /\ committed = [i \in Indices |-> NoValue]
    /\ fixed = NoValue
    /\ proven = {}
    /\ aggregated = NoValue

BeginStage0 ==
    /\ cstage \in {"Uninitialized", "Stage0Ready"}
    /\ cstage' = "Stage0Ready"
    /\ UNCHANGED <<committed, fixed, proven, aggregated>>

Commit(i, c) ==
    /\ cstage = "Stage0Ready"
    /\ committed' = [committed EXCEPT ![i] = c]
    /\ UNCHANGED <<cstage, fixed, proven, aggregated>>

ProcessStage0Responses ==
    /\ cstage = "Stage0Ready"
    /\ \A i \in Indices : committed[i] # NoValue
    /\ fixed' = committed
    /\ cstage' = "Stage1Ready"
    /\ UNCHANGED <<committed, proven, aggregated>>

Prove(i) ==
    /\ cstage = "Stage1Ready"
    /\ proven' = proven \cup {i}
    /\ UNCHANGED <<cstage, committed, fixed, aggregated>>

Aggregate ==
    /\ cstage = "Stage1Ready"
    /\ proven = Indices
    /\ aggregated' = fixed
    /\ cstage' = "Aggregated"
    /\ UNCHANGED <<committed, fixed, proven>>

Next ==
    \/ BeginStage0
    \/ \E i \in Indices, c \in Commitments : Commit(i, c)
    \/ ProcessStage0Responses
    \/ \E i \in Indices : Prove(i)
    \/ Aggregate

Spec == Init /\ [][Next]_avars
================================================================================
