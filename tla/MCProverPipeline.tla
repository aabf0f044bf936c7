--------------------------- MODULE MCProverPipeline ---------------------------
(***************************************************************************)
(* Instantiates ProverPipeline for TLC.  The coordinator's index range     *)
(* (num_rows+63)/64 is the subcircuit count of muti_tuple_filter_circuit,  *)
(* so these models take that circuit's splitting: with num_rows = 200 it   *)
(* has four batches of 64, 64, 64 and 8 rows, so first, middle (shared by  *)
(* two indices) and last keys are exercised and the last batch has a shape *)
(* of its own.                                                             *)
(***************************************************************************)
EXTENDS ProverPipeline

MCCircN      == BatchedNumSubcircuits(NumRows)
MCShape(idx) == BatchedShape(NumRows, idx)
===============================================================================
