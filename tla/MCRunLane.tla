----------------------------- MODULE MCRunLane -----------------------------
(* RunLane for TLC, with the records its states are stored as: operation    *)
(* ids are interchangeable model values, everything else is bounded by the *)
(* constants of RunLane.                                                   *)
EXTENDS LaneRecords, TLC

Symmetry == Permutations(Ops)
Stored == Ops \union -MaxInputs..30 \union {99}

=============================================================================
