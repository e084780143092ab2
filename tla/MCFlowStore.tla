------------------------------ MODULE MCFlowStore ------------------------------
(* Small instances of FlowStore for TLC. *)
EXTENDS FlowStore, TLC

\* Values are bits: Add wraps around, Set of an existing value merges, and values
\* have no CopyFrom, so that a lookup merges into its destination too.
MCAddTo(v, d, existed) == (v + d) % 2
MCSetTo(v, d, existed) == IF existed /\ v > d THEN v ELSE d
MCCopyTo(dest, v) == MCSetTo(dest, v, TRUE)

\* Callers are interchangeable.
CallerSymmetry == Permutations(Callers)
================================================================================
