------------------------- MODULE MCQueryExecution -------------------------
(***************************************************************************)
(* A small instance of QueryExecution for TLC: two query contexts sharing *)
(* a two-thread pool; pipelines of a join shape, two build stages feeding *)
(* a probe stage, so that a failure can leave a sibling stage running.    *)
(***************************************************************************)
EXTENDS QueryExecution, TLC

MCStages == 1..3

\* stage 3 (probe) consumes the outputs of stages 1 and 2 (hash builds)
MCDeps == [s \in MCStages |-> IF s = 3 THEN {1, 2} ELSE {}]

MCKinds == {"Select", "Insert"}

\* Query contexts are interchangeable model values.
ContextSymmetry == Permutations(Contexts)

=============================================================================
