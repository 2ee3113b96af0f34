--------------------------- MODULE MCDatasetStore ---------------------------
(* DatasetStore on small instances.                                        *)
EXTENDS DatasetStore, TLC

CONSTANTS p1, p2, q1, d1, d2, d3

(* d2 supersedes d1 and was built from d3, which has no subdirectory.      *)
MCSupersedes == [d \in Dataset |-> IF d = d2 THEN d1 ELSE None]
MCInputs == [d \in Dataset |-> IF d = d2 THEN Dataset \cap {d3} ELSE {}]

MCSymmetry == Permutations({p1, p2})
=============================================================================
