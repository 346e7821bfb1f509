------------------------- MODULE MCWrittenPipeline -------------------------
(***************************************************************************)
(* WrittenPipeline on small sets, for TLC.                                 *)
(***************************************************************************)
EXTENDS WrittenPipeline, TLC

\* One request of each of these kinds.
Once(kinds) == [k \in Kinds |-> IF k \in kinds THEN 1 ELSE 0]

mcEdits == Once({"correct", "regrade", "override", "process"})
mcArrivals == Once({"upload", "bulk"})
mcBulk == Once({"bulk"})
mcCorrect == Once({"correct"})
=============================================================================
