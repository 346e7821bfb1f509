--------------------------- MODULE MCCodeEvalJob ---------------------------
(***************************************************************************)
(* CodeEvalJob on small sets, for TLC.                                     *)
(*                                                                         *)
(* Where QualityOnly is empty the verdict of a job is whatever `passed`    *)
(* says, which TLC chooses freely: the stored states of a quality-only job *)
(* are among them.  mcQualityOnly makes the difference visible.            *)
(***************************************************************************)
EXTENDS CodeEvalJob, TLC

CONSTANTS j1, j2

mcQualityOnly == {j2}
mcNone == {}

\* Worker processes and request handlers are interchangeable, and so are the jobs
\* that are no exception to the verdict.  For runs without liveness only.
Interchangeable ==
    Permutations(Slots) \cup Permutations(Requests) \cup Permutations(Jobs \ QualityOnly)
=============================================================================
