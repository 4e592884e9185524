------------------------ MODULE MCEvaluationExecutor ------------------------
(***************************************************************************)
(* Instances of EvaluationExecutor for TLC.                                *)
(***************************************************************************)
EXTENDS EvaluationExecutor, TLC

CONSTANTS w1, w2, t1, t2, t3

\* One batch that occupies both workers and leaves a task queued.
ThreeTasks == {t1, t2, t3}
OneBatch == {<<t1, t2, t3>>}

\* The batch of the liveness runs; with allowedConcurrency = 1 one task waits.
TwoTasks == {t1, t2}
PairBatch == {<<t1, t2>>}

WorkerSymmetry == Permutations(Workers)
=============================================================================
