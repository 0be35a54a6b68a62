--------------------------- MODULE MCModelingJobs ---------------------------
(***************************************************************************)
(* Instances of ModelingJobs for TLC.                                      *)
(***************************************************************************)
EXTENDS ModelingJobs

CONSTANTS r1, r2, m1, k1

\* What the interface asks for (a key per model, the default metric), the same
\* plan under another metric without a key, and another plan of the same model.
ByInterface == [model |-> m1, plan |-> 1, metric |-> "rmse", key |-> k1]
OtherMetric == [model |-> m1, plan |-> 1, metric |-> "mae", key |-> None]
OtherPlan == [model |-> m1, plan |-> 2, metric |-> "rmse", key |-> None]
TasksForJobs == {ByInterface, OtherPlan}
TasksOfMetrics == {ByInterface, OtherMetric}
=============================================================================
