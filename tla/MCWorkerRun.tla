----------------------------- MODULE MCWorkerRun -----------------------------
(* WorkerRun for TLC: a workflow that calls an activity and then sleeps.   *)
EXTENDS WorkerRun

MCScript == <<{"charge"}, {"sleep"}>>
==============================================================================
