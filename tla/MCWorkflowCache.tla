--------------------------- MODULE MCWorkflowCache ---------------------------
(* WorkflowCache for TLC: a stage of one operation, then a stage of two,   *)
(* which may be resolved one at a time.                                    *)
EXTENDS WorkflowCache

MCScript == <<{"a"}, {"b", "c"}>>
==============================================================================
