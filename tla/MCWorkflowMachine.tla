-------------------------- MODULE MCWorkflowMachine --------------------------
(* WorkflowMachine for TLC: a workflow with two activities, whose sequence *)
(* numbers can be confused, and a timer beside them.                       *)
EXTENDS WorkflowMachine

MCMaxSeq == [timer |-> 1, activity |-> 2]
MCOneEach == [timer |-> 1, activity |-> 1]
==============================================================================
