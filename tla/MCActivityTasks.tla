--------------------------- MODULE MCActivityTasks ---------------------------
(* ActivityTasks for TLC: an activity that may run until it is cancelled,  *)
(* and one whose type has no handler.                                      *)
EXTENDS ActivityTasks
==============================================================================
