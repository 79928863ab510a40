--------------------------- MODULE DurableCommands ---------------------------
(***************************************************************************)
(* What one cached execution of a workflow promises about the operations   *)
(* (timers and activities) its code starts, whatever the machine does      *)
(* inside an activation:                                                   *)
(*                                                                         *)
(*   - an operation is started at the server once, in the completion of    *)
(*     the activation in which the workflow asked for it;                  *)
(*   - the workflow observes an operation at most once, only after the     *)
(*     server resolved it, and with the outcome the server gave it;        *)
(*   - an evicted or closed execution starts and observes nothing more.    *)
(*                                                                         *)
(* WorkflowMachine implements this specification.                          *)
(***************************************************************************)
CONSTANTS Ops,       \* the operations a workflow can start
          Outcomes   \* what the server can resolve an operation with

VARIABLES phase,     \* phase[op]: how far operation op has come
          outcome,   \* outcome[op]: what the server resolved op with
          observed,  \* observed[op]: what the workflow got for op
          status     \* of the execution: "open", "closed", "evicted"

vars == <<phase, outcome, observed, status>>

None == "none"

Phases == {"unused", "issued", "running", "resolved"}

TypeOK ==
    /\ phase    \in [Ops -> Phases]
    /\ outcome  \in [Ops -> Outcomes \cup {None}]
    /\ observed \in [Ops -> Outcomes \cup {None}]
    /\ status   \in {"open", "closed", "evicted"}

Init ==
    /\ phase    = [op \in Ops |-> "unused"]
    /\ outcome  = [op \in Ops |-> None]
    /\ observed = [op \in Ops |-> None]
    /\ status   = "open"

(* Workflow code starts an operation. *)
Issue(op) ==
    /\ status = "open" /\ phase[op] = "unused"
    /\ phase' = [phase EXCEPT ![op] = "issued"]
    /\ UNCHANGED <<outcome, observed, status>>

(* The completion of an activation starts at the server everything the     *)
(* workflow asked for, leaving nothing behind, and may close the workflow. *)
Commit ==
    /\ phase' = [op \in Ops |-> IF phase[op] = "issued" THEN "running" ELSE phase[op]]
    /\ status' \in {status, "closed"}
    /\ (status' # status) => (status = "open")
    /\ UNCHANGED <<outcome, observed>>

(* The server resolves a running operation. *)
Resolve(op, v) ==
    /\ phase[op] = "running"
    /\ phase'   = [phase EXCEPT ![op] = "resolved"]
    /\ outcome' = [outcome EXCEPT ![op] = v]
    /\ UNCHANGED <<observed, status>>

(* The workflow gets the outcome of an operation it waited for. *)
Observe(op) ==
    /\ status = "open" /\ phase[op] = "resolved" /\ observed[op] = None
    /\ observed' = [observed EXCEPT ![op] = outcome[op]]
    /\ UNCHANGED <<phase, outcome, status>>

(* The execution loses its place in the worker's cache. *)
Evict ==
    /\ status' = "evicted"
    /\ UNCHANGED <<phase, outcome, observed>>

Next ==
    \/ \E op \in Ops : Issue(op) \/ Observe(op)
    \/ \E op \in Ops, v \in Outcomes : Resolve(op, v)
    \/ Commit
    \/ Evict

Spec == Init /\ [][Next]_vars
==============================================================================
