---------------------------- MODULE ActivityTasks ----------------------------
(***************************************************************************)
(* Activities in a worker (handle_activity_task and run_activity_loop,     *)
(* worker.rs): the loop takes tasks from Core and spawns a tokio task for  *)
(* each start, the spawned task runs the handler and reports its result,   *)
(* and the map from task tokens to CancellationTokens, shared by the loop  *)
(* and the spawned tasks, lets a cancel task reach the handler.            *)
(*                                                                         *)
(* A token stands for one attempt of one activity.  The server (external)  *)
(* gives an attempt up when it times out, whether or not the worker still  *)
(* runs its handler, so two attempts of an activity may run side by side.  *)
(*                                                                         *)
(* The retry policy of ActivityOptions is never sent (workflow_machine.rs  *)
(* fills the rest of ScheduleActivity with defaults), so the server goes   *)
(* by its own, without a limit: MaxAttempts is what fits into a            *)
(* schedule_to_close timeout.                                              *)
(*                                                                         *)
(* Simplifications: payloads are left out; a handler is told apart by how  *)
(* it can end; run() may end (poll error, or its future is dropped) while  *)
(* spawned tasks go on, and be called again; the process may crash.        *)
(***************************************************************************)
EXTENDS Naturals

CONSTANTS
    Activities,    \* activities scheduled on the task queue
    Handled,       \* those whose type has a handler
    Waiting,       \* those whose handler may run until it is cancelled
    Endings,       \* the ways handlers end that are looked at
    MaxAttempts,   \* bound: attempts the server makes before it gives up
    MaxRuns        \* bound: calls of Worker::run

ASSUME ActivityAssumption ==
    Handled \subseteq Activities /\ Waiting \subseteq Handled

(* How a handler ends: with a value; with an error, retryable or not, or a *)
(* panic of its future, which count as final; or by a panic of its call.   *)
HandlerEndings == {"ok", "retryable", "final", "early_panic"}

ASSUME EndingsAssumption == Endings \subseteq HandlerEndings
ASSUME AttemptAssumption == MaxAttempts \in Nat \ {0} /\ MaxRuns \in Nat

Tokens  == Activities \X (1 .. MaxAttempts)
NoToken == <<>>

VARIABLES
    loop,      \* run_activity_loop: "polling" or "stopped"
    cancels,   \* task_tokens_to_cancels: whose CancellationToken is under a key
    cancelled, \* unfinished tokens whose CancellationToken is cancelled
    task,      \* task[k]: where the tokio task spawned for k is
    ended,     \* ended[k]: how its handler ended, while it matters
    exec,      \* exec[k]: the ActivityExecutionResult made of that
    \* Core and the server
    open,      \* tokens given to the worker that a Core wants a completion for
    polled,    \* those of the Core that the loop polls
    cancelReq, \* unfinished tokens Core has sent a cancel task for
    attempt,   \* attempt[a]: number of the current attempt of a
    status,    \* status[a]: "scheduled", "started", "completed", "failed", "timed_out"
    runs       \* calls of run() so far

workerVars == <<loop, cancels, cancelled, task, ended, exec>>
coreVars   == <<open, polled, cancelReq, attempt, status>>
vars == <<workerVars, coreVars, runs>>
------------------------------------------------------------------------------
TaskStates == {"none", "running", "reported", "unmapped", "done", "dead"}

Ok         == [status |-> "completed"]
Failure(n) == [status |-> "failed", nonRetryable |-> n]
NoResult   == [status |-> "none"]

Init ==
    /\ loop = "stopped"
    /\ cancels = [k \in Tokens |-> NoToken] /\ cancelled = {}
    /\ task = [k \in Tokens |-> "none"]
    /\ ended = [k \in Tokens |-> "none"]
    /\ exec = [k \in Tokens |-> NoResult]
    /\ open = {} /\ polled = {} /\ cancelReq = {}
    /\ attempt = [a \in Activities |-> 1]
    /\ status = [a \in Activities |-> "scheduled"]
    /\ runs = 0
------------------------------------------------------------------------------
(* The map is keyed by the task token.                                     *)
KeyOf_Activity(k) == <<k[1], 1>>
KeyOf(k)          == k

(* complete_activity_with_error: a spawned task that only has to report.   *)
Rejected_OnlyLogged == "done"
Rejected            == "unmapped"

(* A start task: without a handler it is rejected; otherwise the token is  *)
(* registered before the handler's task is spawned.                        *)
Start(a) ==
    /\ loop = "polling" /\ status[a] = "scheduled"
    /\ LET k == <<a, attempt[a]>> IN
          /\ open' = open \cup {k} /\ polled' = polled \cup {k}
          /\ \/ /\ a \in Handled
                /\ cancels' = [cancels EXCEPT ![KeyOf(k)] = k]
                /\ task' = [task EXCEPT ![k] = "running"]
                /\ UNCHANGED exec
             \/ /\ a \notin Handled
                /\ task' = [task EXCEPT ![k] = Rejected]
                /\ exec' = [exec EXCEPT ![k] = Failure(TRUE)]
                /\ UNCHANGED cancels
    /\ status' = [status EXCEPT ![a] = "started"]
    /\ UNCHANGED <<loop, cancelled, ended, cancelReq, attempt, runs>>

(* A cancel task: the token in the map is cancelled, if there is one.      *)
Cancel(k) ==
    /\ loop = "polling" /\ k \in polled \ cancelReq
    /\ cancelReq' = cancelReq \cup {k}
    /\ cancelled' = cancelled \cup ({cancels[KeyOf(k)]} \ {NoToken})
    /\ UNCHANGED <<loop, cancels, task, ended, exec, open, polled, attempt, status, runs>>

(* The handler ends.  catch_unwind takes a panic of its future; one of the *)
(* call that should return the future unwinds the spawned task.            *)
ExecResult_OuterOnly(e) == IF e \in {"ok", "retryable"} THEN Ok ELSE Failure(TRUE)
ExecResult(e)           == IF e = "ok" THEN Ok ELSE Failure(TRUE)

HandlerEnds(k, e) ==
    /\ task[k] = "running"
    /\ ended' = [ended EXCEPT ![k] = e]
    /\ IF e = "early_panic"
       THEN task' = [task EXCEPT ![k] = "dead"] /\ UNCHANGED exec
       ELSE /\ task' = [task EXCEPT ![k] = "reported"]
            /\ exec' = [exec EXCEPT ![k] = ExecResult(e)]
    /\ UNCHANGED <<loop, cancels, cancelled, coreVars, runs>>

(* The spawned task takes its token out of the map, then completes.        *)
Removed_Kept(k) == cancels
Removed(k)      == [cancels EXCEPT ![KeyOf(k)] = NoToken]

RemoveToken(k) ==
    /\ task[k] = "reported"
    /\ cancels' = Removed(k)
    /\ task' = [task EXCEPT ![k] = "unmapped"]
    /\ UNCHANGED <<loop, cancelled, ended, exec, coreVars, runs>>

(* complete_activity_task.  Core drops what it does not wait for; the      *)
(* server takes a completion of the current attempt only, and retries a    *)
(* retryable failure.                                                      *)
NextStatus(a, r) ==
    IF r.status = "completed" THEN "completed"
    ELSE IF ~r.nonRetryable /\ attempt[a] < MaxAttempts THEN "scheduled" ELSE "failed"

Current(k) == k \in open /\ k[2] = attempt[k[1]] /\ status[k[1]] = "started"

CompleteTask(k) ==
    /\ task[k] = "unmapped"
    /\ task' = [task EXCEPT ![k] = "done"]
    /\ exec' = [exec EXCEPT ![k] = NoResult]
    /\ open' = open \ {k} /\ polled' = polled \ {k}
    /\ IF Current(k)
       THEN LET a == k[1]
                s == NextStatus(a, exec[k])
            IN  /\ status'  = [status EXCEPT ![a] = s]
                /\ attempt' = IF s = "scheduled" THEN [attempt EXCEPT ![a] = @ + 1] ELSE attempt
                /\ UNCHANGED ended
       ELSE /\ ended' = [ended EXCEPT ![k] = "none"]
            /\ UNCHANGED <<status, attempt>>
    /\ cancelled' = cancelled \ {k} /\ cancelReq' = cancelReq \ {k}
    /\ UNCHANGED <<loop, cancels, runs>>
------------------------------------------------------------------------------
(* An attempt times out at the server, which schedules the next or gives   *)
(* up.                                                                     *)
TimeOut(a) ==
    /\ status[a] = "started"
    /\ \/ /\ attempt[a] < MaxAttempts
          /\ attempt' = [attempt EXCEPT ![a] = @ + 1]
          /\ status'  = [status EXCEPT ![a] = "scheduled"]
       \/ /\ attempt[a] = MaxAttempts
          /\ status' = [status EXCEPT ![a] = "timed_out"]
          /\ UNCHANGED attempt
    /\ UNCHANGED <<workerVars, open, polled, cancelReq, runs>>

(* run() is called: it creates a Core of its own, and finds the map of     *)
(* tokens as the run before it left it.                                    *)
Run ==
    /\ loop = "stopped" /\ loop' = "polling"
    /\ runs < MaxRuns /\ runs' = runs + 1
    /\ UNCHANGED <<cancels, cancelled, task, ended, exec, coreVars>>

(* run() is over while activities are running: a poll failed, or the       *)
(* caller dropped its future.  The spawned tasks are not its children;     *)
(* they hold their Core, which nobody polls any more.                      *)
RunEnds ==
    /\ loop = "polling" /\ loop' = "stopped"
    /\ polled' = {}
    /\ UNCHANGED <<cancels, cancelled, task, ended, exec, open, cancelReq, attempt, status, runs>>

(* The process dies; the next one has a Worker with an empty map.          *)
Crash ==
    /\ loop' = "stopped"
    /\ cancels' = [k \in Tokens |-> NoToken]
    /\ task' = [k \in Tokens |-> IF task[k] = "none" THEN "none" ELSE "done"]
    /\ open' = {} /\ polled' = {} /\ cancelReq' = {} /\ cancelled' = {}
    /\ exec' = [k \in Tokens |-> NoResult]
    /\ UNCHANGED <<ended, attempt, status, runs>>

TaskStep(k) ==
    \/ \E e \in Endings : HandlerEnds(k, e)
    \/ RemoveToken(k)
    \/ CompleteTask(k)

Next ==
    \/ \E a \in Activities : Start(a) \/ TimeOut(a)
    \/ \E k \in Tokens : Cancel(k) \/ TaskStep(k)
    \/ Run
    \/ RunEnds
    \/ Crash

Spec == Init /\ [][Next]_vars

(* Tokio runs every spawned task and handlers end, some only after they    *)
(* are cancelled; Core cancels what it gave out and is not done (the       *)
(* workflow asks for it, or it times out), as long as someone polls.       *)
MustEnd(k) == k[1] \in Waiting /\ task[k] = "running" => k \in cancelled

Fairness ==
    /\ \A k \in Tokens : WF_vars(MustEnd(k) /\ TaskStep(k))
    /\ \A k \in Tokens : WF_vars(Cancel(k))

FairSpec == Spec /\ Fairness
------------------------------------------------------------------------------
(* Every variable has its type; a key of the map holds its own token.      *)
TypeOK ==
    /\ loop \in {"polling", "stopped"}
    /\ cancels \in [Tokens -> Tokens \cup {NoToken}]
    /\ \A k \in Tokens : cancels[k] \in {k, NoToken}
    /\ cancelled \subseteq Tokens
    /\ task \in [Tokens -> TaskStates]
    /\ ended \in [Tokens -> Endings \cup {"none"}]
    /\ exec \in [Tokens -> {NoResult, Ok, Failure(TRUE), Failure(FALSE)}]
    /\ open \subseteq Tokens /\ polled \subseteq open /\ cancelReq \subseteq Tokens
    /\ attempt \in [Activities -> 1 .. MaxAttempts]
    /\ status \in [Activities -> {"scheduled", "started", "completed", "failed", "timed_out"}]
    /\ runs \in 0 .. MaxRuns

(* The map holds a token as long as its handler runs and until its task    *)
(* has made its result: a cancel reaches every running handler, also when  *)
(* another attempt of the activity starts or finishes beside it, and no    *)
(* token is left behind, but for the one of a spawned task that unwound.   *)
MapIsExact ==
    \A k \in Tokens : cancels[k] = k <=> task[k] \in {"running", "reported", "dead"}

(* Only a handler whose own attempt Core cancelled is told to stop.        *)
CancelIsolated == cancelled \subseteq cancelReq

(* An activity is completed at the server by the handler of its current    *)
(* attempt, with that handler's result.                                    *)
OutcomeIsCurrent ==
    \A a \in Activities :
        LET k == <<a, attempt[a]>> IN
        /\ status[a] = "completed" => ended[k] = "ok"
        /\ status[a] = "failed" /\ a \in Handled => ended[k] \in Endings \ {"ok"}

(* Core hears of every attempt it gave out, however the handler's future   *)
(* ends, as long as the process lives and, for a handler that waits to be  *)
(* cancelled, as long as the run() that started it polls for cancels.      *)
EveryStartIsAnswered ==
    \A k \in Tokens :
        k \in open ~> \/ k \notin open \/ task[k] = "dead"
                      \/ k[1] \in Waiting /\ k \notin polled

(* A panic of the activity is an error it ends with (ActivityError::Panic, *)
(* and the worker's "activity panicked"): Core is told of every one.       *)
PanicsAreReported ==
    \A k \in Tokens : k \in open /\ ended[k] = "early_panic" ~> k \notin open

(* "Whether this error is non-retryable", says an error of itself: an      *)
(* activity whose handler failed with a retryable error fails only when    *)
(* its attempts are used up.                                               *)
RetryableErrorsRetried ==
    \A a \in Activities :
        status[a] = "failed" /\ ended[<<a, attempt[a]>>] = "retryable"
            => attempt[a] = MaxAttempts
==============================================================================
