------------------------------- MODULE WorkerRun -------------------------------
(***************************************************************************)
(* Worker::run (worker.rs): the activity loop and the workflow loop over   *)
(* one Core, the shutdown token both of them watch, the shutdown of Core   *)
(* at the end, and the ways to leave without it.  ActivityTasks and        *)
(* WorkflowCache are the two loops; they are composed here over the same   *)
(* calls of run() and the same server, for which an activity is an         *)
(* operation that a workflow started and waits for.                        *)
(*                                                                         *)
(* Worker::run borrows the Worker mutably, so no other method of it can be *)
(* called before run() has returned or its future has been dropped.        *)
(*                                                                         *)
(* PollError::ShutDown is left out: Core gives it only after its shutdown, *)
(* which run() asks for when no loop polls any more.                       *)
(***************************************************************************)
EXTENDS Naturals, Sequences

CONSTANTS
    Runs, Registered, Script, MaxRuns, EvictOpen,  \* of WorkflowCache
    ActivityOps,       \* operations of the script that are activities
    HandledOps,        \* those whose type has a handler
    WaitingOps,        \* those whose handler may wait to be cancelled
    Endings, MaxAttempts                           \* of ActivityTasks

VARIABLES
    machines, step, act, reply, hist, resolved, fed, cached, out, nondet, reused,
    loop, cancels, cancelled, task, ended, exec, open, polled, cancelReq, attempt, status,
    runs,
    phase,     \* run(): "idle" (not called), "looping", "stopping" (in CoreWorker::shutdown)
    shutdown,  \* the shutdown token is cancelled
    result,    \* what run() returned: "ok", "error", or "none"
    unshut,    \* history variable: a Core of this Worker was left without a shutdown
    asked      \* history variable: shutdown() was called on this Worker

WC == INSTANCE WorkflowCache
AT == INSTANCE ActivityTasks WITH
        Activities <- Runs \X ActivityOps,
        Handled <- Runs \X HandledOps,
        Waiting <- Runs \X WaitingOps

ASSUME ActivityOpsAssumption ==
    WaitingOps \subseteq HandledOps /\ HandledOps \subseteq ActivityOps
(* The components' own assumptions.                                        *)
ASSUME CacheAssumption ==
    WC!RegisteredAssumption /\ WC!ScriptAssumption /\ WC!BoundsAssumption
ASSUME TasksAssumption ==
    AT!ActivityAssumption /\ AT!EndingsAssumption /\ AT!AttemptAssumption

Activities == Runs \X ActivityOps
Tokens     == Activities \X (1 .. MaxAttempts)

wcVars  == <<machines, step, act, reply, hist, resolved, fed, cached, out, nondet, reused>>
atVars  == <<loop, cancels, cancelled, task, ended, exec, open, polled, cancelReq, attempt, status>>
runVars == <<phase, shutdown, result, unshut, asked>>
vars    == <<wcVars, atVars, runs, runVars>>

Init ==
    /\ WC!Init /\ AT!Init
    /\ phase = "idle" /\ shutdown = FALSE /\ result = "none"
    /\ unshut = FALSE /\ asked = FALSE
------------------------------------------------------------------------------
(* The loops of run().  There is one for each kind of handler; without any *)
(* run() waits for the token alone.                                        *)
HasActivities == HandledOps # {}

HasWorkflows_ElseIf == Registered # {} /\ ~HasActivities
HasWorkflows        == Registered # {}

(* The select of a loop is biased: it looks at the token before it polls.  *)
MayPoll == phase = "looping" /\ ~shutdown

ActivityPoll ==
    /\ HasActivities /\ MayPoll
    /\ \/ \E a \in Activities : a[2] \in WC!Started(a[1]) /\ AT!Start(a)
       \/ \E k \in Tokens : AT!Cancel(k)
    /\ UNCHANGED <<wcVars, runVars>>

WorkflowPoll ==
    /\ HasWorkflows /\ MayPoll
    /\ \E r \in Runs : WC!PollActivation(r) \/ WC!PollEviction(r)
    /\ UNCHANGED <<atVars, runVars>>

(* handle_workflow_activation goes on inside the workflow loop.            *)
Handle ==
    /\ phase = "looping" /\ WC!HandlerStep
    /\ UNCHANGED <<atVars, runVars>>

(* The spawned tasks go on whether or not run() does.                      *)
SpawnedTask ==
    /\ \E k \in Tokens : AT!TaskStep(k)
    /\ UNCHANGED <<wcVars, runVars>>

(* The server: attempts time out, timers fire, and an activity is resolved *)
(* for its workflow once there is a verdict on it.                         *)
Settled(r, op) == op \in ActivityOps => status[<<r, op>>] \in {"completed", "failed", "timed_out"}

TimeOut ==
    /\ \E a \in Activities : AT!TimeOut(a)
    /\ UNCHANGED <<wcVars, runVars>>

Resolve ==
    /\ \E r \in Runs, op \in WC!Ops : Settled(r, op) /\ WC!Resolve(r, op)
    /\ UNCHANGED <<atVars, runVars>>
------------------------------------------------------------------------------
(* The token belongs to the Worker: every run() watches the same one.      *)
TokenOfRun_Fresh == FALSE
TokenOfRun       == shutdown

(* run() is called and creates a Core.                                     *)
Run ==
    /\ phase = "idle" /\ phase' = "looping"
    /\ WC!Run /\ AT!Run
    /\ shutdown' = TokenOfRun
    /\ result' = "none"
    /\ UNCHANGED <<unshut, asked>>

(* CoreWorker::new fails: run() returns before anything else.              *)
RunFails ==
    /\ phase = "idle" /\ result' = "error"
    /\ UNCHANGED <<wcVars, atVars, runs, phase, shutdown, unshut, asked>>

(* The end of a loop ends the select, which drops the other loop and with  *)
(* it a handler that was waiting.                                          *)
LoseHandler_Spawned == UNCHANGED <<wcVars, runs>>
LoseHandler         == WC!RunEnds

(* A loop sees the token and ends.  The workflow loop itself looks at it   *)
(* only between two activations.                                           *)
SeesToken_Notify == FALSE
SeesToken        == shutdown

LoopEnds ==
    /\ phase = "looping" /\ SeesToken
    /\ HasActivities \/ ~HasWorkflows \/ step = "polling"
    /\ LoseHandler
    /\ phase' = "stopping"
    /\ UNCHANGED <<atVars, shutdown, result, unshut, asked>>

(* CoreWorker::shutdown returns and run() with it.  Nothing is assumed of  *)
(* whether Core waits for the tasks it has given out.                      *)
Returns ==
    /\ phase = "stopping" /\ phase' = "idle"
    /\ AT!RunEnds
    /\ result' = "ok"
    /\ UNCHANGED <<wcVars, shutdown, unshut, asked>>

(* A poll fails: the ? leaves run() at once, past CoreWorker::shutdown.    *)
PollFails ==
    /\ MayPoll
    /\ HasActivities \/ (HasWorkflows /\ step = "polling")
    /\ LoseHandler /\ AT!RunEnds
    /\ phase' = "idle" /\ result' = "error" /\ unshut' = TRUE
    /\ UNCHANGED <<shutdown, asked>>

(* The caller drops the future of run(), a timeout around it for example.  *)
Dropped ==
    /\ \/ phase = "looping" /\ LoseHandler
       \/ phase = "stopping" /\ UNCHANGED wcVars
    /\ AT!RunEnds
    /\ phase' = "idle"
    /\ unshut' = (unshut \/ phase = "looping")
    /\ UNCHANGED <<shutdown, result, asked>>

(* Worker::shutdown cancels the token, for good.                           *)
MayShutDown_Shared == TRUE
MayShutDown        == phase = "idle"

Shutdown ==
    /\ MayShutDown
    /\ shutdown' = TRUE /\ asked' = TRUE
    /\ UNCHANGED <<wcVars, atVars, runs, phase, result, unshut>>

(* The process dies; the next one has a new Worker.                        *)
Crash ==
    /\ WC!Crash /\ AT!Crash
    /\ phase' = "idle" /\ shutdown' = FALSE /\ result' = "none"
    /\ unshut' = FALSE /\ asked' = FALSE

Next ==
    \/ ActivityPoll \/ WorkflowPoll \/ Handle \/ SpawnedTask
    \/ TimeOut \/ Resolve
    \/ Run \/ RunFails \/ LoopEnds \/ Returns \/ PollFails \/ Dropped
    \/ Shutdown \/ Crash

Spec == Init /\ [][Next]_vars
------------------------------------------------------------------------------
(* What Core has given out and waits for.                                  *)
Outstanding == polled # {} \/ \E r \in Runs : out[r]

(* Core has every task polled in its turn and the loops run their handlers *)
(* to the end; the server resolves what it runs, ends every attempt        *)
(* (start_to_close is 60 s by default) and gives up at some time           *)
(* (schedule_to_close); CoreWorker::shutdown returns if Core waits for     *)
(* nothing.                                                                *)
Fairness ==
    /\ WF_vars(ActivityPoll)
    /\ \A r \in Runs : SF_vars(WorkflowPoll /\ WC!PollActivation(r))
    /\ WF_vars(Handle)
    /\ WF_vars(TimeOut) /\ WF_vars(Resolve)
    /\ WF_vars(LoopEnds) /\ WF_vars(Returns /\ ~Outstanding)

FairSpec == Spec /\ Fairness
------------------------------------------------------------------------------
(* The variables of run() have their types, and the loops run with it.     *)
TypeOK ==
    /\ phase \in {"idle", "looping", "stopping"}
    /\ shutdown \in BOOLEAN /\ unshut \in BOOLEAN /\ asked \in BOOLEAN
    /\ result \in {"none", "ok", "error"}
    /\ step # "stopped" <=> phase = "looping"
    /\ loop = "polling" <=> phase # "idle"

(* When run() returns Ok it has left nothing behind: every task its Core   *)
(* gave out has been completed, even if CoreWorker::shutdown does not wait *)
(* for them.                                                               *)
OkMeansDone == [][result' = "ok" /\ result # "ok" => ~Outstanding]_vars

(* After shutdown() the Worker begins nothing any more, whatever run()s    *)
(* follow, and however the one before it was left: no task is taken, no    *)
(* activity handler starts, no workflow code runs.  Only the handlers that *)
(* run go on.                                                              *)
NoWorkAfterRequest ==
    [][asked /\ asked' =>
          /\ polled' \subseteq polled /\ \A r \in Runs : out'[r] => out[r]
          /\ \A k \in Tokens : task'[k] = "running" => task[k] = "running"
          /\ machines' = machines]_vars

(* A workflow ends only after the activities it waited for: each has the   *)
(* verdict of the server, and one that counts as completed is so by the    *)
(* handler of its last attempt, whatever was dropped, run twice or taken   *)
(* for new on either side.                                                 *)
Decided(r, op) ==
    LET a == <<r, op>> IN
    /\ status[a] \in {"completed", "failed", "timed_out"}
    /\ status[a] = "completed" => ended[<<a, attempt[a]>>] = "ok"

ClosedAfterActivities ==
    \A r \in Runs : WC!Closed(r) => \A op \in ActivityOps \cap WC!Ops : Decided(r, op)

(* A run() that finds the token cancelled ends, with whatever handlers.    *)
ShutdownEndsRun == shutdown /\ phase # "idle" ~> phase = "idle"

(* If the worker stays up at some time, every run with a handler closes:   *)
(* through crashes, panics and lost attempts of its activities, beside     *)
(* runs without a handler.  Only a machine kept for a new start may not.   *)
WorkflowsClose ==
    <>[](phase = "looping") => \A r \in Registered : <>(WC!Closed(r) \/ r \in reused)

(* "Run the worker until shutdown is requested", and "Request the worker   *)
(* to shut down gracefully": after the request, when no run() is on, every *)
(* Core of the Worker has been shut down.                                  *)
GracefulShutdown == shutdown /\ phase = "idle" => ~unshut
==============================================================================
