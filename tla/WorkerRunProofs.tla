---------------------------- MODULE WorkerRunProofs ----------------------------
(***************************************************************************)
(* Proofs about WorkerRun: its types, what an Ok of run() means, what a    *)
(* cancelled token means, and that its two sides are the components.       *)
(***************************************************************************)
EXTENDS WorkerRun, TLAPS

-------------------------------------------------------------------------------
(* The variables of run() keep their types: the phase of run() and the     *)
(* states of its loops go together.                                        *)
THEOREM TypeCorrect == Spec => []TypeOK
<1>1. Init => TypeOK
  BY DEF Init, TypeOK, WC!Init, AT!Init
<1>2. TypeOK /\ [Next]_vars => TypeOK'
  <2> SUFFICES ASSUME TypeOK, [Next]_vars PROVE TypeOK'
    OBVIOUS
  <2>1. CASE ActivityPoll
    BY <2>1 DEF TypeOK, ActivityPoll, AT!Start, AT!Cancel, wcVars, runVars
  <2>2. CASE WorkflowPoll
    BY <2>2 DEF TypeOK, WorkflowPoll, MayPoll, WC!PollActivation, WC!PollEviction, atVars, runVars
  <2>3. CASE Handle
    BY <2>3 DEF TypeOK, Handle, WC!HandlerStep, WC!NoHandler, WC!Prepare, WC!Process,
                WC!Complete, atVars, runVars
  <2>4. CASE SpawnedTask
    BY <2>4 DEF TypeOK, SpawnedTask, AT!TaskStep, AT!HandlerEnds, AT!RemoveToken,
                AT!CompleteTask, wcVars, runVars
  <2>5. CASE TimeOut
    BY <2>5 DEF TypeOK, TimeOut, AT!TimeOut, AT!workerVars, wcVars, runVars
  <2>6. CASE Resolve
    BY <2>6 DEF TypeOK, Resolve, WC!Resolve, WC!workerVars, atVars, runVars
  <2>7. CASE Run
    BY <2>7 DEF TypeOK, Run, TokenOfRun, WC!Run, AT!Run
  <2>8. CASE RunFails
    BY <2>8 DEF TypeOK, RunFails, wcVars, atVars
  <2>9. CASE LoopEnds
    BY <2>9 DEF TypeOK, LoopEnds, LoseHandler, WC!RunEnds, atVars
  <2>10. CASE Returns
    BY <2>10 DEF TypeOK, Returns, AT!RunEnds, wcVars
  <2>11. CASE PollFails
    BY <2>11 DEF TypeOK, PollFails, LoseHandler, WC!RunEnds, AT!RunEnds
  <2>12. CASE Dropped
    BY <2>12 DEF TypeOK, Dropped, LoseHandler, WC!RunEnds, AT!RunEnds, wcVars
  <2>13. CASE Shutdown
    BY <2>13 DEF TypeOK, Shutdown, wcVars, atVars
  <2>14. CASE Crash
    BY <2>14 DEF TypeOK, Crash, WC!Crash, AT!Crash
  <2>15. CASE UNCHANGED vars
    BY <2>15 DEF TypeOK, vars, wcVars, atVars, runVars
  <2> QED
    BY <2>1, <2>2, <2>3, <2>4, <2>5, <2>6, <2>7, <2>8, <2>9, <2>10, <2>11, <2>12, <2>13,
       <2>14, <2>15 DEF Next
<1> QED
  BY <1>1, <1>2, PTL DEF Spec
-------------------------------------------------------------------------------
(* A run() that finds the token cancelled has nothing to clean up: the     *)
(* token is cancelled only while nothing runs, and the loops of the next   *)
(* run() look at it before they poll.                                      *)
CleanWhenAsked ==
    /\ out \in [Runs -> BOOLEAN]
    /\ phase = "idle" => polled = {}
    /\ phase = "stopping" => shutdown
    /\ shutdown /\ phase # "idle" => polled = {} /\ \A r \in Runs : ~out[r]

(* The handler completes activations, it takes none.                       *)
LEMMA HandleTakesNone ==
    ASSUME out \in [Runs -> BOOLEAN], WC!HandlerStep
    PROVE  out' \in [Runs -> BOOLEAN] /\ \A r \in Runs : out'[r] => out[r]
<1>1. CASE UNCHANGED out
  BY <1>1
<1>2. CASE out' = [out EXCEPT ![act.run] = FALSE]
  BY <1>2
<1> QED
  BY <1>1, <1>2 DEF WC!HandlerStep, WC!NoHandler, WC!Prepare, WC!Process, WC!Complete,
                    WC!coreVars

LEMMA CleanInv == Spec => []CleanWhenAsked
<1>1. Init => CleanWhenAsked
  BY DEF Init, CleanWhenAsked, WC!Init, AT!Init
<1>2. TypeOK /\ CleanWhenAsked /\ [Next]_vars => CleanWhenAsked'
  <2> SUFFICES ASSUME TypeOK, CleanWhenAsked, [Next]_vars PROVE CleanWhenAsked'
    OBVIOUS
  <2>1. CASE ActivityPoll
    BY <2>1 DEF CleanWhenAsked, ActivityPoll, MayPoll, AT!Start, AT!Cancel, wcVars, runVars
  <2>2. CASE WorkflowPoll
    BY <2>2 DEF CleanWhenAsked, WorkflowPoll, MayPoll, WC!PollActivation,
                WC!PollEviction, atVars, runVars
  <2>3. CASE Handle
    BY <2>3, HandleTakesNone DEF CleanWhenAsked, Handle, atVars, runVars
  <2>4. CASE SpawnedTask
    BY <2>4 DEF CleanWhenAsked, SpawnedTask, AT!TaskStep, AT!HandlerEnds, AT!RemoveToken,
                AT!CompleteTask, AT!coreVars, wcVars, runVars
  <2>5. CASE TimeOut
    BY <2>5 DEF CleanWhenAsked, TimeOut, AT!TimeOut, wcVars, runVars
  <2>6. CASE Resolve
    BY <2>6 DEF CleanWhenAsked, Resolve, WC!Resolve, atVars, runVars
  <2>7. CASE Run
    BY <2>7 DEF CleanWhenAsked, Run, TokenOfRun, WC!Run, AT!Run, AT!coreVars
  <2>8. CASE RunFails
    BY <2>8 DEF CleanWhenAsked, RunFails, wcVars, atVars
  <2>9. CASE LoopEnds
    BY <2>9 DEF CleanWhenAsked, LoopEnds, SeesToken, LoseHandler, WC!RunEnds, WC!coreVars, atVars
  <2>10. CASE Returns
    BY <2>10 DEF CleanWhenAsked, Returns, AT!RunEnds, wcVars
  <2>11. CASE PollFails
    BY <2>11 DEF CleanWhenAsked, PollFails, LoseHandler, WC!RunEnds, WC!coreVars, AT!RunEnds
  <2>12. CASE Dropped
    BY <2>12 DEF CleanWhenAsked, Dropped, LoseHandler, WC!RunEnds, WC!coreVars, wcVars, AT!RunEnds
  <2>13. CASE Shutdown
    BY <2>13 DEF CleanWhenAsked, Shutdown, MayShutDown, wcVars, atVars
  <2>14. CASE Crash
    BY <2>14 DEF CleanWhenAsked, Crash, WC!Crash, WC!coreVars, AT!Crash
  <2>15. CASE UNCHANGED vars
    BY <2>15 DEF CleanWhenAsked, vars, wcVars, atVars, runVars
  <2> QED
    BY <2>1, <2>2, <2>3, <2>4, <2>5, <2>6, <2>7, <2>8, <2>9, <2>10, <2>11, <2>12, <2>13,
       <2>14, <2>15 DEF Next
<1> QED
  BY <1>1, <1>2, TypeCorrect, PTL DEF Spec

(* run() returns Ok only with nothing outstanding at its Core.             *)
THEOREM OkIsDone == Spec => OkMeansDone
<1>1. TypeOK /\ CleanWhenAsked /\ [Next]_vars
        => [result' = "ok" /\ result # "ok" => ~Outstanding]_vars
  <2> SUFFICES ASSUME CleanWhenAsked, Next, result' = "ok", result # "ok"
               PROVE  ~Outstanding
    OBVIOUS
  <2>1. Returns
    BY DEF Next, ActivityPoll, WorkflowPoll, Handle, SpawnedTask, TimeOut, Resolve, Run,
           RunFails, LoopEnds, PollFails, Dropped, Shutdown, Crash, runVars
  <2> QED
    BY <2>1 DEF Returns, CleanWhenAsked, Outstanding
<1> QED
  BY <1>1, TypeCorrect, CleanInv, PTL DEF Spec, OkMeansDone

(* The token stays cancelled from the request on, and finds no activation  *)
(* in the handler: it was cancelled when no run() was on, which lost it.   *)
QuietWhenAsked ==
    /\ asked => shutdown
    /\ shutdown => step \in {"stopped", "polling"}

LEMMA QuietInv == Spec => []QuietWhenAsked
<1>1. Init => QuietWhenAsked
  BY DEF Init, QuietWhenAsked
<1>2. TypeOK /\ QuietWhenAsked /\ [Next]_vars => QuietWhenAsked'
  <2> SUFFICES ASSUME TypeOK, QuietWhenAsked, [Next]_vars PROVE QuietWhenAsked'
    OBVIOUS
  <2>1. CASE ActivityPoll \/ SpawnedTask \/ TimeOut \/ RunFails
    BY <2>1 DEF QuietWhenAsked, ActivityPoll, SpawnedTask, TimeOut, RunFails, wcVars, runVars
  <2>2. CASE WorkflowPoll
    BY <2>2 DEF QuietWhenAsked, WorkflowPoll, MayPoll, runVars
  <2>3. CASE Handle
    BY <2>3 DEF QuietWhenAsked, Handle, WC!HandlerStep, WC!NoHandler, WC!Prepare, WC!Process,
                WC!Complete, runVars
  <2>4. CASE Resolve
    BY <2>4 DEF QuietWhenAsked, Resolve, WC!Resolve, WC!workerVars, runVars
  <2>5. CASE Run
    BY <2>5 DEF QuietWhenAsked, Run, TokenOfRun, WC!Run
  <2>6. CASE LoopEnds \/ PollFails \/ Dropped
    BY <2>6 DEF QuietWhenAsked, LoopEnds, PollFails, Dropped, LoseHandler, WC!RunEnds, wcVars
  <2>7. CASE Returns
    BY <2>7 DEF QuietWhenAsked, Returns, wcVars
  <2>8. CASE Shutdown
    BY <2>8 DEF QuietWhenAsked, TypeOK, Shutdown, MayShutDown, wcVars
  <2>9. CASE Crash
    BY <2>9 DEF QuietWhenAsked, Crash
  <2>10. CASE UNCHANGED vars
    BY <2>10 DEF QuietWhenAsked, vars, wcVars, runVars
  <2> QED
    BY <2>1, <2>2, <2>3, <2>4, <2>5, <2>6, <2>7, <2>8, <2>9, <2>10 DEF Next
<1> QED
  BY <1>1, <1>2, TypeCorrect, PTL DEF Spec
-------------------------------------------------------------------------------
(* Seen from either side the composition is the component: what is shown   *)
(* of ActivityTasks and of WorkflowCache holds of the whole Worker.        *)
THEOREM ActivitySide == Spec => AT!Spec
<1>1. Init => AT!Init
  BY DEF Init
<1>2. [Next]_vars => [AT!Next]_(AT!vars)
  <2> SUFFICES ASSUME [Next]_vars PROVE AT!Next \/ UNCHANGED AT!vars
    BY DEF AT!vars
  <2> USE DEF AT!Next, AT!vars, AT!workerVars, AT!coreVars
  <2>1. CASE ActivityPoll
    BY <2>1 DEF ActivityPoll, Activities, Tokens, AT!Tokens
  <2>2. CASE SpawnedTask \/ TimeOut
    BY <2>2 DEF SpawnedTask, TimeOut, Activities, Tokens, AT!Tokens
  <2>3. CASE WorkflowPoll
    BY <2>3 DEF WorkflowPoll, WC!PollActivation, WC!PollEviction, atVars
  <2>4. CASE Handle
    BY <2>4 DEF Handle, WC!HandlerStep, WC!NoHandler, WC!Prepare, WC!Process, WC!Complete,
                atVars
  <2>5. CASE Resolve \/ RunFails \/ LoopEnds \/ Shutdown
    BY <2>5 DEF Resolve, WC!Resolve, RunFails, LoopEnds, LoseHandler, WC!RunEnds, Shutdown, atVars
  <2>6. CASE Run \/ Returns \/ PollFails \/ Dropped \/ Crash
    BY <2>6 DEF Run, Returns, PollFails, Dropped, Crash
  <2>7. CASE UNCHANGED vars
    BY <2>7 DEF vars, atVars
  <2> QED
    BY <2>1, <2>2, <2>3, <2>4, <2>5, <2>6, <2>7 DEF Next
<1> QED
  BY <1>1, <1>2, PTL DEF Spec, AT!Spec

THEOREM WorkflowSide == Spec => WC!Spec
<1>1. Init => WC!Init
  BY DEF Init
<1>2. [Next]_vars => [WC!Next]_(WC!vars)
  <2> SUFFICES ASSUME [Next]_vars PROVE WC!Next \/ UNCHANGED WC!vars
    BY DEF WC!vars
  <2> USE DEF WC!Next, WC!vars, WC!workerVars, WC!coreVars
  <2>1. CASE WorkflowPoll
    BY <2>1 DEF WorkflowPoll
  <2>2. CASE Handle
    BY <2>2 DEF Handle
  <2>3. CASE Resolve
    BY <2>3 DEF Resolve
  <2>4. CASE ActivityPoll
    BY <2>4 DEF ActivityPoll, AT!Start, AT!Cancel, wcVars
  <2>5. CASE SpawnedTask \/ TimeOut
    BY <2>5 DEF SpawnedTask, AT!TaskStep, AT!HandlerEnds, AT!RemoveToken, AT!CompleteTask,
                TimeOut, AT!TimeOut, wcVars
  <2>6. CASE RunFails \/ Returns \/ Shutdown
    BY <2>6 DEF RunFails, Returns, AT!RunEnds, Shutdown, wcVars
  <2>7. CASE Run \/ LoopEnds \/ PollFails \/ Crash
    BY <2>7 DEF Run, LoopEnds, LoseHandler, PollFails, Crash
  <2>8. CASE Dropped
    BY <2>8 DEF Dropped, LoseHandler, AT!RunEnds, wcVars
  <2>9. CASE UNCHANGED vars
    BY <2>9 DEF vars, wcVars
  <2> QED
    BY <2>1, <2>2, <2>3, <2>4, <2>5, <2>6, <2>7, <2>8, <2>9 DEF Next
<1> QED
  BY <1>1, <1>2, PTL DEF Spec, WC!Spec
-------------------------------------------------------------------------------
(* The theorems about the components are about these instances of them,    *)
(* which say the same as WC and AT.                                        *)
Workflows == INSTANCE WorkflowCacheProofs
Tasks == INSTANCE ActivityTasksProofs WITH
            Activities <- Runs \X ActivityOps,
            Handled <- Runs \X HandledOps,
            Waiting <- Runs \X WaitingOps

LEMMA SameWorkflows == WC!Spec => Workflows!Spec
<1> USE DEF WC!vars, WC!workerVars, WC!coreVars,
            Workflows!vars, Workflows!workerVars, Workflows!coreVars,
            WC!Absent, WC!NoAct, WC!Statusless, WC!Success, WC!NewMachine, WC!Ops, WC!Stages,
            Workflows!Absent, Workflows!NoAct, Workflows!Statusless, Workflows!Success,
            Workflows!NewMachine, Workflows!Ops, Workflows!Stages
<1>1. WC!Init => Workflows!Init
  BY Zenon DEF WC!Init, Workflows!Init
<1>2. [WC!Next]_(WC!vars) => [Workflows!Next]_(Workflows!vars)
  <2> USE DEF WC!Delivered, WC!Started, WC!Closed, WC!Replaying, WC!HasNews,
              Workflows!Delivered, Workflows!Started, Workflows!Closed, Workflows!Replaying,
              Workflows!HasNews
  <2>1. ASSUME NEW r \in Runs, NEW op \in WC!Ops, WC!Resolve(r, op)
        PROVE  Workflows!Resolve(r, op)
    BY <2>1, Zenon DEF WC!Resolve, Workflows!Resolve
  <2>2. ASSUME NEW r \in Runs, WC!PollActivation(r)
        PROVE  Workflows!PollActivation(r)
    BY <2>2, Zenon DEF WC!PollActivation, Workflows!PollActivation
  <2>3. ASSUME NEW r \in Runs, WC!PollEviction(r)
        PROVE  Workflows!PollEviction(r)
    BY <2>3, Zenon DEF WC!PollEviction, Workflows!PollEviction
  <2>4. WC!NoHandler \/ WC!Prepare => Workflows!NoHandler \/ Workflows!Prepare
    BY Zenon DEF WC!NoHandler, WC!Prepare, WC!GetOrCreate, WC!Reused,
         Workflows!NoHandler, Workflows!Prepare, Workflows!GetOrCreate, Workflows!Reused
  <2>5. WC!Process => Workflows!Process
    BY Zenon DEF WC!Process, WC!MachineOf, WC!Processed, WC!StillPending, WC!Answer, WC!Polls,
         WC!Got, WC!Moves, WC!Issued, WC!Ends, Workflows!Process, Workflows!MachineOf,
         Workflows!Processed, Workflows!StillPending, Workflows!Answer, Workflows!Polls,
         Workflows!Got, Workflows!Moves, Workflows!Issued, Workflows!Ends
  <2>6. WC!Complete => Workflows!Complete
    BY Zenon DEF WC!Complete, Workflows!Complete
  <2>7. WC!Run \/ WC!RunEnds \/ WC!Crash => Workflows!Run \/ Workflows!RunEnds \/ Workflows!Crash
    BY Zenon DEF WC!Run, WC!RunEnds, WC!Crash, Workflows!Run, Workflows!RunEnds, Workflows!Crash
  <2> QED
    BY <2>1, <2>2, <2>3, <2>4, <2>5, <2>6, <2>7, Zenon
       DEF WC!Next, WC!HandlerStep, Workflows!Next, Workflows!HandlerStep
<1> QED
  BY <1>1, <1>2, PTL DEF WC!Spec, Workflows!Spec

LEMMA SameTasks == AT!Spec => Tasks!Spec
<1> USE DEF AT!Tokens, Tasks!Tokens, AT!NoToken, Tasks!NoToken, AT!NoResult, Tasks!NoResult,
            AT!Ok, Tasks!Ok, AT!Failure, Tasks!Failure, AT!KeyOf, Tasks!KeyOf,
            AT!vars, Tasks!vars, AT!workerVars, Tasks!workerVars, AT!coreVars, Tasks!coreVars
<1>1. AT!Init => Tasks!Init
  BY Zenon DEF AT!Init, Tasks!Init
<1>2. [AT!Next]_(AT!vars) => [Tasks!Next]_(Tasks!vars)
  <2>1. ASSUME NEW a \in Runs \X ActivityOps, AT!Start(a) \/ AT!TimeOut(a)
        PROVE  Tasks!Start(a) \/ Tasks!TimeOut(a)
    BY <2>1, Zenon DEF AT!Start, Tasks!Start, AT!TimeOut, Tasks!TimeOut,
         AT!Rejected, Tasks!Rejected
  <2>2. ASSUME NEW k \in AT!Tokens, AT!Cancel(k)
        PROVE  Tasks!Cancel(k)
    BY <2>2, Zenon DEF AT!Cancel, Tasks!Cancel
  <2>3. ASSUME NEW k \in AT!Tokens, NEW e \in Endings, AT!HandlerEnds(k, e)
        PROVE  Tasks!HandlerEnds(k, e)
    BY <2>3, Zenon DEF AT!HandlerEnds, Tasks!HandlerEnds, AT!ExecResult, Tasks!ExecResult
  <2>4. ASSUME NEW k \in AT!Tokens, AT!RemoveToken(k) \/ AT!CompleteTask(k)
        PROVE  Tasks!RemoveToken(k) \/ Tasks!CompleteTask(k)
    BY <2>4, Zenon DEF AT!RemoveToken, Tasks!RemoveToken, AT!Removed, Tasks!Removed,
         AT!CompleteTask, Tasks!CompleteTask, AT!Current, Tasks!Current,
         AT!NextStatus, Tasks!NextStatus
  <2>5. AT!Run \/ AT!RunEnds \/ AT!Crash => Tasks!Run \/ Tasks!RunEnds \/ Tasks!Crash
    BY Zenon DEF AT!Run, Tasks!Run, AT!RunEnds, Tasks!RunEnds, AT!Crash, Tasks!Crash
  <2> QED
    BY <2>1, <2>2, <2>3, <2>4, <2>5, Zenon DEF AT!Next, Tasks!Next, AT!TaskStep, Tasks!TaskStep
<1> QED
  BY <1>1, <1>2, PTL DEF AT!Spec, Tasks!Spec

(* Their assumptions are the components' own.                              *)
LEMMA WorkflowsAssume ==
    /\ Workflows!RegisteredAssumption
    /\ Workflows!ScriptAssumption
    /\ Workflows!BoundsAssumption
BY CacheAssumption

LEMMA TasksAssume ==
    /\ Tasks!ActivityAssumption
    /\ Tasks!EndingsAssumption
    /\ Tasks!AttemptAssumption
BY TasksAssumption, Zenon
   DEF AT!ActivityAssumption, Tasks!ActivityAssumption, AT!EndingsAssumption,
       Tasks!EndingsAssumption, AT!AttemptAssumption, Tasks!AttemptAssumption,
       AT!HandlerEndings, Tasks!HandlerEndings

(* In the whole Worker the histories still follow the code of their        *)
(* workflows and implement DurableHistory: neither the activity loop       *)
(* beside them nor the ways out of run() can make a run do its work twice. *)
THEOREM WorkflowsCorrect ==
    Spec => /\ []Workflows!HistoryFollowsCode
            /\ []Workflows!NondeterminismOnlyByReuse
            /\ Workflows!HistorySpec
<1>1. Workflows!Spec => []Workflows!HistoryFollowsCode
  BY WorkflowsAssume, Workflows!FollowsCode
<1>2. Workflows!Spec => []Workflows!NondeterminismOnlyByReuse
  BY WorkflowsAssume, Workflows!OnlyByReuse
<1>3. Workflows!Spec => Workflows!HistorySpec
  BY WorkflowsAssume, Workflows!ImplementsHistory
<1> QED
  BY WorkflowSide, SameWorkflows, <1>1, <1>2, <1>3, PTL

(* And the map of tokens is exact, cancels hit their own handler only, and *)
(* outcomes are those of the current attempt.                              *)
THEOREM ActivitiesCorrect ==
    Spec => [](Tasks!MapIsExact /\ Tasks!CancelIsolated /\ Tasks!OutcomeIsCurrent)
<1>1. Tasks!Spec => []Tasks!MapIsExact
  BY TasksAssume, Tasks!MapExact
<1>2. Tasks!Spec => []Tasks!CancelIsolated
  BY TasksAssume, Tasks!CancelsIsolated
<1>3. Tasks!Spec => []Tasks!OutcomeIsCurrent
  BY TasksAssume, Tasks!OutcomesCurrent
<1> QED
  BY ActivitySide, SameTasks, <1>1, <1>2, <1>3, PTL
-------------------------------------------------------------------------------
(* Once shutdown() was called the Worker takes no task, starts no handler  *)
(* and runs no workflow code, in any later run(), until its process ends.  *)
THEOREM NoWorkOnceAsked == Spec => NoWorkAfterRequest
<1> DEFINE Takes  == polled' \subseteq polled /\ \A r \in Runs : out'[r] => out[r]
           Starts == \A k \in Tokens : task'[k] = "running" => task[k] = "running"
<1>1. TypeOK /\ QuietWhenAsked /\ Tasks!TypeOK /\ [Next]_vars
        => [asked /\ asked' => Takes /\ Starts /\ machines' = machines]_vars
  <2> SUFFICES ASSUME TypeOK, QuietWhenAsked, Tasks!TypeOK, Next, asked, asked'
               PROVE  Takes /\ Starts /\ machines' = machines
    OBVIOUS
  <2>1. CASE ActivityPoll \/ WorkflowPoll \/ Handle \/ Crash
    BY <2>1 DEF QuietWhenAsked, ActivityPoll, WorkflowPoll, MayPoll, Handle, WC!HandlerStep,
                WC!NoHandler, WC!Prepare, WC!Process, WC!Complete, Crash
  <2>2. CASE SpawnedTask
    <3>1. PICK k \in Tokens : AT!TaskStep(k)
      BY <2>2 DEF SpawnedTask
    <3>2. task' = task \/ \E s \in {"dead", "reported", "unmapped", "done"} :
                              task' = [task EXCEPT ![k] = s]
      BY <3>1 DEF AT!TaskStep, AT!HandlerEnds, AT!RemoveToken, AT!CompleteTask
    <3>3. task \in [Tokens -> Tasks!TaskStates]
      BY DEF Tasks!TypeOK, Tasks!Tokens, Tokens, Activities
    <3>4. Starts
      BY <3>2, <3>3
    <3>5. polled' \subseteq polled
      BY <3>1 DEF AT!TaskStep, AT!HandlerEnds, AT!RemoveToken, AT!CompleteTask, AT!coreVars
    <3> QED
      BY <2>2, <3>4, <3>5 DEF SpawnedTask, wcVars
  <2>3. CASE TimeOut
    BY <2>3 DEF TimeOut, AT!TimeOut, AT!workerVars, wcVars
  <2>4. CASE Resolve \/ RunFails \/ Shutdown
    BY <2>4 DEF Resolve, WC!Resolve, WC!workerVars, RunFails, Shutdown, wcVars, atVars
  <2>5. CASE Run
    BY <2>5 DEF Run, WC!Run, AT!Run, AT!coreVars
  <2>6. CASE LoopEnds
    BY <2>6 DEF LoopEnds, LoseHandler, WC!RunEnds, WC!coreVars, atVars
  <2>7. CASE Returns
    BY <2>7 DEF Returns, AT!RunEnds, wcVars
  <2>8. CASE PollFails \/ Dropped
    BY <2>8 DEF PollFails, Dropped, LoseHandler, WC!RunEnds, WC!coreVars, AT!RunEnds, wcVars
  <2> QED
    BY <2>1, <2>2, <2>3, <2>4, <2>5, <2>6, <2>7, <2>8 DEF Next
<1>2. Tasks!Spec => []Tasks!TypeOK
  BY TasksAssume, Tasks!TypeCorrect
<1> QED
  BY <1>1, <1>2, TypeCorrect, QuietInv, ActivitySide, SameTasks, PTL
     DEF Spec, NoWorkAfterRequest
-------------------------------------------------------------------------------
(* What the server has resolved of a run's activities is settled, and      *)
(* stays so.                                                               *)
ResolvedIsSettled ==
    \A r \in Runs : \A op \in resolved[r] : Settled(r, op)

Typed ==
    /\ status \in [Runs \X ActivityOps ->
                      {"scheduled", "started", "completed", "failed", "timed_out"}]
    /\ resolved \in [Runs -> SUBSET WC!Ops]

LEMMA SameOps == Workflows!Ops = WC!Ops
BY DEF Workflows!Ops, WC!Ops, Workflows!Stages, WC!Stages

LEMMA TypesOfBoth == Spec => []Typed
<1>1. Workflows!Spec => []Workflows!TypeOK
  BY WorkflowsAssume, Workflows!TypeCorrect
<1>2. Tasks!Spec => []Tasks!TypeOK
  BY TasksAssume, Tasks!TypeCorrect
<1>3. Workflows!TypeOK /\ Tasks!TypeOK => Typed
  <2>1. Workflows!TypeOK => resolved \in [Runs -> SUBSET Workflows!Ops]
    BY DEF Workflows!TypeOK
  <2>2. Tasks!TypeOK => status \in [Runs \X ActivityOps ->
            {"scheduled", "started", "completed", "failed", "timed_out"}]
    BY Zenon DEF Tasks!TypeOK
  <2> QED
    BY <2>1, <2>2, SameOps DEF Typed
<1> QED
  BY ActivitySide, SameTasks, WorkflowSide, SameWorkflows, <1>1, <1>2, <1>3, PTL

(* A verdict of the server is final.                                       *)
LEMMA VerdictsStand ==
    ASSUME Typed, AT!Next \/ UNCHANGED AT!vars,
           NEW a \in Runs \X ActivityOps, status[a] \in {"completed", "failed", "timed_out"}
    PROVE  status'[a] = status[a]
<1>1. ASSUME NEW b \in Runs \X ActivityOps, AT!Start(b) \/ AT!TimeOut(b)
      PROVE  status'[a] = status[a]
  BY <1>1 DEF Typed, AT!Start, AT!TimeOut
<1>2. ASSUME NEW k \in AT!Tokens, AT!Cancel(k) \/ AT!TaskStep(k)
      PROVE  status'[a] = status[a]
  <2>1. CASE AT!CompleteTask(k)
    BY <2>1 DEF Typed, AT!CompleteTask, AT!Current
  <2>2. CASE ~AT!CompleteTask(k)
    BY <1>2, <2>2 DEF AT!Cancel, AT!TaskStep, AT!HandlerEnds, AT!RemoveToken, AT!coreVars
  <2> QED
    BY <2>1, <2>2
<1>3. CASE AT!Run \/ AT!RunEnds \/ AT!Crash \/ UNCHANGED AT!vars
  BY <1>3 DEF AT!Run, AT!RunEnds, AT!Crash, AT!coreVars, AT!vars
<1> QED
  BY <1>1, <1>2, <1>3 DEF AT!Next

(* Nothing but the server resolves.                                        *)
LEMMA OnlyTheServer == ASSUME [Next]_vars, resolved' # resolved PROVE Resolve
BY DEF Next, vars, wcVars, runVars, ActivityPoll, WorkflowPoll, WC!PollActivation,
       WC!PollEviction, Handle, WC!HandlerStep, WC!NoHandler, WC!Prepare, WC!Process,
       WC!Complete, WC!coreVars, SpawnedTask, TimeOut, Run, WC!Run, RunFails, LoopEnds,
       LoseHandler, WC!RunEnds, Returns, PollFails, Dropped, Shutdown, Crash, WC!Crash

LEMMA ResolvedStays == Spec => []ResolvedIsSettled
<1>1. Init => ResolvedIsSettled
  BY DEF Init, WC!Init, ResolvedIsSettled
<1>2. Typed /\ ResolvedIsSettled /\ [Next]_vars /\ [AT!Next]_(AT!vars) => ResolvedIsSettled'
  <2> SUFFICES ASSUME Typed, ResolvedIsSettled, [Next]_vars, [AT!Next]_(AT!vars),
                      NEW r \in Runs, NEW op \in resolved'[r], op \in ActivityOps
               PROVE  status'[<<r, op>>] \in {"completed", "failed", "timed_out"}
    BY DEF ResolvedIsSettled, Settled
  <2>1. CASE op \in resolved[r]
    BY <2>1, VerdictsStand DEF ResolvedIsSettled, Settled
  <2>2. CASE op \notin resolved[r]
    <3>1. Resolve
      BY <2>2, OnlyTheServer
    <3>2. Settled(r, op)
      BY <2>2, <3>1 DEF Resolve, WC!Resolve, Typed
    <3> QED
      BY <3>2, VerdictsStand DEF Settled
  <2> QED
    BY <2>1, <2>2
<1> QED
  BY <1>1, <1>2, TypesOfBoth, ActivitySide, PTL DEF Spec, AT!Spec

(* The activities of a closed run are resolved, since its last task has    *)
(* delivered them all, and resolved is settled; the rest is what the       *)
(* activity side promises of an outcome.                                   *)
THEOREM ClosedIsDecided == Spec => []ClosedAfterActivities
<1>1. Workflows!Spec => []Workflows!IndInv
  BY WorkflowsAssume, Workflows!Inductive
<1>2. Workflows!IndInv => Workflows!HistoriesOK
  BY DEF Workflows!IndInv
<1>3. Workflows!HistoriesOK /\ ResolvedIsSettled /\ Tasks!OutcomeIsCurrent
          => ClosedAfterActivities
  <2> SUFFICES ASSUME Workflows!HistoriesOK, ResolvedIsSettled, Tasks!OutcomeIsCurrent,
                      NEW r \in Runs, WC!Closed(r), NEW op \in ActivityOps, op \in WC!Ops
               PROVE  Decided(r, op)
    BY DEF ClosedAfterActivities
  <2>1. op \in resolved[r]
    <3>1. PICK i \in 1 .. Len(hist[r]) : hist[r][i].ends
      BY DEF WC!Closed
    <3>2. /\ Workflows!HistoryOK(hist[r], resolved[r])
          /\ Workflows!FollowsAt(hist[r], i)
      BY DEF Workflows!HistoriesOK
    <3>3. op \in Workflows!JobsTo(hist[r], i)
      BY <3>1, <3>2, SameOps DEF Workflows!FollowsAt
    <3>4. Workflows!JobsTo(hist[r], i) \subseteq resolved[r]
      BY <3>1, <3>2 DEF Workflows!HistoryOK, Workflows!JobsTo
    <3> QED
      BY <3>3, <3>4
  <2>2. status[<<r, op>>] \in {"completed", "failed", "timed_out"}
    BY <2>1 DEF ResolvedIsSettled, Settled
  <2> QED
    BY <2>2, Zenon DEF Decided, Tasks!OutcomeIsCurrent
<1> QED
  BY <1>1, <1>2, <1>3, WorkflowSide, SameWorkflows, ResolvedStays, ActivitiesCorrect, PTL
==============================================================================
