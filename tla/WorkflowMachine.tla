--------------------------- MODULE WorkflowMachine ---------------------------
(***************************************************************************)
(* One WorkflowMachine (workflow_machine.rs) with the workflow future it   *)
(* drives and the WorkflowContext (workflow.rs) that future holds, from    *)
(* the machine's creation until Core evicts it.                            *)
(*                                                                         *)
(* process_activation runs under the cache's lock, but not in one step: pc *)
(* walks through its loop over the jobs, the first drain of the command    *)
(* channel, the poll of the future, the second drain and the building of   *)
(* the completion.  Workflow code is arbitrary: while it is polled it may  *)
(* start operations, take results, end, or park on some of its channels.   *)
(*                                                                         *)
(* Core (sdk-core, external) is modelled by what the machine relies on: it *)
(* sends one activation at a time, the first with an InitializeWorkflow    *)
(* job; it resolves an operation once, after it was commanded; it evicts   *)
(* with an activation of its own, after which the machine gets no more.    *)
(*                                                                         *)
(* Simplifications:                                                        *)
(*  - the job list is chosen while it is read.  Query, signal, random seed *)
(*    and patch jobs change nothing in the machine (their arms only log),  *)
(*    so an activation made only of those ends its job loop at once;       *)
(*  - the two pending maps, pending_timers and pending_activities, are one *)
(*    set of <<kind, seq>> pairs, and payloads are left out;               *)
(*  - WorkflowCommand::Complete has an arm in the drain and no sender in   *)
(*    the crate, so it is left out, as are the arms of ResolveActivity for *)
(*    a missing status and for the backoff of local activities, which the  *)
(*    machine never schedules.                                             *)
(***************************************************************************)
EXTENDS Naturals, Sequences

CONSTANTS
    MaxSeq,     \* MaxSeq[k], bound: operations of kind k a workflow starts
    ActivityOutcomes, \* the ways activities end that are looked at
    CoopBudget  \* channel reads tokio allows a task before it must yield

Kinds == {"timer", "activity"}

ASSUME MaxSeqAssumption == MaxSeq \in [Kinds -> Nat]
ASSUME OutcomesAssumption == ActivityOutcomes \subseteq {"completed", "failed", "cancelled"}
ASSUME CoopBudgetAssumption == CoopBudget \in Nat \ {0}

VARIABLES
    \* the workflow future and its context
    nextSeq,    \* nextSeq[k]: next_timer_seq and next_activity_seq
    awaiting,   \* operations whose oneshot receiver the future still holds
    seen,       \* seen[op]: what the future received for op
    signalRx,   \* its SignalReceiver: "none", "open", "closed"
    parked,     \* what the future waited for when it last returned Pending
    budget,     \* what is left of tokio's budget for the worker's task
    \* channels between the two
    cmdChan,    \* the mpsc channel of commands
    slot,       \* slot[op]: content of op's oneshot channel
    \* the machine
    pc,         \* place in process_activation, "idle" between activations
    pending,    \* operations whose oneshot sender the machine stores
    outgoing,   \* outgoing_commands
    completed, result, cancelled,
    \* Core
    coreOp,     \* coreOp[op]: "unknown", "running", or its outcome
    coreClosed, \* Core was told that the workflow ended
    evicted,    \* the machine got a RemoveFromCache job
    started,    \* the InitializeWorkflow job was sent
    reply       \* commands of the completion last sent

wfVars   == <<nextSeq, awaiting, seen, signalRx, parked, budget>>
chanVars == <<cmdChan, slot>>
machVars == <<pc, pending, outgoing, completed, result, cancelled>>
coreVars == <<coreOp, coreClosed, evicted, started, reply>>
vars == <<wfVars, chanVars, machVars, coreVars>>
------------------------------------------------------------------------------
Ops == UNION {{k} \X (0 .. MaxSeq[k] - 1) : k \in Kinds}

(* FireTimer carries no value; an activity resolves with a status.         *)
OutcomesOf(k) == IF k = "timer" THEN {"fired"} ELSE ActivityOutcomes
Outcomes == {"fired"} \cup ActivityOutcomes

(* Wake sources beside the operations: WorkflowContext::cancelled and      *)
(* SignalReceiver::recv.                                                   *)
CancelSource == <<"cancel", 0>>
SignalSource == <<"signal", 0>>
Sources == Ops \cup {CancelSource, SignalSource}

(* Commands in the channel and to Core: op stands for StartTimer or        *)
(* ScheduleActivity with its seq.                                          *)
Start(op)    == [variant |-> "start", op |-> op]
Subscribe    == [variant |-> "subscribe"]
Terminal(r)  == [variant |-> "terminal", result |-> r]
StartedBy(s) == {op \in Ops : \E i \in DOMAIN s : s[i] = Start(op)}
Ends(s)      == \E i \in DOMAIN s : s[i].variant = "terminal"

(* The variable workflow_future: polled to readiness it is dropped.        *)
FutureLive == result = "none"

(* A receiver's next poll returns Ready.                                   *)
Ready(src) ==
    CASE src = CancelSource -> cancelled
      [] src = SignalSource -> signalRx = "closed"
      [] OTHER              -> slot[src] # "empty"
------------------------------------------------------------------------------
Init ==
    /\ nextSeq = [k \in Kinds |-> 0]
    /\ awaiting = {} /\ seen = [op \in Ops |-> "none"]
    /\ signalRx = "none" /\ parked = {} /\ budget = CoopBudget
    /\ cmdChan = <<>> /\ slot = [op \in Ops |-> "unborn"]
    /\ pc = "idle" /\ pending = {} /\ outgoing = <<>>
    /\ completed = FALSE /\ result = "none" /\ cancelled = FALSE
    /\ coreOp = [op \in Ops |-> "unknown"]
    /\ coreClosed = FALSE /\ evicted = FALSE /\ started = FALSE /\ reply = <<>>
------------------------------------------------------------------------------
(* Entry of process_activation: the outgoing commands are cleared.  The    *)
(* worker's task has taken the cache's lock, a tokio lock, and has read    *)
(* Core's channels, perhaps yielding in between: it enters with any part   *)
(* of its budget but the whole of it.                                      *)
ClearOutgoing_Forgotten == outgoing
ClearOutgoing           == <<>>

Deliver ==
    /\ pc = "idle" /\ ~evicted
    /\ \/ ~coreClosed /\ pc' = "jobs" /\ started' = TRUE
       \/ started /\ pc' = "evict" /\ UNCHANGED started
    /\ outgoing' = ClearOutgoing /\ reply' = <<>>
    /\ budget' \in 0 .. CoopBudget - 1
    /\ UNCHANGED <<nextSeq, awaiting, seen, signalRx, parked, chanVars, pending,
                   completed, result, cancelled, coreOp, coreClosed, evicted>>

(* complete_timer and complete_activity: remove the pending entry and send *)
(* through its sender; a resolution with no pending entry is only logged.  *)
Unpend_Lookup(op) == pending
Unpend(op)        == pending \ {op}

Deposit_WrongMap(op, v) ==
    [o \in Ops |-> IF o[2] = op[2] /\ o \in pending THEN v ELSE slot[o]]
Deposit(op, v) == IF op \in pending THEN [slot EXCEPT ![op] = v] ELSE slot

HandleResolution(op) ==
    /\ pc = "jobs" /\ coreOp[op] = "running"
    /\ \E v \in OutcomesOf(op[1]) :
          /\ coreOp' = [coreOp EXCEPT ![op] = v]
          /\ slot' = Deposit(op, v)
    /\ pending' = Unpend(op)
    /\ UNCHANGED <<wfVars, cmdChan, pc, outgoing, completed, result, cancelled,
                   coreClosed, evicted, started, reply>>

HandleCancelWorkflow ==
    /\ pc = "jobs" /\ ~cancelled
    /\ cancelled' = TRUE
    /\ UNCHANGED <<wfVars, chanVars, pc, pending, outgoing, completed, result, coreVars>>

HandleRemoveFromCache ==
    /\ pc = "evict"
    /\ completed' = TRUE /\ evicted' = TRUE /\ pc' = "drain1"
    /\ UNCHANGED <<wfVars, chanVars, pending, outgoing, result, cancelled,
                   coreOp, coreClosed, started, reply>>

EndOfJobs ==
    /\ pc = "jobs" /\ pc' = "drain1"
    /\ UNCHANGED <<wfVars, chanVars, pending, outgoing, completed, result, cancelled, coreVars>>
------------------------------------------------------------------------------
(* process_workflow_commands, one received command at a time.  A pending   *)
(* entry under the same key would be replaced, dropping its sender.        *)
InsertPending_Lost(op) == IF op[1] = "timer" THEN pending \cup {op} ELSE pending
InsertPending(op)      == pending \cup {op}

DrainStart(op) ==
    /\ cmdChan # <<>> /\ Head(cmdChan) = Start(op)
    /\ outgoing' = Append(outgoing, Start(op))
    /\ pending'  = InsertPending(op)
    /\ slot' = IF op \in pending THEN [slot EXCEPT ![op] = "dropped"] ELSE slot
    /\ UNCHANGED signalRx

(* The sender of a signal subscription is dropped, closing the receiver.   *)
DrainSubscribe ==
    /\ cmdChan # <<>> /\ Head(cmdChan) = Subscribe
    /\ signalRx' = IF FutureLive THEN "closed" ELSE signalRx
    /\ UNCHANGED <<outgoing, pending, slot>>

Drain ==
    /\ pc \in {"drain1", "drain2"}
    /\ (\E op \in Ops : DrainStart(op)) \/ DrainSubscribe
    /\ cmdChan' = Tail(cmdChan)
    /\ UNCHANGED <<nextSeq, awaiting, seen, parked, budget, pc, completed, result,
                   cancelled, coreVars>>

(* The future is polled only if the workflow has not completed.            *)
ShouldPoll_Always          == FutureLive
ShouldPoll_UnlessCancelled == ~completed /\ ~cancelled
ShouldPoll                 == ~completed

FirstDrainDone ==
    /\ pc = "drain1" /\ cmdChan = <<>>
    /\ \/ ShouldPoll /\ pc' = "poll"
       \/ ~ShouldPoll /\ pc' = "drain2"
    /\ UNCHANGED <<wfVars, chanVars, pending, outgoing, completed, result,
                   cancelled, coreVars>>
------------------------------------------------------------------------------
(* What workflow code does while it is polled.                             *)
BumpSeq_Forgotten(k) == nextSeq
BumpSeq_Twice(k)     == [nextSeq EXCEPT ![k] = @ + 2]
BumpSeq(k)           == [nextSeq EXCEPT ![k] = @ + 1]

(* sleep and execute_activity: take the next sequence number, create the   *)
(* oneshot channel and send the command with its sender.                   *)
IssueOp(k) ==
    /\ pc = "poll" /\ nextSeq[k] < MaxSeq[k]
    /\ LET op == <<k, nextSeq[k]>> IN
          /\ nextSeq'  = BumpSeq(k)
          /\ awaiting' = awaiting \cup {op}
          /\ slot'     = [slot EXCEPT ![op] = "empty"]
          /\ cmdChan'  = Append(cmdChan, Start(op))
    /\ UNCHANGED <<seen, signalRx, parked, budget, machVars, coreVars>>

(* execute_activity whose input does not serialize: it returns an error    *)
(* after it took a sequence number and before it sends a command.          *)
FailSerialization ==
    /\ pc = "poll" /\ nextSeq["activity"] < MaxSeq["activity"]
    /\ nextSeq' = BumpSeq("activity")
    /\ UNCHANGED <<awaiting, seen, signalRx, parked, budget, chanVars, machVars, coreVars>>

(* result_rx.await returns.  A dropped sender ends a sleep as if the timer *)
(* had fired, and an activity with an internal error.                      *)
Observe(op) ==
    /\ pc = "poll" /\ op \in awaiting /\ slot[op] # "empty" /\ budget > 0
    /\ seen' = [seen EXCEPT ![op] = slot[op]]
    /\ awaiting' = awaiting \ {op}
    /\ budget' = budget - 1
    /\ UNCHANGED <<nextSeq, signalRx, parked, chanVars, machVars, coreVars>>

(* A future that lost a race is dropped, and with it its receiver.  No     *)
(* cancellation goes to Core.                                              *)
Abandon(op) ==
    /\ pc = "poll" /\ op \in awaiting
    /\ awaiting' = awaiting \ {op}
    /\ UNCHANGED <<nextSeq, seen, signalRx, parked, budget, chanVars, machVars, coreVars>>

SubscribeSignal ==
    /\ pc = "poll" /\ signalRx = "none"
    /\ signalRx' = "open"
    /\ cmdChan' = Append(cmdChan, Subscribe)
    /\ UNCHANGED <<nextSeq, awaiting, seen, parked, budget, slot, machVars, coreVars>>

(* poll_workflow, Pending: the future waits for some of its sources.  Its  *)
(* waker does nothing.  A tokio channel that has a value returns Pending   *)
(* too when the task's budget is used up; cancelled() first looks at the   *)
(* flag, and depends on the budget only while it waits for a change.       *)
Starved(src) == budget = 0 /\ (src = CancelSource => src \in parked)

Park(W) ==
    /\ pc = "poll" /\ W # {}
    /\ \A src \in W : ~Ready(src) \/ Starved(src)
    /\ parked' = W /\ pc' = "drain2"
    /\ UNCHANGED <<nextSeq, awaiting, seen, signalRx, budget, chanVars, pending,
                   outgoing, completed, result, cancelled, coreVars>>

(* poll_workflow, Ready: a value, an error, or a panic that is caught and  *)
(* becomes an error.  The future is dropped with all its receivers.        *)
Finish(r) ==
    /\ pc = "poll"
    /\ completed' = TRUE /\ result' = r /\ pc' = "drain2"
    /\ awaiting' = {} /\ signalRx' = "none" /\ parked' = {}
    /\ UNCHANGED <<nextSeq, seen, budget, chanVars, pending, outgoing,
                   cancelled, coreVars>>

HeldSources ==
    awaiting \cup {CancelSource} \cup (IF signalRx = "none" THEN {} ELSE {SignalSource})

WorkflowStep ==
    \/ \E k \in Kinds : IssueOp(k)
    \/ FailSerialization
    \/ \E op \in Ops : Observe(op) \/ Abandon(op)
    \/ SubscribeSignal
    \/ \E W \in SUBSET HeldSources : Park(W)
    \/ \E r \in {"ok", "err"} : Finish(r)
------------------------------------------------------------------------------
(* build_completion, and what Core takes from it.                          *)
Completion ==
    IF completed /\ result # "none" THEN Append(outgoing, Terminal(result)) ELSE outgoing

BuildCompletion ==
    /\ pc = "drain2" /\ cmdChan = <<>> /\ pc' = "idle"
    /\ reply' = Completion
    /\ coreOp' = [op \in Ops |-> IF op \in StartedBy(Completion) THEN "running" ELSE coreOp[op]]
    /\ coreClosed' = (coreClosed \/ Ends(Completion))
    /\ UNCHANGED <<wfVars, chanVars, pending, outgoing, completed, result, cancelled,
                   evicted, started>>

MachineStep ==
    \/ \E op \in Ops : HandleResolution(op)
    \/ HandleCancelWorkflow
    \/ HandleRemoveFromCache
    \/ EndOfJobs
    \/ Drain
    \/ FirstDrainDone
    \/ BuildCompletion

Next == Deliver \/ MachineStep \/ WorkflowStep

Spec == Init /\ [][Next]_vars

(* Core owes the machine an activation while an operation is running (and  *)
(* only then: nothing forces a query or a signal to arrive), and resolves  *)
(* every operation it runs.  process_activation is synchronous code, and   *)
(* one poll of workflow code returns.                                      *)
CoreOwes == \E op \in Ops : coreOp[op] = "running"

Fairness ==
    /\ WF_vars(MachineStep)
    /\ WF_vars(WorkflowStep)
    /\ WF_vars(Deliver /\ CoreOwes)
    /\ \A op \in Ops : SF_vars(HandleResolution(op))

FairSpec == Spec /\ Fairness
------------------------------------------------------------------------------
Commands == {Start(op) : op \in Ops} \cup {Terminal(r) : r \in {"ok", "err"}}

(* Every variable has its type; in particular the sequence counters never  *)
(* pass the bound by more than the commands they number.                   *)
TypeOK ==
    /\ nextSeq  \in [Kinds -> Nat] /\ \A k \in Kinds : nextSeq[k] <= MaxSeq[k]
    /\ awaiting \subseteq Ops
    /\ seen     \in [Ops -> Outcomes \cup {"none", "dropped"}]
    /\ signalRx \in {"none", "open", "closed"}
    /\ parked   \subseteq Sources
    /\ budget   \in 0 .. CoopBudget
    /\ cmdChan  \in Seq({Start(op) : op \in Ops} \cup {Subscribe})
    /\ slot     \in [Ops -> Outcomes \cup {"unborn", "empty", "dropped"}]
    /\ pc       \in {"idle", "jobs", "evict", "drain1", "poll", "drain2"}
    /\ pending  \subseteq Ops
    /\ outgoing \in Seq({Start(op) : op \in Ops})
    /\ completed \in BOOLEAN /\ cancelled \in BOOLEAN
    /\ result   \in {"none", "ok", "err"}
    /\ coreOp   \in [Ops -> Outcomes \cup {"unknown", "running"}]
    /\ coreClosed \in BOOLEAN /\ evicted \in BOOLEAN /\ started \in BOOLEAN
    /\ reply    \in Seq(Commands)

AtRest == pc = "idle" /\ ~evicted

(* Between activations the pending maps hold exactly the operations Core   *)
(* is running: nothing Core will resolve is missing, nothing is kept after *)
(* its resolution, although starts pass through a channel and two drains   *)
(* and resolutions through the job loop (complete_timer,                   *)
(* complete_activity, process_workflow_commands).                          *)
PendingMirrorsCore == AtRest => pending = {op \in Ops : coreOp[op] = "running"}

(* No receiver is orphaned: between activations, whatever the workflow     *)
(* still awaits and has no answer for, the machine holds the sender of.    *)
NoOrphanedAwait ==
    AtRest => \A op \in awaiting : slot[op] = "empty" => op \in pending

(* What workflow code gets from sleep and execute_activity is the outcome  *)
(* Core resolved that very operation with: never another's, never the      *)
(* made-up outcome of a dropped sender.                                    *)
ResultFidelity == \A op \in Ops : seen[op] # "none" => seen[op] = coreOp[op]

(* poll_workflow uses a waker that does nothing, so a future parked on a   *)
(* source that is ready will not be polled.  Between activations that      *)
(* happens for timers, activities and cancellation only when tokio's       *)
(* budget ran out during the poll.                                         *)
LostWakeupOnlyOnBudget ==
    AtRest /\ FutureLive /\ budget > 0 =>
        \A src \in parked \ {SignalSource} : ~Ready(src)

(* The commands of one activation are new to Core and, within a kind, in   *)
(* the order workflow code issued them, which is what lets a replay match  *)
(* them with history.                                                      *)
FreshCommands ==
    pc # "idle" =>
        /\ \A op \in StartedBy(outgoing) : coreOp[op] = "unknown"
        /\ \A i, j \in DOMAIN outgoing :
              i < j /\ outgoing[i].op[1] = outgoing[j].op[1]
                 => outgoing[i].op[2] < outgoing[j].op[2]

(* Once a RemoveFromCache job was handled, workflow code does not run and  *)
(* Core learns of no further command to start anything.                    *)
EvictionFreezesWorkflow ==
    [][evicted => UNCHANGED <<nextSeq, awaiting, seen, coreOp>>]_vars

(* A future parked on an unresolved operation is polled again with that    *)
(* operation's outcome in its channel, unless it gives the operation up or *)
(* is evicted first.                                                       *)
ResolutionReachesPoll ==
    \A op \in Ops :
        op \in parked /\ ~Ready(op) ~>
            (pc = "poll" /\ Ready(op)) \/ op \notin awaiting \/ evicted

(* What the properties rest on.  Control: where in process_activation the  *)
(* channel and the outgoing commands can hold anything, and what the flags *)
(* say of each other.                                                      *)
Control ==
    /\ pc \in {"idle", "jobs", "evict", "drain1"} => cmdChan = <<>>
    /\ pc \in {"jobs", "evict", "drain1", "poll"} => outgoing = <<>>
    /\ pc = "poll" => ~completed
    /\ pc \in {"jobs", "evict", "poll"} => ~evicted
    /\ completed <=> result # "none" \/ evicted
    /\ coreClosed => result # "none"
    /\ result # "none" => awaiting = {}
    /\ evicted => cmdChan = <<>> /\ outgoing = <<>>

(* Lifecycle: an operation is unborn, then its start is in the channel,    *)
(* then it is pending, then Core's outcome is in its slot; it is in one of *)
(* these places at a time, and Core knows it from the completion on.       *)
Lifecycle ==
    \A op \in Ops :
        LET sent == op \in StartedBy(cmdChan)
            new  == pc = "drain2" /\ op \in StartedBy(outgoing)
        IN
        /\ slot[op] # "unborn" => op[2] < nextSeq[op[1]]
        /\ slot[op] = "empty" <=> sent \/ op \in pending
        /\ sent => op \notin pending
        /\ op \in pending => coreOp[op] = "running" \/ new
        /\ new => op \in pending
        /\ sent \/ new => coreOp[op] = "unknown"
        /\ coreOp[op] = "running" => op \in pending
        /\ coreOp[op] = "unknown" => slot[op] \in {"unborn", "empty"}
        /\ coreOp[op] \in Outcomes => slot[op] = coreOp[op]
        /\ op \in awaiting => slot[op] # "unborn" /\ seen[op] = "none"
        /\ seen[op] # "none" => seen[op] = coreOp[op]

(* Order: starts of a kind ascend along the commands not yet at Core.      *)
Ascending(s) ==
    \A i, j \in DOMAIN s, o, p \in Ops :
        i < j /\ s[i] = Start(o) /\ s[j] = Start(p) /\ o[1] = p[1] => o[2] < p[2]

Precedes(s, t) ==
    \A o \in StartedBy(s), p \in StartedBy(t) : o[1] = p[1] => o[2] < p[2]

Order == Ascending(outgoing) /\ Ascending(cmdChan) /\ Precedes(outgoing, cmdChan)

(* A future that waits at the end of a poll waits for nothing that is      *)
(* ready, as long as it had budget left.                                   *)
ParkedUnready ==
    pc \in {"drain2", "idle"} /\ ~completed /\ budget > 0 =>
        \A src \in parked \ {SignalSource} : ~Ready(src)

(* These together are inductive.                                           *)
IndInv == TypeOK /\ Control /\ Lifecycle /\ Order /\ ParkedUnready

(* How the machine implements DurableCommands: what an operation has come  *)
(* to, its outcome, and the status of the execution.                       *)
PhaseOf(core, inSlot) ==
    IF core \in Outcomes THEN "resolved"
    ELSE IF core = "running" THEN "running"
    ELSE IF inSlot # "unborn" THEN "issued" ELSE "unused"

OutcomeOf(core) == IF core \in Outcomes THEN core ELSE "none"

phaseBar   == [op \in Ops |-> PhaseOf(coreOp[op], slot[op])]
outcomeBar == [op \in Ops |-> OutcomeOf(coreOp[op])]
statusBar  == IF evicted THEN "evicted" ELSE IF coreClosed THEN "closed" ELSE "open"

Durable == INSTANCE DurableCommands WITH
    phase <- phaseBar, outcome <- outcomeBar, observed <- seen, status <- statusBar

(* Every run of the machine is a run of DurableCommands: an operation is   *)
(* started at Core once, with the activation that issued it, is observed   *)
(* once and with Core's outcome, and never after the end.                  *)
DurableSpec == Durable!Spec
------------------------------------------------------------------------------
(* Statements of the source that do not hold; see the README.              *)

(* "When an activation comes in, it unblocks the appropriate futures and   *)
(* drives the workflow forward": no future is left parked on an operation  *)
(* or a cancellation that is ready.                                        *)
NoLostWakeup ==
    AtRest /\ FutureLive => \A src \in parked \ {SignalSource} : ~Ready(src)

(* The machine maintains "signal channels for receiving signals", and a    *)
(* workflow subscribes "to receive signals of a specific type": while the  *)
(* workflow runs and waits for a signal, its channel stays open.           *)
SubscribedSignalsStayOpen ==
    AtRest /\ FutureLive => signalRx # "closed"
==============================================================================
