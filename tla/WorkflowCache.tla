---------------------------- MODULE WorkflowCache ----------------------------
(***************************************************************************)
(* The cache of workflow machines (WorkflowCache, workflow_machine.rs) and *)
(* the handler that feeds it (handle_workflow_activation, worker.rs), with *)
(* Core and the server replaying histories into it.                        *)
(*                                                                         *)
(* The handler is asynchronous and has three places where it can be        *)
(* dropped: before the machine is looked up, before the activation is      *)
(* processed, and between processing it and completing it.  When run() is  *)
(* over it is dropped wherever it is, and Core with it; the cache belongs  *)
(* to the Worker and is there for the next run().  A crash loses both.     *)
(*                                                                         *)
(* A machine is taken in one step here (WorkflowMachine has the details).  *)
(* Workflow code is deterministic, as it must be, and the same for every   *)
(* run: stage by stage it starts operations, waits for all of them, then   *)
(* ends.                                                                   *)
(*                                                                         *)
(* Core and the server (external) keep the history of every run: one entry *)
(* for each workflow task, with the resolutions its activation carried and *)
(* the commands its completion answered.  For a run Core does not have in  *)
(* its cache it sends the history again from the start, and compares.      *)
(***************************************************************************)
EXTENDS Naturals, Sequences, FiniteSets

CONSTANTS
    Runs,        \* run ids
    Registered,  \* runs whose workflow type has a handler
    Script,      \* Script[i]: operations started by stage i
    MaxRuns,     \* bound: calls of Worker::run
    EvictOpen    \* whether Core's cache is too small for the open runs

ASSUME RegisteredAssumption == Registered \subseteq Runs
(* Every stage starts something, and an operation is started once: each    *)
(* call of sleep and execute_activity takes a sequence number of its own.  *)
ASSUME ScriptAssumption ==
    /\ Script \in Seq(SUBSET UNION {Script[i] : i \in DOMAIN Script})
    /\ \A i \in DOMAIN Script : Script[i] # {}
    /\ \A i, j \in DOMAIN Script : i # j => Script[i] \cap Script[j] = {}
ASSUME BoundsAssumption == MaxRuns \in Nat /\ EvictOpen \in BOOLEAN

Stages == 1 .. Len(Script)
Ops    == UNION {Script[i] : i \in Stages}

VARIABLES
    machines,  \* machines[r]: the cache's machine for r, or Absent
    step,      \* place in run_workflow_loop and handle_workflow_activation
    act,       \* the activation being handled
    reply,     \* its completion, once built
    hist,      \* hist[r]: the tasks of r completed so far
    resolved,  \* resolved[r]: operations the server has resolved
    fed,       \* fed[r]: tasks that went into the machine Core caches
    cached,    \* cached[r]: Core has r in its cache
    out,       \* out[r]: Core waits for r's activation to be completed
    nondet,    \* nondet[r]: a replay did not match the history of r
    runs,      \* calls of run() so far
    reused     \* history variable: runs whose machine was kept for a new start

workerVars == <<machines, step, act, reply>>
coreVars   == <<hist, resolved, fed, cached, out, nondet>>
vars == <<workerVars, coreVars, runs, reused>>
------------------------------------------------------------------------------
Absent     == [exists |-> FALSE]
NoAct      == [run |-> "none"]
Statusless == [status |-> "none"]
Success(cmds, ends) == [status |-> "successful", cmds |-> cmds, ends |-> ends]

(* WorkflowMachine::new: the future is there and has not been polled.      *)
NewMachine == [exists |-> TRUE, stage |-> 0, pending |-> {}, got |-> {},
               completed |-> FALSE, ended |-> FALSE]

(* WorkflowMachine::process_activation: what it leaves and what it answers.*)
Polls(m, a) == ~(m.completed \/ a.evict)

Got(m, a) == m.got \cup (a.jobs \cap m.pending)

Moves_AnyWake(m, a) == Polls(m, a)
Moves(m, a) ==
    Polls(m, a) /\ (m.stage > 0 => Script[m.stage] \subseteq Got(m, a))

Issued(m, a) == IF Moves(m, a) /\ m.stage < Len(Script) THEN Script[m.stage + 1] ELSE {}

Ends(m, a) == Moves(m, a) /\ m.stage = Len(Script)

StillPending_Kept(m, a) == m.pending
StillPending(m, a)      == m.pending \ a.jobs

Processed(m, a) ==
    [m EXCEPT !.stage     = IF Issued(m, a) # {} THEN @ + 1 ELSE @,
              !.got       = Got(m, a),
              !.pending   = StillPending(m, a) \cup Issued(m, a),
              !.completed = @ \/ a.evict \/ Ends(m, a),
              !.ended     = @ \/ Ends(m, a)]

Answer_Accumulated(m, a) == Success(m.pending \cup Issued(m, a), m.ended \/ Ends(m, a))
Answer(m, a)             == Success(Issued(m, a), m.ended \/ Ends(m, a))
------------------------------------------------------------------------------
(* The history of a run.                                                   *)
Delivered(r) == UNION {hist[r][i].jobs : i \in DOMAIN hist[r]}
Started(r)   == UNION {hist[r][i].cmds : i \in DOMAIN hist[r]}
Closed(r)    == \E i \in DOMAIN hist[r] : hist[r][i].ends

Init ==
    /\ machines = [r \in Runs |-> Absent]
    /\ step = "stopped" /\ act = NoAct /\ reply = Statusless
    /\ hist = [r \in Runs |-> <<>>] /\ resolved = [r \in Runs |-> {}]
    /\ fed = [r \in Runs |-> 0] /\ cached = [r \in Runs |-> FALSE]
    /\ out = [r \in Runs |-> FALSE] /\ nondet = [r \in Runs |-> FALSE]
    /\ runs = 0 /\ reused = {}

(* The server resolves an operation it was told to start.                  *)
Resolve(r, op) ==
    /\ op \in Started(r) \ resolved[r] /\ ~Closed(r)
    /\ resolved' = [resolved EXCEPT ![r] = @ \cup {op}]
    /\ UNCHANGED <<workerVars, hist, fed, cached, out, nondet, runs, reused>>
------------------------------------------------------------------------------
(* poll_workflow_activation returns the next activation of a run: the next *)
(* task of its history while that is replayed, then a task with whatever   *)
(* was resolved since.  A run whose replay failed is left out: this worker *)
(* would fail its task again each time.                                    *)
Replaying(r) == fed[r] < Len(hist[r])
HasNews(r)   == hist[r] = <<>> \/ resolved[r] \ Delivered(r) # {}

PollActivation(r) ==
    /\ step = "polling" /\ ~out[r] /\ ~nondet[r]
    /\ ~Closed(r) /\ (Replaying(r) \/ HasNews(r))
    /\ act' = [run |-> r, init |-> fed[r] = 0, evict |-> FALSE,
               replaying |-> Replaying(r),
               jobs |-> IF Replaying(r) THEN hist[r][fed[r] + 1].jobs
                        ELSE resolved[r] \ Delivered(r)]
    /\ step' = "received"
    /\ out' = [out EXCEPT ![r] = TRUE]
    /\ cached' = [cached EXCEPT ![r] = TRUE]
    /\ UNCHANGED <<machines, reply, hist, resolved, fed, nondet, runs, reused>>

(* It returns an eviction, always in an activation of its own: of a closed *)
(* run, or of an open one to make room.                                    *)
PollEviction(r) ==
    /\ step = "polling" /\ ~out[r] /\ cached[r]
    /\ ~EvictOpen => Closed(r)
    /\ act' = [run |-> r, init |-> FALSE, evict |-> TRUE, replaying |-> FALSE, jobs |-> {}]
    /\ step' = "received"
    /\ out' = [out EXCEPT ![r] = TRUE]
    /\ UNCHANGED <<machines, reply, hist, resolved, fed, cached, nondet, runs, reused>>

(* An InitializeWorkflow job for a type without a handler is answered with *)
(* a completion that has no status.                                        *)
NoHandler ==
    /\ step = "received" /\ act.init /\ act.run \notin Registered
    /\ reply' = Statusless /\ step' = "processed"
    /\ UNCHANGED <<machines, act, coreVars, runs, reused>>

(* get_or_create: a machine that is there is kept, also one that has been  *)
(* used, which the activation that starts the run takes for a new one.     *)
GetOrCreate(m) == IF m.exists THEN m ELSE NewMachine

Reused(r) == IF act.init /\ machines[r].exists /\ machines[r] # NewMachine THEN {r} ELSE {}

Prepare ==
    /\ step = "received" /\ (act.init => act.run \in Registered)
    /\ machines' = [machines EXCEPT ![act.run] = IF act.init THEN GetOrCreate(@) ELSE @]
    /\ reused' = reused \cup Reused(act.run)
    /\ step' = "prepared"
    /\ UNCHANGED <<act, reply, coreVars, runs>>

(* WorkflowCache::process_activation looks the machine up by its run id.   *)
(* Without one the completion has no status.                               *)
MachineOf_AnyRun(r) == CHOOSE q \in Runs : machines[q].exists
MachineOf(r)        == r

Process ==
    /\ step = "prepared"
    /\ LET k == MachineOf(act.run)
           m == machines[k]
       IN  IF m.exists
           THEN /\ machines' = [machines EXCEPT ![k] = Processed(m, act)]
                /\ reply' = Answer(m, act)
           ELSE reply' = Statusless /\ UNCHANGED machines
    /\ step' = "processed"
    /\ UNCHANGED <<act, coreVars, runs, reused>>
------------------------------------------------------------------------------
(* complete_workflow_activation, as Core takes it.  A completion without a *)
(* status is rejected (the handler ignores the error), and Core goes on    *)
(* waiting.  The answer to an eviction is not looked at.                   *)
Complete ==
    /\ step = "processed" /\ step' = "polling" /\ act' = NoAct /\ reply' = Statusless
    /\ LET r == act.run
           matches == /\ reply.cmds = hist[r][fed[r] + 1].cmds
                      /\ reply.ends = hist[r][fed[r] + 1].ends
       IN  \/ /\ reply = Statusless
              /\ UNCHANGED <<hist, fed, cached, out, nondet>>
           \/ /\ reply # Statusless /\ act.evict
              /\ fed' = [fed EXCEPT ![r] = 0] /\ cached' = [cached EXCEPT ![r] = FALSE]
              /\ out' = [out EXCEPT ![r] = FALSE]
              /\ UNCHANGED <<hist, nondet>>
           \/ /\ reply # Statusless /\ ~act.evict /\ act.replaying
              /\ nondet' = [nondet EXCEPT ![r] = ~matches]
              /\ fed' = [fed EXCEPT ![r] = @ + 1]
              /\ out' = [out EXCEPT ![r] = FALSE]
              /\ UNCHANGED <<hist, cached>>
           \/ /\ reply # Statusless /\ ~act.evict /\ ~act.replaying
              /\ hist' = [hist EXCEPT ![r] = Append(@, [jobs |-> act.jobs, cmds |-> reply.cmds,
                                                        ends |-> reply.ends])]
              /\ fed' = [fed EXCEPT ![r] = @ + 1]
              /\ out' = [out EXCEPT ![r] = FALSE]
              /\ UNCHANGED <<cached, nondet>>
    /\ UNCHANGED <<machines, resolved, runs, reused>>

(* run() is called: it creates Core anew, with no run in its cache, and    *)
(* the server gives out again the tasks that were not completed.           *)
Run ==
    /\ step = "stopped" /\ step' = "polling"
    /\ runs < MaxRuns /\ runs' = runs + 1
    /\ fed' = [r \in Runs |-> 0]
    /\ cached' = [r \in Runs |-> FALSE] /\ out' = [r \in Runs |-> FALSE]
    /\ nondet' = [r \in Runs |-> FALSE]
    /\ UNCHANGED <<machines, act, reply, hist, resolved, reused>>

(* run() is over, or its future dropped: the handler is dropped where it   *)
(* awaits, and Core hears nothing more.  The Worker keeps workflow_cache.  *)
RunEnds ==
    /\ step # "stopped" /\ step' = "stopped"
    /\ act' = NoAct /\ reply' = Statusless
    /\ UNCHANGED <<machines, coreVars, runs, reused>>

(* The process dies; the next one has a Worker with an empty cache.        *)
Crash ==
    /\ step' = "stopped" /\ act' = NoAct /\ reply' = Statusless
    /\ machines' = [r \in Runs |-> Absent]
    /\ UNCHANGED <<coreVars, runs, reused>>

HandlerStep == NoHandler \/ Prepare \/ Process \/ Complete

Next ==
    \/ \E r \in Runs, op \in Ops : Resolve(r, op)
    \/ \E r \in Runs : PollActivation(r) \/ PollEviction(r)
    \/ HandlerStep
    \/ Run
    \/ RunEnds
    \/ Crash

Spec == Init /\ [][Next]_vars

(* A Worker that is run once: whenever run() is called, after a crash or   *)
(* at first, its cache is empty.                                           *)
OncePerWorker == Run => \A r \in Runs : ~machines[r].exists

OneRunSpec == Init /\ [][Next /\ OncePerWorker]_vars

(* The server resolves what it runs, Core gives every run its turn, and    *)
(* the handler does not stop.                                              *)
Fairness ==
    /\ \A r \in Runs, op \in Ops : WF_vars(Resolve(r, op))
    /\ \A r \in Runs : SF_vars(PollActivation(r))
    /\ WF_vars(HandlerStep)

FairSpec == Spec /\ Fairness
------------------------------------------------------------------------------
Machine == [exists : {TRUE}, stage : 0 .. Len(Script), pending : SUBSET Ops, got : SUBSET Ops,
            completed : BOOLEAN, ended : BOOLEAN]

Task == [jobs : SUBSET Ops, cmds : SUBSET Ops, ends : BOOLEAN]

(* Every variable has its type, and an operation a machine has the result  *)
(* of is not pending in it.                                                *)
TypeOK ==
    /\ machines \in [Runs -> Machine \cup {Absent}]
    /\ \A r \in Runs : machines[r].exists => machines[r].pending \cap machines[r].got = {}
    /\ step \in {"stopped", "polling", "received", "prepared", "processed"}
    /\ act \in {NoAct} \cup [run : Runs, init : BOOLEAN, evict : BOOLEAN,
                             replaying : BOOLEAN, jobs : SUBSET Ops]
    /\ reply \in {Statusless} \cup {Success(c, e) : c \in SUBSET Ops, e \in BOOLEAN}
    /\ hist \in [Runs -> Seq(Task)]
    /\ resolved \in [Runs -> SUBSET Ops]
    /\ fed \in [Runs -> Nat]
    /\ cached \in [Runs -> BOOLEAN] /\ out \in [Runs -> BOOLEAN]
    /\ nondet \in [Runs -> BOOLEAN]
    /\ runs \in 0 .. MaxRuns /\ reused \subseteq Runs

(* What a new machine becomes when the first n tasks of a history go       *)
(* through it.                                                             *)
ReplayOf(h) ==
    LET m[n \in 0 .. Len(h)] ==
            IF n = 0 THEN NewMachine
            ELSE Processed(m[n - 1], [evict |-> FALSE, jobs |-> h[n].jobs])
    IN m

(* Unless a used machine was kept for a new start, the cached machine of a *)
(* run is where a replay of the tasks Core fed it would leave it, whatever *)
(* was dropped, lost or sent again on the way.                             *)
MachineFollowsHistory ==
    \A r \in Runs \ reused :
        step # "stopped" /\ cached[r] /\ ~out[r] => machines[r] = ReplayOf(hist[r])[fed[r]]

(* Workflow code being deterministic, nothing but the reuse of a machine   *)
(* makes a replay differ from its history: no crash, no dropped handler,   *)
(* no task given out twice.                                                *)
NondeterminismOnlyByReuse == \A r \in Runs : nondet[r] => r \in reused

(* A replayed activation is answered with the commands the history has:    *)
(* timers and activities are durable across workflow tasks and restarts.   *)
NoNondeterminism == \A r \in Runs : ~nondet[r]

(* The history of a run follows its code: a stage is started by one task,  *)
(* whole, after all operations of the stage before it were delivered, and  *)
(* the run is ended by the task that delivers the last of them.            *)
HistoryFollowsCode ==
    \A r \in Runs : \A i \in DOMAIN hist[r] :
        LET before == UNION {hist[r][j].cmds : j \in 1 .. i - 1}
            known  == UNION {hist[r][j].jobs : j \in 1 .. i}
        IN  /\ hist[r][i].cmds # {} =>
                  \E s \in Stages : /\ hist[r][i].cmds = Script[s]
                                    /\ before = UNION {Script[t] : t \in 1 .. s - 1}
                                    /\ before \subseteq known
            /\ hist[r][i].ends <=> i = Len(hist[r]) /\ known = Ops

(* The cache, the handler and Core implement DurableHistory: whatever is   *)
(* replayed, evicted, dropped or lost, also into a stale machine, a run's  *)
(* operations are started once and delivered once.                         *)
StartTimes(r, op)    == Cardinality({i \in DOMAIN hist[r] : op \in hist[r][i].cmds})
DeliveryTimes(r, op) == Cardinality({i \in DOMAIN hist[r] : op \in hist[r][i].jobs})

History == INSTANCE DurableHistory WITH
    begun      <- {r \in Runs : hist[r] # <<>>},
    starts     <- [r \in Runs |-> [op \in Ops |-> StartTimes(r, op)]],
    deliveries <- [r \in Runs |-> [op \in Ops |-> DeliveryTimes(r, op)]],
    closed     <- {r \in Runs : Closed(r)}

HistorySpec == History!Spec

(* So each operation is in the commands of one completion and in the jobs *)
(* of one activation of the history, in that order and resolved between    *)
(* them, also when a used machine answered for a new one.                  *)
OnceInHistory ==
    \A r \in Runs, op \in Ops :
        LET s == StartTimes(r, op)
            d == DeliveryTimes(r, op)
        IN  /\ s \in 0 .. 1 /\ d \in 0 .. 1
            /\ d = 1 => op \in resolved[r]
            /\ op \in resolved[r] => s = 1

(* If the worker stays up at some time, every run with a handler closes.   *)
RunsClose == <>[](step # "stopped") => \A r \in Registered : <>Closed(r)
==============================================================================
