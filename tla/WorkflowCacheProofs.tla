------------------------ MODULE WorkflowCacheProofs ------------------------
(***************************************************************************)
(* Proofs about WorkflowCache, for any runs and any script: its invariants *)
(* and that it implements DurableHistory.  First what the invariant is     *)
(* made of, then a lemma for each part of it, then the theorems.           *)
(***************************************************************************)
EXTENDS WorkflowCache, FiniteSetTheorems, WellFoundedInduction, TLAPS

(* Prefix(n): what the first n stages start; CmdsTo, JobsTo: what the      *)
(* first n tasks of a history started and delivered; Given: the            *)
(* operations a machine has started.                                       *)
Prefix(n) == UNION {Script[t] : t \in 1 .. n}
CmdsTo(h, n) == UNION {h[i].cmds : i \in 1 .. n}
JobsTo(h, n) == UNION {h[i].jobs : i \in 1 .. n}
Given(m) == m.got \cup m.pending

(* What holds of a machine that is there, given the history h of its run   *)
(* and the operations res the server has resolved: it has started the      *)
(* first stages, whole, has the results of all of them but the last        *)
(* one's, and none that the server did not resolve; it ends with all       *)
(* results; evictions come only after a task.                              *)
MachineOK(m, h, res) ==
    /\ m.pending \cap m.got = {}
    /\ Given(m) = Prefix(m.stage)
    /\ m.stage > 0 => Prefix(m.stage - 1) \subseteq m.got
    /\ m.got \subseteq res
    /\ m.ended => m.completed /\ m.got = Ops
    /\ m.completed /\ ~m.ended => h # <<>>

MachinesOK == \A r \in Runs : machines[r].exists => MachineOK(machines[r], hist[r], resolved[r])

(* A history and what is resolved of it: nothing is resolved that was      *)
(* not started, nothing delivered that was not resolved or not started     *)
(* in an earlier task.                                                     *)
HistoryOK(h, res) ==
    /\ res \subseteq CmdsTo(h, Len(h))
    /\ \A i \in 1 .. Len(h) : h[i].jobs \subseteq res /\ h[i].jobs \subseteq CmdsTo(h, i - 1)

(* HistoryFollowsCode for task i of a history.                             *)
FollowsAt(h, i) ==
    /\ h[i].cmds # {} =>
          \E s \in Stages : /\ h[i].cmds = Script[s]
                            /\ CmdsTo(h, i - 1) = Prefix(s - 1)
                            /\ CmdsTo(h, i - 1) \subseteq JobsTo(h, i)
    /\ h[i].ends <=> i = Len(h) /\ JobsTo(h, i) = Ops

HistoriesOK ==
    \A r \in Runs : /\ HistoryOK(hist[r], resolved[r])
                    /\ \A i \in 1 .. Len(hist[r]) : FollowsAt(hist[r], i)

(* Core has fed a run no more tasks than there are, only while it has it   *)
(* cached, and at least one when it has it cached and waits for nothing.   *)
CoreOK ==
    \A r \in Runs :
        /\ fed[r] <= Len(hist[r])
        /\ step # "stopped" => /\ fed[r] > 0 => cached[r]
                               /\ cached[r] /\ ~out[r] => fed[r] > 0

(* An activation is in the handler.                                        *)
Handling == step \in {"received", "prepared", "processed"}

(* What the run was told.                                                  *)
Told(r) == JobsTo(hist[r], Len(hist[r]))

(* The activation in the handler is one Core may have out: its run is      *)
(* cached and waited for; its flags are those of what Core has fed; its    *)
(* jobs are the task's of the history, or news that were resolved and      *)
(* never delivered, and the machine has got nothing beyond those.          *)
ActOf(r) ==
    /\ out[r] /\ cached[r]
    /\ act.evict => hist[r] # <<>> /\ ~act.init /\ act.jobs = {}
    /\ ~act.evict =>
        /\ ~nondet[r] /\ ~Closed(r)
        /\ act.init <=> fed[r] = 0
        /\ act.replaying <=> fed[r] < Len(hist[r])
        /\ act.replaying => act.jobs = hist[r][fed[r] + 1].jobs
        /\ ~act.replaying =>
              /\ act.jobs \subseteq resolved[r] /\ act.jobs \cap Told(r) = {}
              /\ hist[r] # <<>> => act.jobs # {}
              /\ machines[r].exists => machines[r].got \subseteq Told(r) \cup act.jobs

ActOK ==
    /\ Handling <=> act # NoAct
    /\ Handling => ActOf(act.run)

(* An eviction was processed and is not yet answered.                      *)
Evicting(r) == step = "processed" /\ act.run = r /\ act.evict

(* A machine is not behind the tasks Core fed it and found to match: it    *)
(* has all results they delivered and has started all they started. It     *)
(* may be ahead of them, having seen a task whose completion was lost.     *)
(* If it was evicted before it ended, it answers nothing, so only tasks    *)
(* without commands can have matched.                                      *)
Ahead(m, h, n) == JobsTo(h, n) \subseteq m.got /\ CmdsTo(h, n) \subseteq Given(m)

AheadOK ==
    \A r \in Runs :
        step # "stopped" /\ cached[r] /\ ~nondet[r] /\ machines[r].exists =>
            /\ Ahead(machines[r], hist[r], fed[r])
            /\ machines[r].completed /\ ~machines[r].ended /\ ~Evicting(r) =>
                  CmdsTo(hist[r], fed[r]) = {}

(* The next task of h would follow the code; what is said of a task's      *)
(* answer: the jobs were taken, the commands are the machine's own, and    *)
(* an end comes without commands.                                          *)
FollowsNext(h, jobs, cmds, ends) ==
    /\ cmds # {} =>
          \E s \in Stages : /\ cmds = Script[s]
                            /\ CmdsTo(h, Len(h)) = Prefix(s - 1)
                            /\ CmdsTo(h, Len(h)) \subseteq JobsTo(h, Len(h)) \cup jobs
    /\ ends <=> JobsTo(h, Len(h)) \cup jobs = Ops

AnswerOf(m, h, jobs, cmds, ends) ==
    /\ m.exists
    /\ jobs \subseteq m.got
    /\ cmds \subseteq Given(m)
    /\ m.completed /\ ~m.ended => cmds = {}
    /\ ends => cmds = {}

(* The completion in hand: one that Core is to compare or to record has    *)
(* an answer of the machine, and one to be recorded follows the code. An   *)
(* eviction is left unanswered only if there is no machine.                *)
ReplyOK ==
    step = "processed" =>
        /\ act.evict /\ reply = Statusless => ~machines[act.run].exists
        /\ ~act.evict /\ reply # Statusless =>
              /\ AnswerOf(machines[act.run], hist[act.run], act.jobs, reply.cmds, reply.ends)
              /\ ~act.replaying => FollowsNext(hist[act.run], act.jobs, reply.cmds, reply.ends)

(* The activation that replays task i of h.                                *)
Sent(h, i) == [evict |-> FALSE, jobs |-> h[i].jobs]

(* Every task of a history has the answer a replay gives.                  *)
Replayed(h) ==
    \A i \in 1 .. Len(h) :
        Answer(ReplayOf(h)[i - 1], Sent(h, i)) = Success(h[i].cmds, h[i].ends)

(* Where the machine of a run that never had a used one stands, when       *)
(* Core's tasks would leave a new one at now: there, or one activation     *)
(* further.                                                                *)
SyncOf(r, now) ==
    /\ step = "received" /\ fed[r] > 0 => machines[r] = now
    /\ step = "prepared" => machines[r] = now
    /\ step = "processed" /\ reply # Statusless =>
          machines[r] = Processed(now, act) /\ reply = Answer(now, act)

(* A run that never had a used machine has never failed a replay, its      *)
(* history replays to the answers it holds, and its machine is where the   *)
(* tasks Core fed it leave a new one, or on its way there.                 *)
SyncAt(r) ==
    /\ ~nondet[r]
    /\ Replayed(hist[r])
    /\ step # "stopped" /\ cached[r] /\ ~out[r] => machines[r] = ReplayOf(hist[r])[fed[r]]
    /\ Handling /\ act.run = r /\ ~act.evict => SyncOf(r, ReplayOf(hist[r])[fed[r]])

SyncOK == \A r \in Runs \ reused : SyncAt(r)

(* The inductive invariant. MachinesOK, HistoriesOK, CoreOK and AheadOK    *)
(* hold of reused machines too and carry HistoryFollowsCode and            *)
(* HistorySpec; SyncOK carries MachineFollowsHistory and                   *)
(* NondeterminismOnlyByReuse.                                              *)
IndInv == /\ TypeOK /\ MachinesOK /\ HistoriesOK /\ CoreOK /\ ActOK
          /\ AheadOK /\ ReplyOK /\ SyncOK
------------------------------------------------------------------------------
(* The script, as the assumption has it.                                   *)
LEMMA ScriptFacts ==
    /\ Len(Script) \in Nat /\ DOMAIN Script = 1 .. Len(Script)
    /\ Stages = DOMAIN Script /\ 0 .. Len(Script) \subseteq Nat
    /\ \A s \in Stages : Script[s] # {} /\ Script[s] \subseteq Ops
    /\ \A s, t \in Stages : s # t => Script[s] \cap Script[t] = {}
  BY ScriptAssumption DEF Stages, Ops

(* One stage more.                                                         *)
LEMMA PrefixNext ==
    ASSUME NEW n \in Nat
    PROVE  Prefix(n + 1) = Prefix(n) \cup Script[n + 1]
<1>1. 1 .. n + 1 = (1 .. n) \cup {n + 1}
  OBVIOUS
<1> QED
  BY <1>1 DEF Prefix

(* No stage, and all stages.                                               *)
LEMMA PrefixEnds == Prefix(0) = {} /\ Prefix(Len(Script)) = Ops
  BY ScriptFacts DEF Prefix, Ops, Stages

(* Stages start operations of the script.                                  *)
LEMMA PrefixIn == ASSUME NEW s \in 0 .. Len(Script) PROVE Prefix(s) \subseteq Ops
  BY ScriptFacts DEF Prefix, Stages

(* The next stage starts something, and nothing of an earlier one.         *)
LEMMA StageFresh ==
    ASSUME NEW s \in 0 .. Len(Script), s # Len(Script)
    PROVE  /\ s + 1 \in Stages /\ Script[s + 1] # {}
           /\ Script[s + 1] \cap Prefix(s) = {} /\ Script[s + 1] \subseteq Ops
<1>1. s \in Nat /\ Len(Script) \in Nat /\ s < Len(Script)
  BY ScriptFacts
<1>2. s + 1 \in Stages /\ \A t \in 1 .. s : t \in Stages /\ t # s + 1
  BY <1>1 DEF Stages
<1>3. \A t \in 1 .. s : Script[s + 1] \cap Script[t] = {}
  BY <1>2, ScriptFacts
<1>4. Script[s + 1] # {} /\ Script[s + 1] \subseteq Ops
  BY <1>2, ScriptFacts
<1>5. Script[s + 1] \cap Prefix(s) = {}
  BY <1>3 DEF Prefix
<1> QED
  BY <1>2, <1>4, <1>5

(* The fields of a machine.                                                *)
LEMMA MachineFields ==
    ASSUME NEW m \in Machine
    PROVE  /\ m.stage \in 0 .. Len(Script) /\ m.exists
           /\ m.pending \in SUBSET Ops /\ m.got \in SUBSET Ops
           /\ m.completed \in BOOLEAN /\ m.ended \in BOOLEAN
  BY DEF Machine

(* A machine that moves starts a stage, or ends if there is none left.     *)
LEMMA IssuedFacts ==
    ASSUME NEW m \in Machine, NEW a, a.evict \in BOOLEAN
    PROVE  /\ Issued(m, a) # {} <=> Moves(m, a) /\ m.stage # Len(Script)
           /\ Issued(m, a) # {} => Issued(m, a) = Script[m.stage + 1]
           /\ Issued(m, a) \subseteq Ops
           /\ Ends(m, a) => Moves(m, a) /\ Issued(m, a) = {}
           /\ m.completed \/ a.evict => ~Moves(m, a)
<1>1. m.stage \in 0 .. Len(Script) /\ m.completed \in BOOLEAN
  BY MachineFields
<1>2. m.stage # Len(Script) <=> m.stage < Len(Script)
  BY <1>1, ScriptFacts
<1>3. CASE m.stage # Len(Script)
  BY <1>1, <1>2, <1>3, StageFresh DEF Issued, Ends, Moves, Polls
<1>4. CASE m.stage = Len(Script)
  BY <1>1, <1>2, <1>4 DEF Issued, Ends, Moves, Polls
<1> QED
  BY <1>3, <1>4

(* A machine moves when it has the results of all it has started.          *)
LEMMA MovesGot ==
    ASSUME NEW m \in Machine, NEW a, NEW h, NEW res, MachineOK(m, h, res), Moves(m, a)
    PROVE  Got(m, a) = Prefix(m.stage)
<1>1. m.stage \in Nat /\ m.stage <= Len(Script)
  BY ScriptFacts, MachineFields
<1>2. Got(m, a) \subseteq Prefix(m.stage)
  BY DEF MachineOK, Given, Got
<1>3. CASE m.stage = 0
  BY <1>2, <1>3, PrefixEnds
<1>4. CASE m.stage # 0
  <2>1. Prefix(m.stage) = Prefix(m.stage - 1) \cup Script[m.stage]
    BY <1>1, <1>4, PrefixNext, m.stage - 1 \in Nat, m.stage - 1 + 1 = m.stage
  <2>2. Script[m.stage] \subseteq Got(m, a)
    BY <1>1, <1>4 DEF Moves
  <2>3. Prefix(m.stage - 1) \subseteq Got(m, a)
    BY <1>1, <1>4 DEF MachineOK, Got
  <2> QED
    BY <1>2, <2>1, <2>2, <2>3
<1> QED
  BY <1>3, <1>4

(* process_activation, field by field.                                     *)
LEMMA ProcessedFields ==
    ASSUME NEW m \in Machine, NEW a, a.evict \in BOOLEAN, a.jobs \in SUBSET Ops
    PROVE  /\ Processed(m, a) \in Machine
           /\ Processed(m, a).exists
           /\ Processed(m, a).stage = IF Issued(m, a) # {} THEN m.stage + 1 ELSE m.stage
           /\ Processed(m, a).got = Got(m, a)
           /\ Processed(m, a).pending = (m.pending \ a.jobs) \cup Issued(m, a)
           /\ Processed(m, a).completed <=> m.completed \/ a.evict \/ Ends(m, a)
           /\ Processed(m, a).ended <=> m.ended \/ Ends(m, a)
<1>1. Processed(m, a).exists /\ Processed(m, a).got = Got(m, a)
  BY DEF Processed, StillPending, Machine
<1>2. Processed(m, a).stage = IF Issued(m, a) # {} THEN m.stage + 1 ELSE m.stage
  BY DEF Processed, StillPending, Machine
<1>3. Processed(m, a).pending = (m.pending \ a.jobs) \cup Issued(m, a)
  BY DEF Processed, StillPending, Machine
<1>4. Processed(m, a).completed <=> m.completed \/ a.evict \/ Ends(m, a)
  BY DEF Processed, StillPending, Machine
<1>5. Processed(m, a).ended <=> m.ended \/ Ends(m, a)
  BY DEF Processed, StillPending, Machine
<1>6. Got(m, a) \in SUBSET Ops
  BY MachineFields DEF Got
<1>7. Issued(m, a) # {} => m.stage + 1 \in 0 .. Len(Script)
  BY IssuedFacts, ScriptFacts, MachineFields
<1>9. Issued(m, a) \in SUBSET Ops
  BY IssuedFacts
<1>8. Processed(m, a) \in Machine
  BY <1>6, <1>7, <1>9 DEF Processed, StillPending, Machine
<1> QED
  BY <1>1, <1>2, <1>3, <1>4, <1>5, <1>8

(* process_activation keeps what holds of a machine, if it is told only    *)
(* what is resolved and evicted only after a task.                         *)
LEMMA ProcessedOK ==
    ASSUME NEW m \in Machine, NEW h, NEW res, MachineOK(m, h, res),
           NEW a, a.evict \in BOOLEAN, a.jobs \in SUBSET Ops, a.jobs \subseteq res,
           a.evict => h # <<>>
    PROVE  MachineOK(Processed(m, a), h, res)
<1> SUFFICES ASSUME NEW p, p = Processed(m, a) PROVE MachineOK(p, h, res)
  OBVIOUS
<1>1. /\ m.stage \in 0 .. Len(Script) /\ m.stage \in Nat
      /\ m.completed \in BOOLEAN /\ m.ended \in BOOLEAN
  BY ScriptFacts, MachineFields
<1>p. /\ p.stage = IF Issued(m, a) # {} THEN m.stage + 1 ELSE m.stage
      /\ p.got = Got(m, a) /\ p.pending = (m.pending \ a.jobs) \cup Issued(m, a)
      /\ (p.completed <=> m.completed \/ a.evict \/ Ends(m, a))
      /\ (p.ended <=> m.ended \/ Ends(m, a))
  BY ProcessedFields
<1>2. CASE Issued(m, a) = {}
  <2>1. /\ p.stage = m.stage /\ p.got = Got(m, a) /\ p.pending = m.pending \ a.jobs
        /\ (p.completed <=> m.completed \/ a.evict \/ Ends(m, a))
        /\ (p.ended <=> m.ended \/ Ends(m, a))
    BY <1>2, <1>p
  <2>2. Ends(m, a) => Got(m, a) = Ops
    BY MovesGot, PrefixEnds DEF Ends
  <2>3. m.ended => Got(m, a) = Ops
    BY MachineFields DEF MachineOK, Got
  <2>4. p.pending \cap p.got = {} /\ Given(p) = Given(m) /\ m.got \subseteq p.got /\ p.got \subseteq res
    BY <2>1 DEF MachineOK, Given, Got
  <2> QED
    BY <2>1, <2>2, <2>3, <2>4 DEF MachineOK
<1>3. CASE Issued(m, a) # {}
  <2>1. /\ Moves(m, a) /\ m.stage # Len(Script) /\ Issued(m, a) = Script[m.stage + 1]
        /\ ~m.completed /\ ~a.evict /\ ~Ends(m, a)
    BY <1>3, IssuedFacts
  <2>2. /\ p.stage = m.stage + 1 /\ p.got = Got(m, a)
        /\ p.pending = (m.pending \ a.jobs) \cup Script[m.stage + 1]
        /\ ~p.completed /\ (p.ended <=> m.ended)
    BY <1>1, <1>3, <1>p, <2>1
  <2>3. ~m.ended
    BY <2>1 DEF MachineOK
  <2>4. Got(m, a) = Prefix(m.stage)
    BY <2>1, MovesGot
  <2>5. Script[m.stage + 1] \cap Prefix(m.stage) = {}
    BY <1>1, <2>1, StageFresh
  <2>6. Prefix(m.stage + 1) = Prefix(m.stage) \cup Script[m.stage + 1]
    BY <1>1, PrefixNext
  <2>7. m.pending \ a.jobs = {}
    BY <2>4 DEF MachineOK, Given, Got
  <2>8. p.pending \cap p.got = {} /\ Given(p) = Prefix(p.stage) /\ p.got \subseteq res
    BY <2>2, <2>4, <2>5, <2>6, <2>7 DEF MachineOK, Given, Got
  <2>9. p.stage - 1 = m.stage /\ ~p.ended
    BY <1>1, <2>2, <2>3
  <2> QED
    BY <2>2, <2>4, <2>8, <2>9 DEF MachineOK
<1> QED
  BY <1>2, <1>3
------------------------------------------------------------------------------
(* The order of the naturals as a relation, for the library's WFMin.       *)
Below == {p \in Nat \X Nat : p[1] < p[2]}

(* The naturals have no endless descent.                                   *)
LEMMA BelowWellFounded == IsWellFoundedOn(Below, Nat)
<1>1. Below = OpToRel(<, Nat)
  BY Zenon DEF Below, OpToRel
<1> QED
  BY <1>1, NatLessThanWellFounded, Zenon

(* A set of naturals that is not empty has a least element: the form in    *)
(* which these proofs use induction over a history.                        *)
LEMMA LeastElement ==
    ASSUME NEW S, S \subseteq Nat, S # {}
    PROVE  \E n \in S : \A k \in S : n <= k
<1>1. PICK n \in S : \A k \in S : ~(<<k, n>> \in Below)
  BY BelowWellFounded, WFMin, Zenon
<1>2. ASSUME NEW k \in S PROVE n <= k
  <2>1. k \in Nat /\ n \in Nat
    BY <1>1
  <2>2. k < n => <<k, n>> \in Below
    BY <2>1 DEF Below
  <2> QED
    BY <1>1, <2>1, <2>2
<1> QED
  BY <1>1, <1>2

(* f is the replay of the first k tasks of h.                              *)
Traces(h, f, k) ==
    f = [n \in 0 .. k |-> IF n = 0 THEN NewMachine
                          ELSE Processed(f[n - 1], [evict |-> FALSE, jobs |-> h[n].jobs])]

(* The replay of no task exists.                                           *)
LEMMA TraceStart == ASSUME NEW h PROVE \E f : Traces(h, f, 0)
<1> DEFINE f == [n \in 0 .. 0 |-> NewMachine]
<1>1. f = [n \in 0 .. 0 |-> IF n = 0 THEN NewMachine
                            ELSE Processed(f[n - 1], [evict |-> FALSE, jobs |-> h[n].jobs])]
  BY \A n \in 0 .. 0 : n = 0
<1> QED
  BY <1>1, Zenon DEF Traces

(* A replay can be continued by one task.                                  *)
LEMMA TraceStep ==
    ASSUME NEW h, NEW k \in Nat, NEW f, Traces(h, f, k)
    PROVE  \E g : Traces(h, g, k + 1)
<1> DEFINE next == Processed(f[k], [evict |-> FALSE, jobs |-> h[k + 1].jobs])
           g == [n \in 0 .. k + 1 |-> IF n = k + 1 THEN next ELSE f[n]]
<1>1. \A n \in 0 .. k : f[n] = IF n = 0 THEN NewMachine
                               ELSE Processed(f[n - 1], [evict |-> FALSE, jobs |-> h[n].jobs])
  BY Zenon DEF Traces
<1>2. ASSUME NEW n \in 0 .. k + 1
      PROVE  g[n] = IF n = 0 THEN NewMachine
                    ELSE Processed(g[n - 1], [evict |-> FALSE, jobs |-> h[n].jobs])
  <2>1. CASE n = k + 1
    <3>1. g[n] = next /\ n # 0 /\ n - 1 = k /\ k \in 0 .. k + 1 /\ k # k + 1
      BY <2>1
    <3>2. g[n - 1] = f[k]
      BY <3>1
    <3> HIDE DEF g
    <3> QED
      BY <2>1, <3>1, <3>2
  <2>2. CASE n # k + 1
    <3>1. g[n] = f[n] /\ n \in 0 .. k
      BY <2>2
    <3>2. n # 0 => n - 1 \in 0 .. k + 1 /\ n - 1 # k + 1
      BY <3>1
    <3>3. n # 0 => g[n - 1] = f[n - 1]
      BY <3>2
    <3> HIDE DEF g
    <3> QED
      BY <1>1, <3>1, <3>3
  <2> QED
    BY <2>1, <2>2
<1>3. g = [n \in 0 .. k + 1 |-> g[n]]
  OBVIOUS
<1> HIDE DEF g
<1>4. Traces(h, g, k + 1)
  BY <1>2, <1>3, Zenon DEF Traces
<1> QED
  BY <1>4

(* Every number of tasks can be replayed: if not, take the least that      *)
(* cannot.                                                                 *)
LEMMA TraceExists ==
    ASSUME NEW h, NEW k \in Nat
    PROVE  \E f : Traces(h, f, k)
<1> DEFINE S == {n \in Nat : ~ \E f : Traces(h, f, n)}
<1> SUFFICES ASSUME S # {} PROVE FALSE
  OBVIOUS
<1>1. PICK n \in S : \A j \in S : n <= j
  <2>1. S \subseteq Nat
    OBVIOUS
  <2> HIDE DEF S
  <2> QED
    BY <2>1, LeastElement
<1>2. n # 0
  BY <1>1, TraceStart
<1>3. n \in Nat /\ n - 1 \in Nat /\ ~(n <= n - 1) /\ n - 1 + 1 = n
  BY <1>1, <1>2
<1>4. n - 1 \notin S
  <2> HIDE DEF S
  <2> QED
    BY <1>1, <1>3
<1>5. \E f : Traces(h, f, n - 1)
  BY <1>3, <1>4
<1>6. \E g : Traces(h, g, n)
  BY <1>3, <1>5, TraceStep
<1> QED
  BY <1>1, <1>6

(* ReplayOf satisfies its recursive equation.                              *)
LEMMA ReplayUnfolds ==
    ASSUME NEW h \in Seq(Task)
    PROVE  /\ ReplayOf(h)[0] = NewMachine
           /\ \A n \in 1 .. Len(h) : ReplayOf(h)[n] = Processed(ReplayOf(h)[n - 1], Sent(h, n))
<1>1. Len(h) \in Nat
  OBVIOUS
<1>2. PICK f : Traces(h, f, Len(h))
  BY <1>1, TraceExists
<1>3. Traces(h, ReplayOf(h), Len(h))
  BY <1>2, Zenon DEF Traces, ReplayOf
<1>4. \A n \in 0 .. Len(h) :
          ReplayOf(h)[n] = IF n = 0 THEN NewMachine
                           ELSE Processed(ReplayOf(h)[n - 1], [evict |-> FALSE, jobs |-> h[n].jobs])
  BY <1>3, Zenon DEF Traces
<1>5. 0 \in 0 .. Len(h) /\ \A n \in 1 .. Len(h) : n \in 0 .. Len(h) /\ n # 0
  BY <1>1
<1> QED
  BY <1>4, <1>5, Zenon DEF Sent

(* A further task does not change how the tasks before it replay: if it    *)
(* did, take the first where it does.                                      *)
LEMMA ReplayExtends ==
    ASSUME NEW h \in Seq(Task), NEW t \in Task, NEW k \in 0 .. Len(h)
    PROVE  ReplayOf(Append(h, t))[k] = ReplayOf(h)[k]
<1> DEFINE g == Append(h, t)
           S == {n \in 0 .. Len(h) : ReplayOf(g)[n] # ReplayOf(h)[n]}
<1>1. g \in Seq(Task) /\ Len(g) = Len(h) + 1 /\ Len(h) \in Nat /\ \A n \in 1 .. Len(h) : g[n] = h[n]
  OBVIOUS
<1> HIDE DEF g
<1>2. ReplayOf(g)[0] = ReplayOf(h)[0]
  BY <1>1, ReplayUnfolds
<1> SUFFICES ASSUME S # {} PROVE FALSE
  BY DEF g
<1>3. PICK n \in S : \A j \in S : n <= j
  <2>1. S \subseteq Nat
    BY <1>1
  <2> HIDE DEF S
  <2> QED
    BY <2>1, LeastElement
<1>4. n # 0 /\ n \in 0 .. Len(h) /\ ReplayOf(g)[n] # ReplayOf(h)[n]
  BY <1>2, <1>3
<1>5. n \in 1 .. Len(h) /\ n \in 1 .. Len(g) /\ n - 1 \in 0 .. Len(h) /\ ~(n <= n - 1)
  BY <1>1, <1>4
<1>6. n - 1 \notin S
  <2> HIDE DEF S
  <2> QED
    BY <1>3, <1>5
<1>7. ReplayOf(g)[n - 1] = ReplayOf(h)[n - 1]
  BY <1>5, <1>6
<1>8. Sent(g, n) = Sent(h, n)
  BY <1>1, <1>5, Zenon DEF Sent
<1>9. ReplayOf(g)[n] = Processed(ReplayOf(g)[n - 1], Sent(g, n))
  BY <1>1, <1>5, ReplayUnfolds
<1>10. ReplayOf(h)[n] = Processed(ReplayOf(h)[n - 1], Sent(h, n))
  BY <1>5, ReplayUnfolds
<1> QED
  BY <1>4, <1>7, <1>8, <1>9, <1>10

(* Of an activation that is no eviction a machine takes only the jobs.     *)
LEMMA OnlyJobsMatter ==
    ASSUME NEW m, NEW a, a.evict = FALSE
    PROVE  /\ Processed(m, a) = Processed(m, [evict |-> FALSE, jobs |-> a.jobs])
           /\ Answer(m, a) = Answer(m, [evict |-> FALSE, jobs |-> a.jobs])
<1> DEFINE b == [evict |-> FALSE, jobs |-> a.jobs]
<1>1. b.evict = FALSE /\ b.jobs = a.jobs
  OBVIOUS
<1> HIDE DEF b
<1>2. Got(m, a) = Got(m, b) /\ StillPending(m, a) = StillPending(m, b)
  BY <1>1, Zenon DEF Got, StillPending
<1>3. Polls(m, a) = Polls(m, b)
  BY <1>1, Zenon DEF Polls
<1>4. Moves(m, a) = Moves(m, b)
  BY <1>2, <1>3, Zenon DEF Moves
<1>5. Issued(m, a) = Issued(m, b) /\ Ends(m, a) = Ends(m, b)
  BY <1>4, Zenon DEF Issued, Ends
<1>6. Processed(m, a) = Processed(m, b) /\ Answer(m, a) = Answer(m, b)
  BY <1>1, <1>2, <1>5, Zenon DEF Processed, Answer
<1> QED
  BY <1>6, Zenon DEF b
------------------------------------------------------------------------------
(* The fields of the tasks of a history.                                   *)
LEMMA TaskFields ==
    ASSUME NEW h \in Seq(Task)
    PROVE  /\ Len(h) \in Nat /\ DOMAIN h = 1 .. Len(h)
           /\ \A i \in 1 .. Len(h) : /\ h[i] \in Task /\ h[i].jobs \in SUBSET Ops
                                     /\ h[i].cmds \in SUBSET Ops /\ h[i].ends \in BOOLEAN
<1>1. Len(h) \in Nat /\ DOMAIN h = 1 .. Len(h) /\ \A i \in 1 .. Len(h) : h[i] \in Task
  OBVIOUS
<1>2. \A t \in Task : t.jobs \in SUBSET Ops /\ t.cmds \in SUBSET Ops /\ t.ends \in BOOLEAN
  BY DEF Task
<1> QED
  BY <1>1, <1>2

(* What one task more started and delivered.                               *)
LEMMA ToNext ==
    ASSUME NEW h, NEW n \in Nat
    PROVE  /\ CmdsTo(h, 0) = {} /\ JobsTo(h, 0) = {}
           /\ CmdsTo(h, n + 1) = CmdsTo(h, n) \cup h[n + 1].cmds
           /\ JobsTo(h, n + 1) = JobsTo(h, n) \cup h[n + 1].jobs
<1>1. 1 .. n + 1 = (1 .. n) \cup {n + 1} /\ 1 .. 0 = {}
  OBVIOUS
<1> QED
  BY <1>1 DEF CmdsTo, JobsTo

(* A task recorded at the end leaves what went before.                     *)
LEMMA AppendTo ==
    ASSUME NEW h \in Seq(Task), NEW t \in Task, NEW n \in 0 .. Len(h)
    PROVE  CmdsTo(Append(h, t), n) = CmdsTo(h, n) /\ JobsTo(Append(h, t), n) = JobsTo(h, n)
<1>1. \A i \in 1 .. n : Append(h, t)[i] = h[i]
  OBVIOUS
<1> QED
  BY <1>1 DEF CmdsTo, JobsTo

(* Started and Delivered are the whole history's.                          *)
LEMMA Totals ==
    ASSUME TypeOK, NEW r \in Runs
    PROVE  /\ Started(r) = CmdsTo(hist[r], Len(hist[r]))
           /\ Delivered(r) = JobsTo(hist[r], Len(hist[r]))
<1>1. hist[r] \in Seq(Task)
  BY DEF TypeOK
<1>2. DOMAIN hist[r] = 1 .. Len(hist[r])
  BY <1>1, TaskFields
<1> QED
  BY <1>2 DEF Started, Delivered, CmdsTo, JobsTo

(* Recording a task that follows the code keeps a history in order.        *)
LEMMA HistoryGrows ==
    ASSUME NEW h \in Seq(Task), NEW t \in Task, NEW res, HistoryOK(h, res), t.jobs \subseteq res,
           \A i \in 1 .. Len(h) : FollowsAt(h, i) /\ ~h[i].ends,
           t.cmds # {} => \E s \in Stages : /\ t.cmds = Script[s]
                                            /\ CmdsTo(h, Len(h)) = Prefix(s - 1)
                                            /\ CmdsTo(h, Len(h)) \subseteq JobsTo(h, Len(h)) \cup t.jobs,
           t.ends <=> JobsTo(h, Len(h)) \cup t.jobs = Ops
    PROVE  /\ HistoryOK(Append(h, t), res)
           /\ \A i \in 1 .. Len(Append(h, t)) : FollowsAt(Append(h, t), i)
<1> SUFFICES ASSUME NEW g, g = Append(h, t)
             PROVE  HistoryOK(g, res) /\ \A i \in 1 .. Len(g) : FollowsAt(g, i)
  OBVIOUS
<1>1. Len(h) \in Nat /\ Len(g) = Len(h) + 1 /\ g[Len(h) + 1] = t /\ Len(g) - 1 = Len(h)
  OBVIOUS
<1>2. \A i \in 1 .. Len(h) : g[i] = h[i]
  OBVIOUS
<1>3. \A n \in 0 .. Len(h) : CmdsTo(g, n) = CmdsTo(h, n) /\ JobsTo(g, n) = JobsTo(h, n)
  BY AppendTo
<1>4. \A i \in 1 .. Len(g) : (i \in 1 .. Len(h) /\ i # Len(g)) \/ i = Len(h) + 1
  BY <1>1
<1>5. \A i \in 1 .. Len(h) : i \in 0 .. Len(h) /\ i - 1 \in 0 .. Len(h)
  BY <1>1
<1>6. /\ CmdsTo(g, Len(g)) = CmdsTo(h, Len(h)) \cup t.cmds
      /\ JobsTo(g, Len(g)) = JobsTo(h, Len(h)) \cup t.jobs
      /\ CmdsTo(g, Len(g) - 1) = CmdsTo(h, Len(h))
  <2>1. CmdsTo(g, Len(h)) = CmdsTo(h, Len(h)) /\ JobsTo(g, Len(h)) = JobsTo(h, Len(h))
    BY <1>1, <1>3, Len(h) \in 0 .. Len(h)
  <2>2. /\ CmdsTo(g, Len(h) + 1) = CmdsTo(g, Len(h)) \cup g[Len(h) + 1].cmds
        /\ JobsTo(g, Len(h) + 1) = JobsTo(g, Len(h)) \cup g[Len(h) + 1].jobs
    BY <1>1, ToNext
  <2>3. g[Len(h) + 1].cmds = t.cmds /\ g[Len(h) + 1].jobs = t.jobs
    BY <1>1
  <2> QED
    BY <1>1, <2>1, <2>2, <2>3
<1>7. HistoryOK(g, res)
  <2>1. res \subseteq CmdsTo(g, Len(g))
    BY <1>6 DEF HistoryOK
  <2>2. ASSUME NEW i \in 1 .. Len(g)
        PROVE  g[i].jobs \subseteq res /\ g[i].jobs \subseteq CmdsTo(g, i - 1)
    <3>1. CASE i \in 1 .. Len(h)
      BY <1>2, <1>3, <1>5, <3>1 DEF HistoryOK
    <3>2. CASE i = Len(h) + 1
      BY <1>1, <1>6, <3>2 DEF HistoryOK
    <3> QED
      BY <1>4, <3>1, <3>2
  <2> QED
    BY <2>1, <2>2 DEF HistoryOK
<1>8. ASSUME NEW i \in 1 .. Len(g) PROVE FollowsAt(g, i)
  <2>1. CASE i \in 1 .. Len(h)
    <3>1. g[i] = h[i] /\ CmdsTo(g, i - 1) = CmdsTo(h, i - 1) /\ JobsTo(g, i) = JobsTo(h, i)
      BY <1>2, <1>3, <1>5, <2>1
    <3>2. i # Len(g) /\ ~h[i].ends /\ FollowsAt(h, i)
      BY <1>1, <2>1
    <3> QED
      BY <3>1, <3>2, Zenon DEF FollowsAt
  <2>2. CASE i = Len(h) + 1
    <3>1. g[i] = t /\ i = Len(g) /\ i - 1 = Len(h)
      BY <1>1, <2>2
    <3> QED
      BY <1>6, <3>1 DEF FollowsAt
  <2> QED
    BY <1>4, <2>1, <2>2
<1> QED
  BY <1>7, <1>8

(* FollowsAt for every task is HistoryFollowsCode.                         *)
LEMMA FollowsMeans ==
    ASSUME TypeOK, \A r \in Runs : \A i \in 1 .. Len(hist[r]) : FollowsAt(hist[r], i)
    PROVE  HistoryFollowsCode
<1> SUFFICES ASSUME NEW r \in Runs, NEW i \in DOMAIN hist[r]
             PROVE  LET before == UNION {hist[r][j].cmds : j \in 1 .. i - 1}
                        known  == UNION {hist[r][j].jobs : j \in 1 .. i}
                    IN  /\ hist[r][i].cmds # {} =>
                              \E s \in Stages : /\ hist[r][i].cmds = Script[s]
                                                /\ before = UNION {Script[t] : t \in 1 .. s - 1}
                                                /\ before \subseteq known
                        /\ hist[r][i].ends <=> i = Len(hist[r]) /\ known = Ops
  BY Zenon DEF HistoryFollowsCode
<1>1. hist[r] \in Seq(Task)
  BY DEF TypeOK
<1>2. FollowsAt(hist[r], i)
  BY <1>1, TaskFields
<1> QED
  BY <1>2, Zenon DEF FollowsAt, CmdsTo, JobsTo, Prefix
------------------------------------------------------------------------------
(* The fields of the activation in the handler.                            *)
LEMMA ActFacts ==
    ASSUME TypeOK, act # NoAct
    PROVE  /\ act.run \in Runs /\ act.jobs \in SUBSET Ops
           /\ act.init \in BOOLEAN /\ act.evict \in BOOLEAN /\ act.replaying \in BOOLEAN
  BY DEF TypeOK

(* The fields of a completion.                                             *)
LEMMA ReplyFacts ==
    ASSUME TypeOK, reply # Statusless
    PROVE  /\ reply.cmds \in SUBSET Ops /\ reply.ends \in BOOLEAN
           /\ reply = Success(reply.cmds, reply.ends)
<1>1. PICK c \in SUBSET Ops, e \in BOOLEAN : reply = Success(c, e)
  BY DEF TypeOK
<1>2. reply.cmds = c /\ reply.ends = e
  BY <1>1, Zenon DEF Success
<1> QED
  BY <1>1, <1>2

(* What the cache has for a run.                                           *)
LEMMA MachineOrAbsent ==
    ASSUME TypeOK, NEW r \in Runs
    PROVE  /\ machines[r].exists \in BOOLEAN
           /\ machines[r].exists => machines[r] \in Machine
           /\ ~machines[r].exists => machines[r] = Absent
<1>1. machines[r] \in Machine \/ machines[r] = Absent
  BY DEF TypeOK
<1>2. ~Absent.exists /\ Absent.exists \in BOOLEAN
  BY Zenon DEF Absent
<1> QED
  BY <1>1, <1>2, MachineFields

(* What Core and the server have for a run.                                *)
LEMMA RunFacts ==
    ASSUME TypeOK, NEW r \in Runs
    PROVE  /\ hist[r] \in Seq(Task) /\ Len(hist[r]) \in Nat /\ resolved[r] \in SUBSET Ops
           /\ fed[r] \in Nat
  BY DEF TypeOK

(* A new machine is in order, whatever the history.                        *)
LEMMA NewMachineFacts ==
    /\ NewMachine \in Machine
    /\ \A h, res : MachineOK(NewMachine, h, res)
    /\ ~NewMachine.completed /\ NewMachine.got = {} /\ NewMachine.exists
<1>1. /\ NewMachine.stage = 0 /\ NewMachine.pending = {} /\ NewMachine.got = {}
      /\ ~NewMachine.completed /\ ~NewMachine.ended /\ NewMachine.exists
  BY Zenon DEF NewMachine
<1>2. 0 \in 0 .. Len(Script)
  BY ScriptFacts
<1>3. NewMachine \in Machine
  BY <1>2 DEF NewMachine, Machine
<1>4. ASSUME NEW h, NEW res PROVE MachineOK(NewMachine, h, res)
  BY <1>1, PrefixEnds DEF MachineOK, Given
<1> QED
  BY <1>1, <1>3, <1>4

(* What an activation delivers is resolved, and was started by the tasks   *)
(* that Core fed before it.                                                *)
LEMMA ActJobs ==
    ASSUME TypeOK, ActOK, HistoriesOK, CoreOK, Handling
    PROVE  /\ act.run \in Runs /\ act.jobs \subseteq resolved[act.run]
           /\ ~act.evict => act.jobs \subseteq CmdsTo(hist[act.run], fed[act.run])
<1> DEFINE r == act.run
<1>1. act # NoAct /\ ActOf(r) /\ r \in Runs
  BY ActFacts DEF ActOK
<1>2. /\ HistoryOK(hist[r], resolved[r]) /\ fed[r] \in Nat /\ Len(hist[r]) \in Nat
      /\ fed[r] <= Len(hist[r])
  BY <1>1, RunFacts DEF HistoriesOK, CoreOK
<1> HIDE DEF r
<1>3. CASE act.evict
  BY <1>1, <1>3 DEF ActOf, r
<1>4. CASE ~act.evict /\ act.replaying
  <2>1. /\ act.jobs = hist[r][fed[r] + 1].jobs
        /\ fed[r] + 1 \in 1 .. Len(hist[r]) /\ fed[r] + 1 - 1 = fed[r]
    BY <1>1, <1>2, <1>4 DEF ActOf
  <2>2. /\ hist[r][fed[r] + 1].jobs \subseteq resolved[r]
        /\ hist[r][fed[r] + 1].jobs \subseteq CmdsTo(hist[r], fed[r])
    BY <1>2, <2>1 DEF HistoryOK
  <2> QED
    BY <1>1, <2>1, <2>2 DEF r
<1>5. CASE ~act.evict /\ ~act.replaying
  <2>1. act.jobs \subseteq resolved[r] /\ fed[r] = Len(hist[r])
    BY <1>1, <1>2, <1>5 DEF ActOf
  <2> QED
    BY <1>1, <1>2, <2>1 DEF HistoryOK, r
<1> QED
  BY <1>3, <1>4, <1>5

(* A machine stays in order when the history grows or more is resolved.    *)
LEMMA Monotone ==
    ASSUME NEW m, NEW h, NEW res, NEW g, NEW more, MachineOK(m, h, res),
           res \subseteq more, h # <<>> => g # <<>>
    PROVE  MachineOK(m, g, more)
  BY DEF MachineOK

(* The four ways Core takes a completion.                                  *)
LEMMA CompleteCases ==
    ASSUME TypeOK, ActOK, Complete, NEW r, r = act.run
    PROVE  /\ r \in Runs /\ step = "processed" /\ step' = "polling" /\ act # NoAct
           /\ act' = NoAct /\ reply' = Statusless
           /\ UNCHANGED <<machines, resolved, runs, reused>>
           /\ \/ /\ reply = Statusless
                 /\ UNCHANGED <<hist, fed, cached, out, nondet>>
              \/ /\ reply # Statusless /\ act.evict
                 /\ fed' = [fed EXCEPT ![r] = 0] /\ cached' = [cached EXCEPT ![r] = FALSE]
                 /\ out' = [out EXCEPT ![r] = FALSE]
                 /\ UNCHANGED <<hist, nondet>>
              \/ /\ reply # Statusless /\ ~act.evict /\ act.replaying
                 /\ nondet' = [nondet EXCEPT ![r] = ~(/\ reply.cmds = hist[r][fed[r] + 1].cmds
                                                      /\ reply.ends = hist[r][fed[r] + 1].ends)]
                 /\ fed' = [fed EXCEPT ![r] = @ + 1]
                 /\ out' = [out EXCEPT ![r] = FALSE]
                 /\ UNCHANGED <<hist, cached>>
              \/ /\ reply # Statusless /\ ~act.evict /\ ~act.replaying
                 /\ hist' = [hist EXCEPT ![r] = Append(@, [jobs |-> act.jobs, cmds |-> reply.cmds,
                                                           ends |-> reply.ends])]
                 /\ fed' = [fed EXCEPT ![r] = @ + 1]
                 /\ out' = [out EXCEPT ![r] = FALSE]
                 /\ UNCHANGED <<cached, nondet>>
<1>1. step = "processed" /\ act # NoAct /\ r \in Runs
  BY ActFacts DEF ActOK, Complete, Handling
<1> QED
  BY <1>1, Zenon DEF Complete

(* What Prepare does to the cache: get_or_create at a start, nothing       *)
(* otherwise.                                                              *)
LEMMA PrepareEffect ==
    ASSUME TypeOK, ActOK, Prepare
    PROVE  /\ act.run \in Runs /\ act # NoAct
           /\ \A r \in Runs : r # act.run => machines'[r] = machines[r]
           /\ ~act.init => machines' = machines
           /\ act.init /\ machines[act.run].exists => machines'[act.run] = machines[act.run]
           /\ act.init /\ ~machines[act.run].exists => machines'[act.run] = NewMachine
           /\ machines' = [r \in Runs |-> machines'[r]]
<1>1. act # NoAct /\ act.run \in Runs
  BY ActFacts DEF ActOK, Handling, Prepare
<1>2. machines' = [machines EXCEPT ![act.run] = IF act.init THEN GetOrCreate(@) ELSE @]
  BY DEF Prepare
<1>3. machines = [r \in Runs |-> machines[r]]
  BY DEF TypeOK
<1> QED
  BY <1>1, <1>2, <1>3 DEF GetOrCreate

(* What Process does to the cache and what it answers.                     *)
LEMMA ProcessEffect ==
    ASSUME TypeOK, ActOK, Process
    PROVE  /\ act.run \in Runs /\ act # NoAct
           /\ \A r \in Runs : r # act.run => machines'[r] = machines[r]
           /\ machines[act.run].exists =>
                 /\ machines'[act.run] = Processed(machines[act.run], act)
                 /\ reply' = Answer(machines[act.run], act)
           /\ ~machines[act.run].exists => machines' = machines /\ reply' = Statusless
           /\ machines' = [r \in Runs |-> machines'[r]]
<1>1. act # NoAct /\ act.run \in Runs
  BY ActFacts DEF ActOK, Handling, Process
<1>2. machines = [r \in Runs |-> machines[r]]
  BY DEF TypeOK
<1> QED
  BY <1>1, <1>2 DEF Process, MachineOf
------------------------------------------------------------------------------
(* Every step keeps MachinesOK.                                            *)
LEMMA MachinesStep ==
    ASSUME IndInv, [Next]_vars
    PROVE  MachinesOK'
<1> USE DEF IndInv
<1>1. ASSUME UNCHANGED <<machines, hist, resolved>> PROVE MachinesOK'
  BY <1>1 DEF MachinesOK
<1>2. ASSUME NEW q \in Runs, NEW op \in Ops, Resolve(q, op) PROVE MachinesOK'
  <2>1. UNCHANGED <<machines, hist>> /\ \A r \in Runs : resolved[r] \subseteq resolved'[r]
    BY <1>2 DEF Resolve, TypeOK, workerVars
  <2> QED
    BY <2>1, Monotone DEF MachinesOK
<1>3. ASSUME Prepare PROVE MachinesOK'
  <2>1. UNCHANGED <<hist, resolved>>
    BY <1>3 DEF Prepare, coreVars
  <2> SUFFICES ASSUME NEW r \in Runs, machines'[r].exists
               PROVE  MachineOK(machines'[r], hist[r], resolved[r])
    BY <2>1 DEF MachinesOK
  <2>2. machines'[r] = machines[r] \/ machines'[r] = NewMachine
    BY <1>3, PrepareEffect
  <2> QED
    BY <2>2, NewMachineFacts DEF MachinesOK
<1>4. ASSUME Process PROVE MachinesOK'
  <2>1. UNCHANGED <<hist, resolved>> /\ Handling
    BY <1>4 DEF Process, coreVars, Handling
  <2> SUFFICES ASSUME NEW r \in Runs, machines'[r].exists
               PROVE  MachineOK(machines'[r], hist[r], resolved[r])
    BY <2>1 DEF MachinesOK
  <2>2. CASE machines'[r] = machines[r]
    BY <2>2 DEF MachinesOK
  <2>3. CASE machines'[r] # machines[r]
    <3>1. r = act.run /\ machines[r].exists /\ machines'[r] = Processed(machines[r], act)
      BY <1>4, <2>3, ProcessEffect
    <3>2. MachineOK(machines[r], hist[r], resolved[r]) /\ machines[r] \in Machine
      BY <3>1, MachineOrAbsent DEF MachinesOK
    <3>3. /\ act.evict \in BOOLEAN /\ act.jobs \in SUBSET Ops /\ act.jobs \subseteq resolved[r]
          /\ act.evict => hist[r] # <<>>
      BY <2>1, <3>1, ActFacts, ActJobs DEF ActOK, ActOf
    <3> QED
      BY <3>1, <3>2, <3>3, ProcessedOK
  <2> QED
    BY <2>2, <2>3
<1>5. ASSUME Complete PROVE MachinesOK'
  <2>1. UNCHANGED <<machines, resolved>>
    BY <1>5 DEF Complete
  <2>2. \A r \in Runs : hist[r] # <<>> => hist'[r] # <<>>
    <3>1. CASE UNCHANGED hist
      BY <3>1
    <3>2. CASE \E t : hist' = [hist EXCEPT ![act.run] = Append(@, t)]
      <4>1. PICK t : hist' = [hist EXCEPT ![act.run] = Append(@, t)]
        BY <3>2
      <4>2. \A r \in Runs : hist'[r] = hist[r] \/ hist'[r] = Append(hist[r], t)
        BY <4>1 DEF TypeOK
      <4>3. \A r \in Runs : Append(hist[r], t) # <<>>
        OBVIOUS
      <4> QED
        BY <4>2, <4>3
    <3> QED
      BY <1>5, <3>1, <3>2 DEF Complete
  <2> QED
    BY <2>1, <2>2, Monotone DEF MachinesOK
<1>6. ASSUME Crash PROVE MachinesOK'
  <2>1. \A r \in Runs : machines'[r] = Absent
    BY <1>6 DEF Crash
  <2>2. ~Absent.exists
    BY Zenon DEF Absent
  <2> QED
    BY <2>1, <2>2 DEF MachinesOK
<1>7. ASSUME NEW r \in Runs, PollActivation(r) \/ PollEviction(r) PROVE MachinesOK'
  BY <1>1, <1>7 DEF PollActivation, PollEviction
<1>8. ASSUME NoHandler \/ Run \/ RunEnds \/ UNCHANGED vars PROVE MachinesOK'
  BY <1>1, <1>8 DEF NoHandler, Run, RunEnds, vars, workerVars, coreVars
<1> QED
  BY <1>2, <1>3, <1>4, <1>5, <1>6, <1>7, <1>8 DEF Next, HandlerStep

(* The type of the cache's map.                                            *)
Machines(f) == /\ f \in [Runs -> Machine \cup {Absent}]
               /\ \A r \in Runs : f[r].exists => f[r].pending \cap f[r].got = {}

(* Every step keeps the type of the cache's map.                           *)
LEMMA MachinesTyped ==
    ASSUME TypeOK, ActOK, MachinesOK', [Next]_vars
    PROVE  Machines(machines')
<1>1. SUFFICES machines' \in [Runs -> Machine \cup {Absent}]
  BY DEF Machines, MachinesOK, MachineOK
<1>2. CASE UNCHANGED machines
  BY <1>2 DEF TypeOK
<1>3. CASE Prepare
  <2>1. \A r \in Runs : machines'[r] \in {machines[r], NewMachine}
    BY <1>3, PrepareEffect
  <2>2. machines' = [r \in Runs |-> machines'[r]]
    BY <1>3, PrepareEffect
  <2> QED
    BY <2>1, <2>2, NewMachineFacts DEF TypeOK
<1>4. CASE Process
  <2>1. \A r \in Runs : machines'[r] \in Machine \cup {Absent}
    <3> SUFFICES ASSUME NEW r \in Runs, machines'[r] # machines[r]
                 PROVE  machines'[r] \in Machine
      BY DEF TypeOK
    <3>1. r = act.run /\ machines[r].exists /\ machines'[r] = Processed(machines[r], act) /\ act # NoAct
      BY <1>4, ProcessEffect
    <3> QED
      BY <3>1, MachineOrAbsent, ActFacts, ProcessedFields
  <2>2. machines' = [r \in Runs |-> machines'[r]]
    BY <1>4, ProcessEffect
  <2> QED
    BY <2>1, <2>2
<1>5. CASE Crash
  BY <1>5 DEF Crash
<1> QED
  BY <1>2, <1>3, <1>4, <1>5 DEF Next, HandlerStep, Resolve, PollActivation, PollEviction,
     NoHandler, Complete, Run, RunEnds, vars, workerVars

(* The answer of a machine is a completion.                                *)
LEMMA AnswerTyped ==
    ASSUME NEW m \in Machine, NEW a, a.evict \in BOOLEAN
    PROVE  Answer(m, a) \in {Success(c, e) : c \in SUBSET Ops, e \in BOOLEAN}
<1>1. Issued(m, a) \in SUBSET Ops
  BY IssuedFacts
<1>2. (m.ended \/ Ends(m, a)) \in BOOLEAN
  OBVIOUS
<1>3. ASSUME NEW c \in SUBSET Ops, NEW e \in BOOLEAN
      PROVE  Success(c, e) \in {Success(d, f) : d \in SUBSET Ops, f \in BOOLEAN}
  OBVIOUS
<1>4. Success(Issued(m, a), m.ended \/ Ends(m, a)) \in {Success(d, f) : d \in SUBSET Ops, f \in BOOLEAN}
  <2> DEFINE i == Issued(m, a)
             b == m.ended \/ Ends(m, a)
  <2>1. i \in SUBSET Ops /\ b \in BOOLEAN
    BY <1>1, <1>2
  <2> HIDE DEF i, b
  <2>2. Success(i, b) \in {Success(d, f) : d \in SUBSET Ops, f \in BOOLEAN}
    BY <1>3, <2>1
  <2> QED
    BY <2>2 DEF i, b
<1> QED
  BY <1>4 DEF Answer

(* Complete keeps the types.                                               *)
LEMMA CompleteTyped ==
    ASSUME TypeOK, ActOK, Complete
    PROVE  /\ hist' \in [Runs -> Seq(Task)] /\ fed' \in [Runs -> Nat]
           /\ cached' \in [Runs -> BOOLEAN] /\ out' \in [Runs -> BOOLEAN]
           /\ nondet' \in [Runs -> BOOLEAN]
<1>1. PICK r \in Runs : r = act.run /\ act # NoAct
  BY CompleteCases
<1>2. /\ hist \in [Runs -> Seq(Task)] /\ fed \in [Runs -> Nat] /\ cached \in [Runs -> BOOLEAN]
      /\ out \in [Runs -> BOOLEAN] /\ nondet \in [Runs -> BOOLEAN]
  BY DEF TypeOK
<1>3. ASSUME reply # Statusless
      PROVE  [jobs |-> act.jobs, cmds |-> reply.cmds, ends |-> reply.ends] \in Task
  BY <1>1, <1>3, ActFacts, ReplyFacts DEF Task
<1>4. CASE UNCHANGED <<hist, fed, cached, out, nondet>>
  BY <1>2, <1>4
<1>5. CASE /\ fed' = [fed EXCEPT ![r] = 0] /\ cached' = [cached EXCEPT ![r] = FALSE]
           /\ out' = [out EXCEPT ![r] = FALSE] /\ UNCHANGED <<hist, nondet>>
  BY <1>2, <1>5
<1>6. CASE /\ \E b \in BOOLEAN : nondet' = [nondet EXCEPT ![r] = b]
           /\ fed' = [fed EXCEPT ![r] = @ + 1]
           /\ out' = [out EXCEPT ![r] = FALSE] /\ UNCHANGED <<hist, cached>>
  BY <1>2, <1>6
<1>7. CASE /\ \E t \in Task : hist' = [hist EXCEPT ![r] = Append(@, t)]
           /\ fed' = [fed EXCEPT ![r] = @ + 1]
           /\ out' = [out EXCEPT ![r] = FALSE] /\ UNCHANGED <<cached, nondet>>
  <2>1. PICK t \in Task : hist' = [hist EXCEPT ![r] = Append(@, t)]
    BY <1>7
  <2>2. Append(hist[r], t) \in Seq(Task)
    BY <1>2
  <2>3. hist' \in [Runs -> Seq(Task)]
    BY <1>2, <2>1, <2>2
  <2> QED
    BY <1>2, <1>7, <2>3
<1> QED
  BY <1>1, <1>3, <1>4, <1>5, <1>6, <1>7, CompleteCases

(* Every step keeps TypeOK.                                                *)
LEMMA TypeStep ==
    ASSUME TypeOK, ActOK, MachinesOK', [Next]_vars
    PROVE  TypeOK'
<1> USE DEF TypeOK
<1> DEFINE Activations == {NoAct} \cup [run : Runs, init : BOOLEAN, evict : BOOLEAN,
                                        replaying : BOOLEAN, jobs : SUBSET Ops]
           Replies == {Statusless} \cup {Success(c, e) : c \in SUBSET Ops, e \in BOOLEAN}
           Rest == /\ step \in {"stopped", "polling", "received", "prepared", "processed"}
                   /\ act \in Activations
                   /\ reply \in Replies
                   /\ hist \in [Runs -> Seq(Task)]
                   /\ resolved \in [Runs -> SUBSET Ops]
                   /\ fed \in [Runs -> Nat]
                   /\ cached \in [Runs -> BOOLEAN] /\ out \in [Runs -> BOOLEAN]
                   /\ nondet \in [Runs -> BOOLEAN]
                   /\ runs \in 0 .. MaxRuns /\ reused \subseteq Runs
<1>1. Machines(machines')
  BY MachinesTyped
<1>2. SUFFICES Rest'
  BY <1>1 DEF Machines
<1>3. ASSUME NEW r \in Runs, NEW op \in Ops, Resolve(r, op) PROVE Rest'
  BY <1>3 DEF Resolve, workerVars
<1>4. ASSUME NEW r \in Runs, PollActivation(r) PROVE Rest'
  <2>1. act' \in Activations
    <3>1. (IF Replaying(r) THEN hist[r][fed[r] + 1].jobs ELSE resolved[r] \ Delivered(r)) \in SUBSET Ops
      <4>1. CASE Replaying(r)
        <5>1. fed[r] + 1 \in 1 .. Len(hist[r]) /\ hist[r] \in Seq(Task)
          BY <4>1 DEF Replaying
        <5> QED
          BY <4>1, <5>1, TaskFields
      <4>2. CASE ~Replaying(r)
        BY <4>2
      <4> QED
        BY <4>1, <4>2
    <3>2. Replaying(r) \in BOOLEAN /\ (fed[r] = 0) \in BOOLEAN
      BY DEF Replaying
    <3> QED
      BY <1>4, <3>1, <3>2, Zenon DEF PollActivation
  <2> HIDE DEF Activations
  <2> QED
    BY <1>4, <2>1 DEF PollActivation
<1>5. ASSUME NEW r \in Runs, PollEviction(r) PROVE Rest'
  <2>1. act' \in Activations
    BY <1>5 DEF PollEviction
  <2> HIDE DEF Activations
  <2> QED
    BY <1>5, <2>1 DEF PollEviction
<1>6. CASE NoHandler
  BY <1>6 DEF NoHandler, coreVars
<1>7. CASE Prepare
  BY <1>7, PrepareEffect DEF Prepare, coreVars, Reused
<1>8. CASE Process
  <2>1. reply' \in Replies
    <3>1. CASE machines[act.run].exists
      <4>1. /\ machines[act.run] \in Machine /\ act.evict \in BOOLEAN
            /\ reply' = Answer(machines[act.run], act)
        BY <1>8, <3>1, ProcessEffect, MachineOrAbsent, ActFacts
      <4> QED
        BY <4>1, AnswerTyped
    <3>2. CASE ~machines[act.run].exists
      BY <1>8, <3>2, ProcessEffect
    <3> QED
      BY <3>1, <3>2
  <2> HIDE DEF Replies
  <2> QED
    BY <1>8, <2>1 DEF Process, coreVars
<1>9. CASE Complete
  BY <1>9, CompleteTyped DEF Complete
<1>10. CASE Run
  BY <1>10, BoundsAssumption DEF Run
<1>11. CASE RunEnds
  BY <1>11 DEF RunEnds, coreVars
<1>12. CASE Crash
  BY <1>12 DEF Crash, coreVars
<1>13. CASE UNCHANGED vars
  BY <1>13 DEF vars, workerVars, coreVars
<1> QED
  BY <1>3, <1>4, <1>5, <1>6, <1>7, <1>8, <1>9, <1>10, <1>11, <1>12, <1>13 DEF Next, HandlerStep
------------------------------------------------------------------------------
(* Every step keeps HistoriesOK: only Complete records a task, and         *)
(* ReplyOK says that it is in order.                                       *)
LEMMA HistoriesStep ==
    ASSUME IndInv, [Next]_vars
    PROVE  HistoriesOK'
<1> USE DEF IndInv
<1>1. CASE UNCHANGED <<hist, resolved>>
  BY <1>1 DEF HistoriesOK
<1>2. ASSUME NEW q \in Runs, NEW op \in Ops, Resolve(q, op) PROVE HistoriesOK'
  <2>1. /\ UNCHANGED hist /\ op \in CmdsTo(hist[q], Len(hist[q]))
        /\ resolved' = [resolved EXCEPT ![q] = @ \cup {op}]
    BY <1>2, Totals DEF Resolve
  <2>2. ASSUME NEW r \in Runs PROVE HistoryOK(hist[r], resolved'[r])
    <3>1. CASE r = q
      <4>1. resolved'[r] = resolved[r] \cup {op}
        BY <2>1, <3>1 DEF TypeOK
      <4>2. HistoryOK(hist[r], resolved[r])
        BY DEF HistoriesOK
      <4> QED
        BY <2>1, <3>1, <4>1, <4>2 DEF HistoryOK
    <3>2. CASE r # q
      BY <2>1, <3>2 DEF HistoriesOK, TypeOK
    <3> QED
      BY <3>1, <3>2
  <2> QED
    BY <2>1, <2>2 DEF HistoriesOK
<1>3. ASSUME Complete, ~UNCHANGED hist PROVE HistoriesOK'
  <2>1. PICK r \in Runs : r = act.run
    BY <1>3, CompleteCases
  <2> DEFINE t == [jobs |-> act.jobs, cmds |-> reply.cmds, ends |-> reply.ends]
  <2>2. /\ act # NoAct /\ step = "processed" /\ reply # Statusless /\ ~act.evict /\ ~act.replaying
        /\ hist' = [hist EXCEPT ![r] = Append(@, t)] /\ resolved' = resolved
    BY <1>3, <2>1, CompleteCases
  <2>3. t \in Task /\ t.jobs = act.jobs /\ t.cmds = reply.cmds /\ t.ends = reply.ends
    BY <2>1, <2>2, ActFacts, ReplyFacts DEF Task
  <2> HIDE DEF t
  <2>4. Handling
    BY <2>2 DEF Handling
  <2>5. act.jobs \subseteq resolved[r]
    BY <2>1, <2>4, ActJobs
  <2>6. hist[r] \in Seq(Task) /\ DOMAIN hist[r] = 1 .. Len(hist[r])
    BY RunFacts, TaskFields
  <2>7. \A i \in 1 .. Len(hist[r]) : FollowsAt(hist[r], i) /\ ~hist[r][i].ends
    BY <2>1, <2>2, <2>4, <2>6 DEF HistoriesOK, ActOK, ActOf, Closed
  <2>8. FollowsNext(hist[r], t.jobs, t.cmds, t.ends)
    BY <2>1, <2>2, <2>3 DEF ReplyOK
  <2>9. HistoryOK(hist[r], resolved[r])
    BY DEF HistoriesOK
  <2>10. /\ HistoryOK(Append(hist[r], t), resolved[r])
         /\ \A i \in 1 .. Len(Append(hist[r], t)) : FollowsAt(Append(hist[r], t), i)
    BY <2>3, <2>5, <2>6, <2>7, <2>8, <2>9, HistoryGrows DEF FollowsNext
  <2>11. \A q \in Runs : hist'[q] = IF q = r THEN Append(hist[r], t) ELSE hist[q]
    BY <2>2 DEF TypeOK
  <2>12. ASSUME NEW q \in Runs
         PROVE  HistoryOK(hist'[q], resolved'[q]) /\ \A i \in 1 .. Len(hist'[q]) : FollowsAt(hist'[q], i)
    <3>1. CASE q = r
      BY <2>2, <2>10, <2>11, <3>1
    <3>2. CASE q # r
      BY <2>2, <2>11, <3>2 DEF HistoriesOK
    <3> QED
      BY <3>1, <3>2
  <2> QED
    BY <2>12 DEF HistoriesOK
<1>4. ASSUME NEW r \in Runs, PollActivation(r) \/ PollEviction(r) PROVE HistoriesOK'
  BY <1>1, <1>4 DEF PollActivation, PollEviction
<1>5. ASSUME NoHandler \/ Prepare \/ Process PROVE HistoriesOK'
  BY <1>1, <1>5 DEF NoHandler, Prepare, Process, coreVars
<1>6. ASSUME Complete, UNCHANGED hist PROVE HistoriesOK'
  BY <1>1, <1>6 DEF Complete
<1>7. ASSUME Run \/ RunEnds \/ Crash \/ UNCHANGED vars PROVE HistoriesOK'
  BY <1>1, <1>7 DEF Run, RunEnds, Crash, vars, workerVars, coreVars
<1> QED
  BY <1>2, <1>3, <1>4, <1>5, <1>6, <1>7 DEF Next, HandlerStep

(* Every step keeps CoreOK.                                                *)
LEMMA CoreStep ==
    ASSUME IndInv, [Next]_vars
    PROVE  CoreOK'
<1> USE DEF IndInv
<1>0. /\ fed \in [Runs -> Nat] /\ cached \in [Runs -> BOOLEAN] /\ out \in [Runs -> BOOLEAN]
      /\ \A r \in Runs : Len(hist[r]) \in Nat
  BY RunFacts DEF TypeOK
<1>1. CASE UNCHANGED <<hist, fed, cached, out>> /\ (step = "stopped" => step' = "stopped")
  BY <1>1 DEF CoreOK
<1>2. ASSUME NEW q \in Runs, NEW op \in Ops, Resolve(q, op) PROVE CoreOK'
  BY <1>1, <1>2 DEF Resolve, workerVars
<1>3. ASSUME NEW q \in Runs, PollActivation(q) PROVE CoreOK'
  BY <1>0, <1>3 DEF PollActivation, CoreOK
<1>4. ASSUME NEW q \in Runs, PollEviction(q) PROVE CoreOK'
  BY <1>0, <1>4 DEF PollEviction, CoreOK
<1>5. ASSUME NoHandler \/ Prepare \/ Process PROVE CoreOK'
  BY <1>1, <1>5 DEF NoHandler, Prepare, Process, coreVars
<1>6. ASSUME Complete PROVE CoreOK'
  <2>1. PICK r \in Runs : r = act.run
    BY <1>6, CompleteCases
  <2>2. /\ step = "processed" /\ Handling /\ act # NoAct /\ ActOf(r)
        /\ \A q \in Runs : /\ fed[q] <= Len(hist[q]) /\ (fed[q] > 0 => cached[q])
                           /\ (cached[q] /\ ~out[q] => fed[q] > 0)
    BY <1>6, <2>1, CompleteCases DEF ActOK, Handling, CoreOK
  <2> SUFFICES ASSUME NEW q \in Runs
               PROVE  /\ fed'[q] <= Len(hist'[q]) /\ (fed'[q] > 0 => cached'[q])
                      /\ (cached'[q] /\ ~out'[q] => fed'[q] > 0)
    BY DEF CoreOK
  <2>3. CASE UNCHANGED <<hist, fed, cached, out>>
    BY <2>2, <2>3
  <2>4. CASE /\ fed' = [fed EXCEPT ![r] = 0] /\ cached' = [cached EXCEPT ![r] = FALSE]
             /\ out' = [out EXCEPT ![r] = FALSE] /\ UNCHANGED hist
    BY <1>0, <2>2, <2>4
  <2>5. CASE /\ ~act.evict /\ act.replaying
             /\ fed' = [fed EXCEPT ![r] = @ + 1]
             /\ out' = [out EXCEPT ![r] = FALSE] /\ UNCHANGED <<hist, cached>>
    <3>1. fed[r] < Len(hist[r]) /\ cached[r]
      BY <2>2, <2>5 DEF ActOf
    <3>2. fed'[q] = (IF q = r THEN fed[q] + 1 ELSE fed[q]) /\ out'[q] = IF q = r THEN FALSE ELSE out[q]
      BY <1>0, <2>5
    <3> QED
      BY <1>0, <2>2, <2>5, <3>1, <3>2
  <2>6. CASE /\ ~act.evict
             /\ \E t : hist' = [hist EXCEPT ![r] = Append(@, t)]
             /\ fed' = [fed EXCEPT ![r] = @ + 1]
             /\ out' = [out EXCEPT ![r] = FALSE] /\ UNCHANGED cached
    <3>1. PICK t : hist' = [hist EXCEPT ![r] = Append(@, t)]
      BY <2>6
    <3>2. Len(hist'[q]) = IF q = r THEN Len(hist[q]) + 1 ELSE Len(hist[q])
      BY <3>1 DEF TypeOK
    <3>3. fed'[q] = (IF q = r THEN fed[q] + 1 ELSE fed[q]) /\ out'[q] = IF q = r THEN FALSE ELSE out[q]
      BY <1>0, <2>6
    <3>4. cached[r]
      BY <2>2 DEF ActOf
    <3> QED
      BY <1>0, <2>2, <2>6, <3>2, <3>3, <3>4
  <2> QED
    BY <1>6, <2>1, <2>3, <2>4, <2>5, <2>6, CompleteCases
<1>7. ASSUME Run PROVE CoreOK'
  BY <1>0, <1>7 DEF Run, CoreOK
<1>8. ASSUME RunEnds \/ Crash \/ UNCHANGED vars PROVE CoreOK'
  BY <1>1, <1>8 DEF RunEnds, Crash, vars, workerVars, coreVars
<1> QED
  BY <1>2, <1>3, <1>4, <1>5, <1>6, <1>7, <1>8 DEF Next, HandlerStep
------------------------------------------------------------------------------
(* Every step keeps ActOK.                                                 *)
LEMMA ActStep ==
    ASSUME IndInv, [Next]_vars
    PROVE  ActOK'
<1> USE DEF IndInv
<1>1. ASSUME NEW q \in Runs, NEW op \in Ops, Resolve(q, op) PROVE ActOK'
  <2>1. /\ UNCHANGED <<workerVars, hist, fed, cached, out, nondet>>
        /\ \A r \in Runs : resolved[r] \subseteq resolved'[r]
    BY <1>1 DEF Resolve, TypeOK
  <2>2. Handling => act.run \in Runs
    BY ActFacts DEF ActOK
  <2> QED
    BY <2>1, <2>2 DEF ActOK, ActOf, Handling, Told, Closed, workerVars
<1>2. ASSUME NEW r \in Runs, PollActivation(r) PROVE ActOK'
  <2>1. /\ step = "polling" /\ ~nondet[r] /\ ~Closed(r) /\ (Replaying(r) \/ HasNews(r))
        /\ act' = [run |-> r, init |-> fed[r] = 0, evict |-> FALSE,
                   replaying |-> Replaying(r),
                   jobs |-> IF Replaying(r) THEN hist[r][fed[r] + 1].jobs
                            ELSE resolved[r] \ Delivered(r)]
        /\ step' = "received" /\ out'[r] /\ cached'[r]
        /\ UNCHANGED <<machines, hist, resolved, fed, nondet>>
    BY <1>2 DEF PollActivation, TypeOK
  <2>2. /\ act'.run = r /\ (act'.init <=> fed[r] = 0) /\ ~act'.evict
        /\ (act'.replaying <=> fed[r] < Len(hist[r]))
        /\ act'.jobs = IF Replaying(r) THEN hist[r][fed[r] + 1].jobs ELSE resolved[r] \ Told(r)
    BY <2>1, Totals DEF Replaying, Told
  <2>3. act' # NoAct
    BY <2>1 DEF NoAct
  <2>4. ~Replaying(r) => (hist[r] # <<>> => act'.jobs # {})
    BY <2>1, <2>2, Totals DEF HasNews, Told
  <2>5. machines[r].exists => machines[r].got \subseteq resolved[r]
    BY DEF MachinesOK, MachineOK
  <2>6. ~Replaying(r) => /\ act'.jobs \subseteq resolved[r] /\ act'.jobs \cap Told(r) = {}
                         /\ machines[r].exists => machines[r].got \subseteq Told(r) \cup act'.jobs
    BY <2>2, <2>5
  <2>7. ActOf(r)'
    BY <2>1, <2>2, <2>4, <2>6 DEF ActOf, Told, Closed, Replaying
  <2> QED
    BY <2>1, <2>2, <2>3, <2>7 DEF ActOK, Handling
<1>3. ASSUME NEW r \in Runs, PollEviction(r) PROVE ActOK'
  <2>1. /\ step = "polling" /\ cached[r] /\ ~out[r]
        /\ act' = [run |-> r, init |-> FALSE, evict |-> TRUE, replaying |-> FALSE, jobs |-> {}]
        /\ step' = "received" /\ out'[r] /\ UNCHANGED <<hist, cached>>
    BY <1>3 DEF PollEviction, TypeOK
  <2>2. act' # NoAct /\ act'.run = r /\ ~act'.init /\ act'.evict /\ act'.jobs = {}
    BY <2>1 DEF NoAct
  <2>3. hist[r] # <<>>
    <3>1. fed[r] > 0 /\ fed[r] <= Len(hist[r]) /\ Len(hist[r]) \in Nat /\ fed[r] \in Nat
      BY <2>1, RunFacts DEF CoreOK
    <3> QED
      BY <3>1
  <2> QED
    BY <2>1, <2>2, <2>3 DEF ActOK, ActOf, Handling
<1>4. ASSUME NoHandler PROVE ActOK'
  BY <1>4 DEF NoHandler, ActOK, ActOf, Handling, Told, Closed, coreVars
<1>5. ASSUME Prepare \/ Process PROVE ActOK'
  <2>1. /\ Handling /\ Handling' /\ act' = act /\ act # NoAct /\ act.run \in Runs /\ ActOf(act.run)
        /\ UNCHANGED coreVars
    BY <1>5, ActFacts DEF Prepare, Process, Handling, ActOK
  <2>2. PICK r \in Runs : r = act.run
    BY <2>1
  <2>3. ASSUME ~act.evict, ~act.replaying, machines'[r].exists
        PROVE  machines'[r].got \subseteq Told(r) \cup act.jobs
    <3>1. machines[r].exists => machines[r].got \subseteq Told(r) \cup act.jobs
      BY <2>1, <2>2, <2>3 DEF ActOf
    <3>2. CASE machines'[r] = machines[r]
      BY <2>3, <3>1, <3>2
    <3>3. CASE machines'[r] = NewMachine
      BY <3>3, NewMachineFacts
    <3>4. CASE machines[r].exists /\ machines'[r] = Processed(machines[r], act)
      <4>1. machines'[r].got = Got(machines[r], act)
        BY <2>1, <3>4, MachineOrAbsent, ActFacts, ProcessedFields
      <4> QED
        BY <3>1, <3>4, <4>1 DEF Got
    <3> QED
      BY <1>5, <2>1, <2>2, <3>2, <3>3, <3>4, PrepareEffect, ProcessEffect
  <2>4. ActOf(r)'
    BY <2>1, <2>2, <2>3 DEF ActOf, Told, Closed, coreVars
  <2> QED
    BY <2>1, <2>2, <2>4 DEF ActOK
<1>6. ASSUME Complete \/ RunEnds \/ Crash PROVE ActOK'
  BY <1>6 DEF Complete, RunEnds, Crash, ActOK, Handling
<1>7. ASSUME Run PROVE ActOK'
  BY <1>7 DEF Run, ActOK, Handling
<1>8. ASSUME UNCHANGED vars PROVE ActOK'
  BY <1>8 DEF vars, workerVars, coreVars, ActOK, ActOf, Handling, Told, Closed
<1> QED
  BY <1>1, <1>2, <1>3, <1>4, <1>5, <1>6, <1>7, <1>8 DEF Next, HandlerStep
------------------------------------------------------------------------------
(* The answer of a machine that is not behind: it has the jobs it was      *)
(* sent, and a machine that was evicted or has ended starts nothing.       *)
LEMMA Answering ==
    ASSUME NEW m \in Machine, NEW h \in Seq(Task), NEW res, NEW n \in 0 .. Len(h),
           MachineOK(m, h, res), Ahead(m, h, n),
           m.completed /\ ~m.ended => CmdsTo(h, n) = {},
           NEW a, a.evict \in BOOLEAN, ~a.evict, a.jobs \in SUBSET Ops, a.jobs \subseteq CmdsTo(h, n),
           NEW ends \in BOOLEAN, ends <=> m.ended \/ Ends(m, a)
    PROVE  AnswerOf(Processed(m, a), h, a.jobs, Issued(m, a), ends)
<1> SUFFICES ASSUME NEW p, p = Processed(m, a)
             PROVE  AnswerOf(p, h, a.jobs, Issued(m, a), ends)
  OBVIOUS
<1>1. /\ p.exists /\ p.got = Got(m, a) /\ p.pending = (m.pending \ a.jobs) \cup Issued(m, a)
      /\ (p.completed <=> m.completed \/ a.evict \/ Ends(m, a))
      /\ (p.ended <=> m.ended \/ Ends(m, a))
  BY ProcessedFields
<1>2. /\ Ends(m, a) => Issued(m, a) = {}
      /\ m.completed => Issued(m, a) = {}
  BY IssuedFacts
<1>3. m.ended => m.completed
  BY DEF MachineOK
<1>4. a.jobs \subseteq Got(m, a)
  BY DEF Ahead, Given, Got
<1> QED
  BY <1>1, <1>2, <1>3, <1>4 DEF AnswerOf, Given

(* The answer of a machine that is not behind, to news, follows the        *)
(* code. A stage starts only when the history holds the whole stage        *)
(* before it, which a machine ahead of the history cannot bring about.     *)
LEMMA Advancing ==
    ASSUME NEW m \in Machine, NEW h \in Seq(Task), NEW res,
           MachineOK(m, h, res), HistoryOK(h, res), Ahead(m, h, Len(h)),
           m.completed /\ ~m.ended => CmdsTo(h, Len(h)) = {},
           NEW a, a.evict \in BOOLEAN, ~a.evict, a.jobs \in SUBSET Ops, a.jobs \subseteq res,
           h # <<>> => a.jobs # {}, m.got \subseteq JobsTo(h, Len(h)) \cup a.jobs,
           NEW ends \in BOOLEAN, ends <=> m.ended \/ Ends(m, a)
    PROVE  FollowsNext(h, a.jobs, Issued(m, a), ends)
<1> DEFINE known == JobsTo(h, Len(h)) \cup a.jobs
<1>1. /\ m.stage \in 0 .. Len(Script) /\ m.pending \in SUBSET Ops /\ m.got \in SUBSET Ops
      /\ m.completed \in BOOLEAN /\ m.ended \in BOOLEAN
  BY MachineFields
<1>2. Given(m) = Prefix(m.stage) /\ (m.ended => m.completed /\ m.got = Ops)
  BY DEF MachineOK
<1>3. res \subseteq CmdsTo(h, Len(h)) /\ CmdsTo(h, Len(h)) \subseteq Given(m)
  BY DEF HistoryOK, Ahead
<1>4. JobsTo(h, Len(h)) \subseteq res
  BY DEF HistoryOK, JobsTo
<1>5. Got(m, a) = known
  BY <1>3 DEF Ahead, Given, Got
<1>6. ASSUME Issued(m, a) # {}
      PROVE  \E s \in Stages : /\ Issued(m, a) = Script[s]
                               /\ CmdsTo(h, Len(h)) = Prefix(s - 1)
                               /\ CmdsTo(h, Len(h)) \subseteq known
  <2>1. Moves(m, a) /\ m.stage # Len(Script) /\ Issued(m, a) = Script[m.stage + 1]
    BY <1>6, IssuedFacts
  <2>2. known = Prefix(m.stage)
    BY <1>5, <2>1, MovesGot
  <2>3. CmdsTo(h, Len(h)) = Prefix(m.stage)
    BY <1>2, <1>3, <1>4, <2>2
  <2>4. PICK s \in Stages : s = m.stage + 1
    BY <1>1, <2>1, StageFresh
  <2>5. s - 1 = m.stage
    BY <1>1, <2>4, ScriptFacts
  <2>6. Issued(m, a) = Script[s] /\ CmdsTo(h, Len(h)) = Prefix(s - 1)
    BY <2>1, <2>3, <2>4, <2>5
  <2>7. CmdsTo(h, Len(h)) \subseteq known
    BY <2>2, <2>3
  <2> HIDE DEF known
  <2> QED
    BY <2>6, <2>7
<1>7. known \subseteq Ops
  BY <1>1, <1>2, <1>3, <1>4, PrefixIn
<1>8. ASSUME ends PROVE known = Ops
  <2>1. CASE m.ended
    BY <1>2, <1>5, <1>7, <2>1 DEF Got
  <2>2. CASE Ends(m, a)
    <3>1. Moves(m, a) /\ m.stage = Len(Script)
      BY <2>2 DEF Ends
    <3> QED
      BY <1>5, <3>1, MovesGot, PrefixEnds
  <2> QED
    BY <1>8, <2>1, <2>2
<1>9. ASSUME known = Ops PROVE ends
  <2>1. CASE m.completed /\ ~m.ended
    <3>1. known = {} /\ h # <<>>
      BY <1>3, <1>4, <2>1 DEF MachineOK
    <3> QED
      BY <3>1
  <2>2. CASE ~m.completed
    <3>1. m.stage = Len(Script)
      <4>1. Ops \subseteq Prefix(m.stage)
        BY <1>2, <1>3, <1>4, <1>9
      <4> QED
        BY <1>1, <4>1, StageFresh
    <3>2. m.stage > 0 => Script[m.stage] \subseteq Got(m, a)
      <4>1. m.stage > 0 => m.stage \in Stages
        BY <1>1, ScriptFacts DEF Stages
      <4> QED
        BY <1>5, <1>9, <4>1, ScriptFacts
    <3>3. Ends(m, a)
      BY <2>2, <3>1, <3>2 DEF Ends, Moves, Polls
    <3> QED
      BY <3>3
  <2>3. CASE m.ended
    BY <2>3
  <2> QED
    BY <1>1, <2>1, <2>2, <2>3
<1> QED
  BY <1>6, <1>8, <1>9 DEF FollowsNext

(* Every step keeps ReplyOK.                                               *)
LEMMA ReplyStep ==
    ASSUME IndInv, [Next]_vars
    PROVE  ReplyOK'
<1> USE DEF IndInv
<1>1. ASSUME step' # "processed" PROVE ReplyOK'
  BY <1>1 DEF ReplyOK
<1>2. CASE UNCHANGED <<machines, step, act, reply, hist>>
  BY <1>2 DEF ReplyOK
<1>3. ASSUME NoHandler PROVE ReplyOK'
  <2>1. Handling /\ act.init /\ act' = act /\ reply' = Statusless
    BY <1>3 DEF NoHandler, Handling
  <2> QED
    BY <2>1 DEF ReplyOK, ActOK, ActOf
<1>4. ASSUME Process PROVE ReplyOK'
  <2>1. /\ step = "prepared" /\ Handling /\ step' = "processed" /\ act' = act
        /\ UNCHANGED coreVars
    BY <1>4 DEF Process, Handling
  <2>2. PICK r \in Runs : r = act.run /\ act # NoAct
    BY <1>4, ProcessEffect
  <2>3. CASE ~machines[r].exists
    <3>1. machines' = machines /\ reply' = Statusless
      BY <1>4, <2>2, <2>3, ProcessEffect
    <3> QED
      BY <2>1, <2>2, <2>3, <3>1 DEF ReplyOK
  <2>4. CASE machines[r].exists
    <3> DEFINE m == machines[r]
               e == m.ended \/ Ends(m, act)
    <3>1. /\ m \in Machine /\ machines'[r] = Processed(m, act) /\ reply' = Answer(m, act)
      BY <1>4, <2>2, <2>4, ProcessEffect, MachineOrAbsent
    <3>2. /\ reply' # Statusless /\ reply'.cmds = Issued(m, act) /\ reply'.ends = e
      BY <3>1, Zenon DEF Answer, Success, Statusless
    <3>3. e \in BOOLEAN /\ (e <=> m.ended \/ Ends(m, act))
      OBVIOUS
    <3>4. act.evict \in BOOLEAN /\ act.jobs \in SUBSET Ops /\ ActOf(r)
      BY <2>1, <2>2, ActFacts DEF ActOK
    <3>5. /\ hist[r] \in Seq(Task) /\ fed[r] \in 0 .. Len(hist[r]) /\ Len(hist[r]) \in Nat
          /\ MachineOK(m, hist[r], resolved[r]) /\ HistoryOK(hist[r], resolved[r])
      BY <2>4, RunFacts DEF CoreOK, MachinesOK, HistoriesOK
    <3>6. ASSUME ~act.evict
          PROVE  AnswerOf(Processed(m, act), hist[r], act.jobs, Issued(m, act), e)
      <4>1. Ahead(m, hist[r], fed[r]) /\ (m.completed /\ ~m.ended => CmdsTo(hist[r], fed[r]) = {})
        BY <2>1, <2>4, <3>4, <3>6 DEF AheadOK, ActOf, Evicting
      <4>2. act.jobs \subseteq CmdsTo(hist[r], fed[r])
        BY <2>1, <2>2, <3>6, ActJobs
      <4> HIDE DEF m, e
      <4> QED
        BY <3>1, <3>3, <3>4, <3>5, <3>6, <4>1, <4>2, Answering
    <3>7. ASSUME ~act.evict, ~act.replaying
          PROVE  FollowsNext(hist[r], act.jobs, Issued(m, act), e)
      <4>1. fed[r] = Len(hist[r])
        BY <3>4, <3>5, <3>7 DEF ActOf
      <4>2. /\ Ahead(m, hist[r], Len(hist[r]))
            /\ (m.completed /\ ~m.ended => CmdsTo(hist[r], Len(hist[r])) = {})
        BY <2>1, <2>4, <3>4, <3>7, <4>1 DEF AheadOK, ActOf, Evicting
      <4>3. /\ act.jobs \subseteq resolved[r] /\ (hist[r] # <<>> => act.jobs # {})
            /\ m.got \subseteq JobsTo(hist[r], Len(hist[r])) \cup act.jobs
        BY <2>4, <3>4, <3>7 DEF ActOf, Told
      <4> HIDE DEF m, e
      <4> QED
        BY <3>1, <3>3, <3>4, <3>5, <3>7, <4>2, <4>3, Advancing
    <3> HIDE DEF e, m
    <3> QED
      BY <2>1, <2>2, <3>1, <3>2, <3>6, <3>7 DEF ReplyOK, coreVars
  <2> QED
    BY <2>3, <2>4
<1>5. ASSUME NEW r \in Runs, NEW op \in Ops, Resolve(r, op) PROVE ReplyOK'
  BY <1>2, <1>5 DEF Resolve, workerVars
<1>6. ASSUME NEW r \in Runs, PollActivation(r) \/ PollEviction(r) PROVE ReplyOK'
  BY <1>1, <1>6 DEF PollActivation, PollEviction
<1>7. ASSUME Prepare \/ Complete \/ Run \/ RunEnds \/ Crash PROVE ReplyOK'
  BY <1>1, <1>7 DEF Prepare, Complete, Run, RunEnds, Crash
<1>8. ASSUME UNCHANGED vars PROVE ReplyOK'
  BY <1>2, <1>8 DEF vars, workerVars, coreVars
<1> QED
  BY <1>3, <1>4, <1>5, <1>6, <1>7, <1>8 DEF Next, HandlerStep
------------------------------------------------------------------------------
(* The task that Complete records.                                         *)
Entry == [jobs |-> act.jobs, cmds |-> reply.cmds, ends |-> reply.ends]

(* Complete leaves all other runs alone.                                   *)
LEMMA CompleteOthers ==
    ASSUME TypeOK, ActOK, Complete, NEW r \in Runs, r # act.run
    PROVE  /\ hist'[r] = hist[r] /\ fed'[r] = fed[r] /\ cached'[r] = cached[r]
           /\ out'[r] = out[r] /\ nondet'[r] = nondet[r]
<1>1. PICK q \in Runs : q = act.run
  BY CompleteCases
<1>2. CASE reply = Statusless
  BY <1>1, <1>2, CompleteCases
<1>3. CASE reply # Statusless /\ act.evict
  <2>1. /\ fed' = [fed EXCEPT ![q] = 0] /\ cached' = [cached EXCEPT ![q] = FALSE]
        /\ out' = [out EXCEPT ![q] = FALSE] /\ UNCHANGED <<hist, nondet>>
    BY <1>1, <1>3, CompleteCases
  <2> QED
    BY <1>1, <2>1 DEF TypeOK
<1>4. CASE reply # Statusless /\ ~act.evict /\ act.replaying
  <2> DEFINE b == ~(/\ reply.cmds = hist[q][fed[q] + 1].cmds
                    /\ reply.ends = hist[q][fed[q] + 1].ends)
  <2>1. /\ nondet' = [nondet EXCEPT ![q] = b] /\ fed' = [fed EXCEPT ![q] = @ + 1]
        /\ out' = [out EXCEPT ![q] = FALSE] /\ UNCHANGED <<hist, cached>>
    BY <1>1, <1>4, CompleteCases
  <2> HIDE DEF b
  <2> QED
    BY <1>1, <2>1 DEF TypeOK
<1>5. CASE reply # Statusless /\ ~act.evict /\ ~act.replaying
  <2>1. /\ hist' = [hist EXCEPT ![q] = Append(@, Entry)] /\ fed' = [fed EXCEPT ![q] = @ + 1]
        /\ out' = [out EXCEPT ![q] = FALSE] /\ UNCHANGED <<cached, nondet>>
    BY <1>1, <1>5, CompleteCases DEF Entry
  <2> QED
    BY <1>1, <2>1 DEF TypeOK
<1> QED
  BY <1>2, <1>3, <1>4, <1>5

(* A completion that is compared with the history.                         *)
LEMMA CompleteReplay ==
    ASSUME TypeOK, ActOK, Complete, NEW r, r = act.run, reply # Statusless,
           ~act.evict, act.replaying
    PROVE  /\ UNCHANGED <<hist, cached>> /\ fed'[r] = fed[r] + 1 /\ ~out'[r]
           /\ ~nondet'[r] <=> /\ reply.cmds = hist[r][fed[r] + 1].cmds
                             /\ reply.ends = hist[r][fed[r] + 1].ends
<1> DEFINE b == ~(/\ reply.cmds = hist[r][fed[r] + 1].cmds
                  /\ reply.ends = hist[r][fed[r] + 1].ends)
<1>1. /\ nondet' = [nondet EXCEPT ![r] = b] /\ fed' = [fed EXCEPT ![r] = @ + 1]
      /\ out' = [out EXCEPT ![r] = FALSE] /\ UNCHANGED <<hist, cached>> /\ r \in Runs
  BY CompleteCases
<1> HIDE DEF b
<1>2. nondet'[r] = b
  BY <1>1 DEF TypeOK
<1>3. fed'[r] = fed[r] + 1 /\ ~out'[r]
  BY <1>1 DEF TypeOK
<1>4. ~nondet'[r] <=> ~b
  BY <1>2
<1> QED
  BY <1>1, <1>3, <1>4, Zenon DEF b

(* A completion that is recorded: its run has been replayed to the end.    *)
LEMMA CompleteRecord ==
    ASSUME TypeOK, ActOK, CoreOK, Complete, NEW r, r = act.run, reply # Statusless,
           ~act.evict, ~act.replaying
    PROVE  /\ UNCHANGED <<cached, nondet>> /\ fed'[r] = fed[r] + 1 /\ ~out'[r]
           /\ fed[r] = Len(hist[r]) /\ Entry \in Task /\ hist'[r] = Append(hist[r], Entry)
           /\ Entry.jobs = act.jobs /\ Entry.cmds = reply.cmds /\ Entry.ends = reply.ends
<1>1. /\ hist' = [hist EXCEPT ![r] = Append(@, Entry)] /\ fed' = [fed EXCEPT ![r] = @ + 1]
      /\ out' = [out EXCEPT ![r] = FALSE] /\ UNCHANGED <<cached, nondet>>
      /\ r \in Runs /\ act # NoAct /\ step = "processed"
  BY CompleteCases DEF Entry
<1>2. hist'[r] = Append(hist[r], Entry) /\ fed'[r] = fed[r] + 1 /\ ~out'[r]
  BY <1>1 DEF TypeOK
<1>3. Entry \in Task /\ Entry.jobs = act.jobs /\ Entry.cmds = reply.cmds /\ Entry.ends = reply.ends
  BY <1>1, ActFacts, ReplyFacts DEF Task, Entry
<1>4. fed[r] = Len(hist[r])
  <2>1. fed[r] \in Nat /\ Len(hist[r]) \in Nat /\ fed[r] <= Len(hist[r]) /\ ActOf(r)
    BY <1>1, RunFacts DEF CoreOK, ActOK, Handling
  <2> QED
    BY <2>1 DEF ActOf
<1> QED
  BY <1>1, <1>2, <1>3, <1>4

(* Nothing is behind no tasks.                                             *)
LEMMA AheadNone ==
    ASSUME NEW m, NEW h
    PROVE  Ahead(m, h, 0) /\ CmdsTo(h, 0) = {}
  BY ToNext DEF Ahead

(* What a history started and delivered with one task more.                *)
LEMMA AppendNext ==
    ASSUME NEW h \in Seq(Task), NEW t \in Task
    PROVE  /\ CmdsTo(Append(h, t), Len(h) + 1) = CmdsTo(h, Len(h)) \cup t.cmds
           /\ JobsTo(Append(h, t), Len(h) + 1) = JobsTo(h, Len(h)) \cup t.jobs
<1> SUFFICES ASSUME NEW g, g = Append(h, t)
             PROVE  /\ CmdsTo(g, Len(h) + 1) = CmdsTo(h, Len(h)) \cup t.cmds
                    /\ JobsTo(g, Len(h) + 1) = JobsTo(h, Len(h)) \cup t.jobs
  OBVIOUS
<1>1. Len(h) \in Nat /\ Len(h) \in 0 .. Len(h) /\ g[Len(h) + 1] = t
  OBVIOUS
<1>2. CmdsTo(g, Len(h)) = CmdsTo(h, Len(h)) /\ JobsTo(g, Len(h)) = JobsTo(h, Len(h))
  BY <1>1, AppendTo
<1>3. /\ CmdsTo(g, Len(h) + 1) = CmdsTo(g, Len(h)) \cup g[Len(h) + 1].cmds
      /\ JobsTo(g, Len(h) + 1) = JobsTo(g, Len(h)) \cup g[Len(h) + 1].jobs
  BY <1>1, ToNext
<1> QED
  BY <1>1, <1>2, <1>3

(* Every step keeps AheadOK.                                               *)
LEMMA AheadStep ==
    ASSUME IndInv, [Next]_vars
    PROVE  AheadOK'
<1> USE DEF IndInv
<1>1. ASSUME step' # "stopped" => step # "stopped", step = "processed" => step' = "processed",
             UNCHANGED <<machines, act, hist, fed, cached, nondet>>
      PROVE  AheadOK'
  BY <1>1 DEF AheadOK, Evicting
<1>2. ASSUME NEW r \in Runs, NEW op \in Ops, Resolve(r, op) PROVE AheadOK'
  BY <1>1, <1>2 DEF Resolve, workerVars
<1>3. ASSUME NEW q \in Runs, PollActivation(q) PROVE AheadOK'
  <2>1. /\ step = "polling" /\ step' = "received" /\ UNCHANGED <<machines, hist, fed, nondet>>
        /\ \A r \in Runs : r # q => cached'[r] = cached[r]
    BY <1>3 DEF PollActivation, TypeOK
  <2> SUFFICES ASSUME NEW r \in Runs, cached'[r], ~nondet[r], machines[r].exists
               PROVE  /\ Ahead(machines[r], hist[r], fed[r])
                      /\ machines[r].completed /\ ~machines[r].ended => CmdsTo(hist[r], fed[r]) = {}
    BY <2>1 DEF AheadOK
  <2>2. CASE cached[r]
    BY <2>1, <2>2 DEF AheadOK, Evicting
  <2>3. CASE ~cached[r]
    <3>1. fed[r] = 0
      BY <2>1, <2>3, RunFacts DEF CoreOK
    <3> QED
      BY <3>1, AheadNone
  <2> QED
    BY <2>2, <2>3
<1>4. ASSUME NEW q \in Runs, PollEviction(q) PROVE AheadOK'
  BY <1>4 DEF PollEviction, AheadOK, Evicting
<1>5. ASSUME NoHandler PROVE AheadOK'
  <2>1. step = "received" /\ step' = "processed" /\ ~act.evict /\ act' = act
        /\ UNCHANGED <<machines, hist, fed, cached, nondet>>
    BY <1>5 DEF NoHandler, Handling, ActOK, ActOf, coreVars
  <2> QED
    BY <2>1 DEF AheadOK, Evicting
<1>6. ASSUME Prepare PROVE AheadOK'
  <2>1. /\ step = "received" /\ step' = "prepared" /\ UNCHANGED <<hist, fed, cached, nondet>>
        /\ act.run \in Runs /\ Handling
    BY <1>6, PrepareEffect DEF Prepare, coreVars, Handling
  <2> SUFFICES ASSUME NEW r \in Runs, cached[r], ~nondet[r], machines'[r].exists
               PROVE  /\ Ahead(machines'[r], hist[r], fed[r])
                      /\ machines'[r].completed /\ ~machines'[r].ended => CmdsTo(hist[r], fed[r]) = {}
    BY <2>1 DEF AheadOK
  <2>2. CASE machines'[r] = machines[r]
    BY <2>1, <2>2 DEF AheadOK, Evicting
  <2>3. CASE machines'[r] # machines[r]
    <3>1. r = act.run /\ act.init
      BY <1>6, <2>3, PrepareEffect
    <3>2. fed[r] = 0
      BY <2>1, <3>1 DEF ActOK, ActOf
    <3> QED
      BY <3>2, AheadNone
  <2> QED
    BY <2>2, <2>3
<1>7. ASSUME Process PROVE AheadOK'
  <2>1. /\ step = "prepared" /\ step' = "processed" /\ UNCHANGED <<hist, fed, cached, nondet>>
        /\ act.run \in Runs /\ act # NoAct /\ act' = act
    BY <1>7, ProcessEffect DEF Process, coreVars
  <2> SUFFICES ASSUME NEW r \in Runs, cached[r], ~nondet[r], machines'[r].exists
               PROVE  /\ Ahead(machines'[r], hist[r], fed[r])
                      /\ machines'[r].completed /\ ~machines'[r].ended /\ ~Evicting(r)' =>
                            CmdsTo(hist[r], fed[r]) = {}
    BY <2>1 DEF AheadOK
  <2>2. CASE machines'[r] = machines[r]
    BY <2>1, <2>2 DEF AheadOK, Evicting
  <2>3. CASE machines'[r] # machines[r]
    <3>1. r = act.run /\ machines[r].exists /\ machines'[r] = Processed(machines[r], act)
      BY <1>7, <2>3, ProcessEffect
    <3>2. /\ machines[r] \in Machine /\ act.evict \in BOOLEAN /\ act.jobs \in SUBSET Ops
      BY <2>1, <3>1, MachineOrAbsent, ActFacts
    <3>3. /\ machines'[r].got = Got(machines[r], act)
          /\ machines'[r].pending = (machines[r].pending \ act.jobs) \cup Issued(machines[r], act)
          /\ (machines'[r].completed <=> machines[r].completed \/ act.evict \/ Ends(machines[r], act))
          /\ (machines'[r].ended <=> machines[r].ended \/ Ends(machines[r], act))
      BY <3>1, <3>2, ProcessedFields
    <3>4. /\ Ahead(machines[r], hist[r], fed[r])
          /\ (machines[r].completed /\ ~machines[r].ended => CmdsTo(hist[r], fed[r]) = {})
      BY <2>1, <3>1 DEF AheadOK, Evicting
    <3>5. Ahead(machines'[r], hist[r], fed[r])
      BY <3>3, <3>4 DEF Ahead, Given, Got
    <3>6. ~Evicting(r)' => ~act.evict
      BY <2>1, <3>1 DEF Evicting
    <3> QED
      BY <3>3, <3>4, <3>5, <3>6
  <2> QED
    BY <2>2, <2>3
<1>8. ASSUME Complete PROVE AheadOK'
  <2>1. PICK q \in Runs : q = act.run
    BY <1>8, CompleteCases
  <2>2. /\ step = "processed" /\ step' = "polling" /\ act # NoAct /\ ActOf(q)
        /\ UNCHANGED <<machines, resolved>>
    BY <1>8, <2>1, CompleteCases DEF ActOK
  <2> SUFFICES ASSUME NEW r \in Runs, cached'[r], ~nondet'[r], machines[r].exists
               PROVE  /\ Ahead(machines[r], hist'[r], fed'[r])
                      /\ machines[r].completed /\ ~machines[r].ended => CmdsTo(hist'[r], fed'[r]) = {}
    BY <2>2 DEF AheadOK
  <2>3. ASSUME cached[r], ~nondet[r], r # q \/ ~act.evict
        PROVE  /\ Ahead(machines[r], hist[r], fed[r])
               /\ machines[r].completed /\ ~machines[r].ended => CmdsTo(hist[r], fed[r]) = {}
    BY <2>1, <2>2, <2>3 DEF AheadOK, Evicting
  <2>4. CASE r # q
    <3>1. hist'[r] = hist[r] /\ fed'[r] = fed[r] /\ cached'[r] = cached[r] /\ nondet'[r] = nondet[r]
      BY <1>8, <2>1, <2>4, CompleteOthers
    <3> QED
      BY <2>3, <2>4, <3>1
  <2>5. CASE r = q
    <3>1. CASE reply = Statusless
      <4>1. UNCHANGED <<hist, fed, cached, nondet>>
        BY <1>8, <2>1, <3>1, CompleteCases
      <4>2. ~act.evict
        BY <2>1, <2>2, <2>5, <3>1 DEF ReplyOK
      <4> QED
        BY <2>3, <4>1, <4>2
    <3>2. CASE reply # Statusless /\ act.evict
      <4>1. cached' = [cached EXCEPT ![q] = FALSE]
        BY <1>8, <2>1, <3>2, CompleteCases
      <4> QED
        BY <2>5, <4>1 DEF TypeOK
    <3>3. CASE reply # Statusless /\ ~act.evict
      <4>1. AnswerOf(machines[r], hist[r], act.jobs, reply.cmds, reply.ends)
        BY <2>1, <2>2, <2>5, <3>3 DEF ReplyOK
      <4>2. cached[r] /\ ~nondet[r]
        BY <2>2, <2>5, <3>3 DEF ActOf
      <4>3. fed'[r] = fed[r] + 1 /\ fed[r] \in Nat /\ hist[r] \in Seq(Task)
        BY <1>8, <2>1, <2>5, <3>3, CompleteReplay, CompleteRecord, RunFacts
      <4>4. /\ CmdsTo(hist'[r], fed[r] + 1) = CmdsTo(hist[r], fed[r]) \cup reply.cmds
            /\ JobsTo(hist'[r], fed[r] + 1) = JobsTo(hist[r], fed[r]) \cup act.jobs
        <5>1. CASE act.replaying
          <6>1. hist' = hist /\ reply.cmds = hist[r][fed[r] + 1].cmds
            BY <1>8, <2>1, <2>5, <3>3, <5>1, CompleteReplay
          <6>2. act.jobs = hist[r][fed[r] + 1].jobs
            BY <2>2, <2>5, <3>3, <5>1 DEF ActOf
          <6>3. /\ CmdsTo(hist[r], fed[r] + 1) = CmdsTo(hist[r], fed[r]) \cup hist[r][fed[r] + 1].cmds
                /\ JobsTo(hist[r], fed[r] + 1) = JobsTo(hist[r], fed[r]) \cup hist[r][fed[r] + 1].jobs
            BY <4>3, ToNext
          <6> QED
            BY <6>1, <6>2, <6>3
        <5>2. CASE ~act.replaying
          <6>1. /\ hist'[r] = Append(hist[r], Entry) /\ fed[r] = Len(hist[r]) /\ Entry \in Task
                /\ Entry.jobs = act.jobs /\ Entry.cmds = reply.cmds
            BY <1>8, <2>1, <2>5, <3>3, <5>2, CompleteRecord
          <6> QED
            BY <4>3, <6>1, AppendNext
        <5> QED
          BY <5>1, <5>2
      <4> QED
        BY <2>3, <3>3, <4>1, <4>2, <4>3, <4>4 DEF Ahead, AnswerOf
    <3> QED
      BY <3>1, <3>2, <3>3
  <2> QED
    BY <2>4, <2>5
<1>9. ASSUME Run PROVE AheadOK'
  BY <1>9 DEF Run, AheadOK
<1>10. ASSUME RunEnds \/ Crash PROVE AheadOK'
  BY <1>10 DEF RunEnds, Crash, AheadOK
<1>11. ASSUME UNCHANGED vars PROVE AheadOK'
  BY <1>1, <1>11 DEF vars, workerVars, coreVars
<1> QED
  BY <1>2, <1>3, <1>4, <1>5, <1>6, <1>7, <1>8, <1>9, <1>10, <1>11 DEF Next, HandlerStep
------------------------------------------------------------------------------
(* A replay of a task leaves the machine where a replay of one task more   *)
(* would, with the answer the history has.                                 *)
LEMMA SyncReplay ==
    ASSUME NEW h \in Seq(Task), Replayed(h), NEW n \in Nat, n < Len(h),
           NEW a, a.evict \in BOOLEAN, ~a.evict, a.jobs = h[n + 1].jobs
    PROVE  /\ Processed(ReplayOf(h)[n], a) = ReplayOf(h)[n + 1]
           /\ Answer(ReplayOf(h)[n], a) = Success(h[n + 1].cmds, h[n + 1].ends)
<1>1. n + 1 \in 1 .. Len(h) /\ n + 1 - 1 = n
  BY TaskFields
<1>2. ReplayOf(h)[n + 1] = Processed(ReplayOf(h)[n], Sent(h, n + 1))
  BY <1>1, ReplayUnfolds
<1>3. Answer(ReplayOf(h)[n], Sent(h, n + 1)) = Success(h[n + 1].cmds, h[n + 1].ends)
  BY <1>1 DEF Replayed
<1>4. a.evict = FALSE /\ Sent(h, n + 1) = [evict |-> FALSE, jobs |-> a.jobs]
  BY Zenon DEF Sent
<1>5. /\ Processed(ReplayOf(h)[n], a) = Processed(ReplayOf(h)[n], Sent(h, n + 1))
      /\ Answer(ReplayOf(h)[n], a) = Answer(ReplayOf(h)[n], Sent(h, n + 1))
  BY <1>4, OnlyJobsMatter, Zenon
<1> QED
  BY <1>2, <1>3, <1>5

(* A new task, answered by a machine that is where a replay would leave    *)
(* it, is one that replays to the same answer.                             *)
LEMMA SyncRecord ==
    ASSUME NEW h \in Seq(Task), Replayed(h), NEW t \in Task,
           NEW a, a.evict \in BOOLEAN, ~a.evict, a.jobs = t.jobs,
           Answer(ReplayOf(h)[Len(h)], a) = Success(t.cmds, t.ends)
    PROVE  /\ Replayed(Append(h, t))
           /\ Processed(ReplayOf(h)[Len(h)], a) = ReplayOf(Append(h, t))[Len(h) + 1]
<1> SUFFICES ASSUME NEW g, g = Append(h, t)
             PROVE  Replayed(g) /\ Processed(ReplayOf(h)[Len(h)], a) = ReplayOf(g)[Len(h) + 1]
  OBVIOUS
<1>1. /\ Len(h) \in Nat /\ g \in Seq(Task) /\ Len(g) = Len(h) + 1 /\ g[Len(h) + 1] = t
      /\ \A i \in 1 .. Len(h) : g[i] = h[i]
  OBVIOUS
<1>2. \A k \in 0 .. Len(h) : ReplayOf(g)[k] = ReplayOf(h)[k]
  BY ReplayExtends
<1>3. ReplayOf(g)[Len(h)] = ReplayOf(h)[Len(h)]
  BY <1>1, <1>2, Len(h) \in 0 .. Len(h)
<1>4. ReplayOf(g)[Len(h) + 1] = Processed(ReplayOf(g)[Len(h)], Sent(g, Len(h) + 1))
  <2>1. Len(h) + 1 \in 1 .. Len(g) /\ Len(h) + 1 - 1 = Len(h)
    BY <1>1
  <2>2. \A n \in 1 .. Len(g) : ReplayOf(g)[n] = Processed(ReplayOf(g)[n - 1], Sent(g, n))
    BY <1>1, ReplayUnfolds
  <2> QED
    BY <2>1, <2>2
<1>5. /\ Processed(ReplayOf(h)[Len(h)], a) = Processed(ReplayOf(h)[Len(h)], Sent(g, Len(h) + 1))
      /\ Answer(ReplayOf(h)[Len(h)], a) = Answer(ReplayOf(h)[Len(h)], Sent(g, Len(h) + 1))
  <2>1. a.jobs = g[Len(h) + 1].jobs
    BY <1>1
  <2>0. a.evict = FALSE /\ Sent(g, Len(h) + 1) = [evict |-> FALSE, jobs |-> a.jobs]
    BY <2>1, Zenon DEF Sent
  <2>2. \A m : /\ Processed(m, a) = Processed(m, Sent(g, Len(h) + 1))
               /\ Answer(m, a) = Answer(m, Sent(g, Len(h) + 1))
    BY <2>0, OnlyJobsMatter, Zenon
  <2> QED
    BY <2>2
<1>6. ASSUME NEW i \in 1 .. Len(g)
      PROVE  Answer(ReplayOf(g)[i - 1], Sent(g, i)) = Success(g[i].cmds, g[i].ends)
  <2>1. CASE i \in 1 .. Len(h)
    <3>1. g[i] = h[i] /\ i - 1 \in 0 .. Len(h)
      BY <1>1, <2>1
    <3>2. Sent(g, i) = Sent(h, i)
      BY <3>1, Zenon DEF Sent
    <3>3. Answer(ReplayOf(h)[i - 1], Sent(h, i)) = Success(h[i].cmds, h[i].ends)
      BY <2>1 DEF Replayed
    <3> QED
      BY <1>2, <3>1, <3>2, <3>3
  <2>2. CASE i \notin 1 .. Len(h)
    <3>1. i = Len(h) + 1 /\ i - 1 = Len(h)
      BY <1>1, <2>2
    <3> QED
      BY <1>1, <1>3, <1>5, <3>1
  <2> QED
    BY <2>1, <2>2
<1>7. Replayed(g)
  BY <1>6 DEF Replayed
<1> QED
  BY <1>3, <1>4, <1>5, <1>7

(* Every step keeps SyncOK.                                                *)
LEMMA SyncStep ==
    ASSUME IndInv, [Next]_vars
    PROVE  SyncOK'
<1> USE DEF IndInv
<1>1. ASSUME UNCHANGED <<machines, step, act, reply, hist, fed, cached, out, nondet, reused>>
      PROVE  SyncOK'
  BY <1>1 DEF SyncOK, SyncAt, SyncOf, Handling
<1>2. ASSUME NEW q \in Runs, NEW op \in Ops, Resolve(q, op) PROVE SyncOK'
  BY <1>1, <1>2 DEF Resolve, workerVars
<1>3. ASSUME NEW q \in Runs, PollActivation(q) PROVE SyncOK'
  <2>1. /\ step = "polling" /\ step' = "received" /\ ~out[q] /\ act'.run = q
        /\ UNCHANGED <<machines, hist, fed, nondet, reused>>
        /\ out'[q] /\ \A r \in Runs : r # q => cached'[r] = cached[r] /\ out'[r] = out[r]
    BY <1>3 DEF PollActivation, TypeOK
  <2> SUFFICES ASSUME NEW r \in Runs \ reused PROVE SyncAt(r)'
    BY <2>1 DEF SyncOK
  <2>2. SyncAt(r)
    BY DEF SyncOK
  <2>3. CASE r # q
    BY <2>1, <2>2, <2>3 DEF SyncAt
  <2>4. CASE r = q
    <3>1. fed[r] > 0 => machines[r] = ReplayOf(hist[r])[fed[r]]
      BY <2>1, <2>2, <2>4 DEF SyncAt, CoreOK
    <3> QED
      BY <2>1, <2>2, <2>4, <3>1 DEF SyncAt, SyncOf
  <2> QED
    BY <2>3, <2>4
<1>4. ASSUME NEW q \in Runs, PollEviction(q) PROVE SyncOK'
  <2>1. /\ step = "polling" /\ step' = "received" /\ act'.run = q /\ act'.evict
        /\ UNCHANGED <<machines, hist, fed, cached, nondet, reused>>
        /\ out'[q] /\ \A r \in Runs : r # q => out'[r] = out[r]
    BY <1>4 DEF PollEviction, TypeOK
  <2> QED
    BY <2>1 DEF SyncOK, SyncAt
<1>5. ASSUME NoHandler PROVE SyncOK'
  <2>1. /\ step = "received" /\ step' = "processed" /\ reply' = Statusless
        /\ UNCHANGED <<machines, act, hist, fed, cached, out, nondet, reused>>
    BY <1>5 DEF NoHandler, coreVars
  <2> QED
    BY <2>1 DEF SyncOK, SyncAt, SyncOf
<1>6. ASSUME Prepare PROVE SyncOK'
  <2>1. /\ step = "received" /\ step' = "prepared" /\ Handling /\ reused' = reused \cup Reused(act.run)
        /\ UNCHANGED <<act, hist, fed, cached, out, nondet>> /\ act # NoAct
    BY <1>6, PrepareEffect DEF Prepare, coreVars, Handling
  <2> SUFFICES ASSUME NEW r \in Runs, r \notin reused, r \notin Reused(act.run) PROVE SyncAt(r)'
    BY <2>1 DEF SyncOK
  <2>2. SyncAt(r)
    BY DEF SyncOK
  <2>3. CASE r # act.run
    <3>1. machines'[r] = machines[r]
      BY <1>6, <2>3, PrepareEffect
    <3> QED
      BY <2>1, <2>2, <2>3, <3>1 DEF SyncAt
  <2>4. CASE r = act.run
    <3>1. ActOf(r) /\ out[r] /\ fed[r] \in Nat
      BY <2>1, <2>4, RunFacts DEF ActOK, ActOf
    <3>2. ASSUME ~act.evict PROVE machines'[r] = ReplayOf(hist[r])[fed[r]]
      <4>1. CASE act.init
        <5>1. ReplayOf(hist[r])[fed[r]] = NewMachine
          BY <3>1, <3>2, <4>1, RunFacts, ReplayUnfolds DEF ActOf
        <5>2. machines[r].exists => machines[r] = NewMachine
          BY <2>4, <4>1 DEF Reused
        <5>3. machines'[r] = NewMachine
          BY <1>6, <2>4, <4>1, <5>2, PrepareEffect
        <5> QED
          BY <5>1, <5>3
      <4>2. CASE ~act.init
        <5>1. fed[r] > 0
          BY <3>1, <3>2, <4>2 DEF ActOf
        <5>2. machines[r] = ReplayOf(hist[r])[fed[r]]
          BY <2>1, <2>2, <2>4, <3>2, <5>1 DEF SyncAt, SyncOf
        <5> QED
          BY <1>6, <4>2, <5>2, PrepareEffect
      <4> QED
        BY <4>1, <4>2
    <3> QED
      BY <2>1, <2>2, <2>4, <3>1, <3>2 DEF SyncAt, SyncOf
  <2> QED
    BY <2>3, <2>4
<1>7. ASSUME Process PROVE SyncOK'
  <2>1. /\ step = "prepared" /\ step' = "processed" /\ Handling /\ act # NoAct
        /\ UNCHANGED <<act, hist, fed, cached, out, nondet, reused>>
    BY <1>7, ProcessEffect DEF Process, coreVars, Handling
  <2> SUFFICES ASSUME NEW r \in Runs, r \notin reused PROVE SyncAt(r)'
    BY <2>1 DEF SyncOK
  <2>2. SyncAt(r)
    BY DEF SyncOK
  <2>3. CASE r # act.run
    <3>1. machines'[r] = machines[r]
      BY <1>7, <2>3, ProcessEffect
    <3> QED
      BY <2>1, <2>2, <2>3, <3>1 DEF SyncAt
  <2>4. CASE r = act.run
    <3>1. out[r]
      BY <2>1, <2>4 DEF ActOK, ActOf
    <3>2. ASSUME ~act.evict PROVE machines[r] = ReplayOf(hist[r])[fed[r]]
      BY <2>1, <2>2, <2>4, <3>2 DEF SyncAt, SyncOf
    <3>3. CASE machines[r].exists
      <4>1. machines'[r] = Processed(machines[r], act) /\ reply' = Answer(machines[r], act)
        BY <1>7, <2>4, <3>3, ProcessEffect
      <4> QED
        BY <2>1, <2>2, <2>4, <3>1, <3>2, <4>1 DEF SyncAt, SyncOf
    <3>4. CASE ~machines[r].exists
      <4>1. reply' = Statusless
        BY <1>7, <2>4, <3>4, ProcessEffect
      <4> QED
        BY <2>1, <2>2, <2>4, <3>1, <4>1 DEF SyncAt, SyncOf
    <3> QED
      BY <3>3, <3>4
  <2> QED
    BY <2>3, <2>4
<1>8. ASSUME Complete PROVE SyncOK'
  <2>1. PICK q \in Runs : q = act.run
    BY <1>8, CompleteCases
  <2>2. /\ step = "processed" /\ step' = "polling" /\ ~Handling' /\ Handling /\ act # NoAct
        /\ UNCHANGED <<machines, reused>>
    BY <1>8, <2>1, CompleteCases DEF Handling
  <2>3. ActOf(q) /\ out[q] /\ hist[q] \in Seq(Task) /\ fed[q] \in Nat /\ Len(hist[q]) \in Nat
    BY <2>1, <2>2, RunFacts DEF ActOK, ActOf
  <2> SUFFICES ASSUME NEW r \in Runs, r \notin reused
               PROVE  /\ ~nondet'[r] /\ Replayed(hist'[r])
                      /\ cached'[r] /\ ~out'[r] => machines[r] = ReplayOf(hist'[r])[fed'[r]]
    BY <2>2 DEF SyncOK, SyncAt
  <2>4. SyncAt(r)
    BY DEF SyncOK
  <2>5. CASE r # q
    BY <1>8, <2>1, <2>2, <2>4, <2>5, CompleteOthers DEF SyncAt
  <2>6. CASE r = q /\ reply = Statusless
    <3>1. UNCHANGED <<hist, fed, cached, out, nondet>>
      BY <1>8, <2>1, <2>6, CompleteCases
    <3> QED
      BY <2>3, <2>4, <2>6, <3>1 DEF SyncAt
  <2>7. CASE r = q /\ reply # Statusless /\ act.evict
    <3>1. cached' = [cached EXCEPT ![q] = FALSE] /\ UNCHANGED <<hist, nondet>>
      BY <1>8, <2>1, <2>7, CompleteCases
    <3>2. ~cached'[r]
      BY <2>7, <3>1 DEF TypeOK
    <3> QED
      BY <2>4, <3>1, <3>2 DEF SyncAt
  <2>8. CASE r = q /\ reply # Statusless /\ ~act.evict
    <3> DEFINE now == ReplayOf(hist[r])[fed[r]]
    <3>1. /\ ~nondet[r] /\ Replayed(hist[r]) /\ act.evict \in BOOLEAN
          /\ machines[r] = Processed(now, act) /\ reply = Answer(now, act)
          /\ reply = Success(reply.cmds, reply.ends)
      BY <2>1, <2>2, <2>4, <2>8, ActFacts, ReplyFacts DEF SyncAt, SyncOf
    <3>2. CASE act.replaying
      <4>1. fed[r] < Len(hist[r]) /\ act.jobs = hist[r][fed[r] + 1].jobs
        BY <2>3, <2>8, <3>2 DEF ActOf
      <4>2. /\ machines[r] = ReplayOf(hist[r])[fed[r] + 1]
            /\ reply = Success(hist[r][fed[r] + 1].cmds, hist[r][fed[r] + 1].ends)
        BY <2>3, <2>8, <3>1, <4>1, SyncReplay
      <4>3. /\ reply.cmds = hist[r][fed[r] + 1].cmds
            /\ reply.ends = hist[r][fed[r] + 1].ends
        BY <4>2, Zenon DEF Success
      <4>4. ~nondet'[r] /\ hist' = hist /\ fed'[r] = fed[r] + 1
        BY <1>8, <2>1, <2>8, <3>2, <4>3, CompleteReplay
      <4> QED
        BY <3>1, <4>2, <4>4
    <3>3. CASE ~act.replaying
      <4>1. /\ nondet' = nondet /\ fed'[r] = fed[r] + 1 /\ fed[r] = Len(hist[r])
            /\ Entry \in Task /\ hist'[r] = Append(hist[r], Entry)
            /\ Entry.jobs = act.jobs /\ Entry.cmds = reply.cmds /\ Entry.ends = reply.ends
        BY <1>8, <2>1, <2>8, <3>3, CompleteRecord
      <4>2. /\ Replayed(Append(hist[r], Entry))
            /\ machines[r] = ReplayOf(Append(hist[r], Entry))[fed[r] + 1]
        BY <2>3, <2>8, <3>1, <4>1, SyncRecord
      <4> QED
        BY <3>1, <4>1, <4>2
    <3> QED
      BY <3>2, <3>3
  <2> QED
    BY <2>5, <2>6, <2>7, <2>8
<1>9. ASSUME Run PROVE SyncOK'
  <2>1. /\ step' = "polling" /\ UNCHANGED <<hist, reused>>
        /\ \A r \in Runs : ~cached'[r] /\ ~nondet'[r]
    BY <1>9 DEF Run
  <2> QED
    BY <2>1 DEF SyncOK, SyncAt, Handling
<1>10. ASSUME RunEnds \/ Crash PROVE SyncOK'
  <2>1. step' = "stopped" /\ UNCHANGED <<hist, nondet, reused>>
    BY <1>10 DEF RunEnds, Crash, coreVars
  <2> QED
    BY <2>1 DEF SyncOK, SyncAt, Handling
<1>11. ASSUME UNCHANGED vars PROVE SyncOK'
  BY <1>1, <1>11 DEF vars, workerVars, coreVars
<1> QED
  BY <1>2, <1>3, <1>4, <1>5, <1>6, <1>7, <1>8, <1>9, <1>10, <1>11 DEF Next, HandlerStep
------------------------------------------------------------------------------
(* The invariant holds at the start.                                       *)
LEMMA InitInv ==
    ASSUME Init
    PROVE  IndInv
<1>1. /\ step = "stopped" /\ reused = {}
      /\ \A r \in Runs : /\ machines[r] = Absent /\ hist[r] = <<>> /\ resolved[r] = {}
                         /\ fed[r] = 0 /\ ~nondet[r]
  BY DEF Init
<1>2. ~Absent.exists
  BY Zenon DEF Absent
<1>3. Len(<<>>) = 0 /\ \A n \in 1 .. 0 : FALSE
  OBVIOUS
<1>4. TypeOK
  BY BoundsAssumption DEF Init, TypeOK, Absent
<1>5. MachinesOK /\ AheadOK /\ ReplyOK
  BY <1>1, <1>2 DEF MachinesOK, AheadOK, ReplyOK
<1>6. HistoriesOK /\ CoreOK
  BY <1>1, <1>3 DEF HistoriesOK, HistoryOK, CoreOK
<1>7. ActOK
  BY DEF Init, ActOK, Handling
<1>8. SyncOK
  BY <1>1, <1>3 DEF SyncOK, SyncAt, Replayed, Handling
<1> QED
  BY <1>4, <1>5, <1>6, <1>7, <1>8 DEF IndInv

(* IndInv is an invariant of the cache, the handler and Core.              *)
THEOREM Inductive == Spec => []IndInv
<1>1. Init => IndInv
  BY InitInv
<1>2. IndInv /\ [Next]_vars => IndInv'
  <2> SUFFICES ASSUME IndInv, [Next]_vars PROVE IndInv'
    OBVIOUS
  <2>1. MachinesOK' /\ HistoriesOK' /\ CoreOK'
    BY MachinesStep, HistoriesStep, CoreStep
  <2>2. TypeOK'
    BY <2>1, TypeStep DEF IndInv
  <2>3. ActOK' /\ AheadOK' /\ ReplyOK' /\ SyncOK'
    BY ActStep, AheadStep, ReplyStep, SyncStep
  <2> QED
    BY <2>1, <2>2, <2>3 DEF IndInv
<1> QED
  BY <1>1, <1>2, PTL DEF Spec

(* The variables keep their types, and no machine awaits a result it       *)
(* has.                                                                    *)
THEOREM TypeCorrect == Spec => []TypeOK
<1>1. IndInv => TypeOK
  BY DEF IndInv
<1> QED
  BY <1>1, Inductive, PTL

(* For any runs and any script: unless a used machine was kept for a new   *)
(* start, the machine that get_or_create and process_activation leave in   *)
(* the cache is where a replay of the tasks Core fed it would leave it,    *)
(* through dropped handlers, evictions, crashes and any number of calls    *)
(* of run().                                                               *)
THEOREM FollowsReplay == Spec => []MachineFollowsHistory
<1>1. IndInv => MachineFollowsHistory
  BY DEF IndInv, SyncOK, SyncAt, MachineFollowsHistory
<1> QED
  BY <1>1, Inductive, PTL

(* Only the reuse of a machine by get_or_create makes a replay differ      *)
(* from the history.                                                       *)
THEOREM OnlyByReuse == Spec => []NondeterminismOnlyByReuse
<1>1. IndInv => NondeterminismOnlyByReuse
  BY DEF IndInv, SyncOK, SyncAt, NondeterminismOnlyByReuse
<1> QED
  BY <1>1, Inductive, PTL

(* Histories follow the workflow code, also those of runs whose used       *)
(* machine was kept for a new start.                                       *)
THEOREM FollowsCode == Spec => []HistoryFollowsCode
<1>1. IndInv => HistoryFollowsCode
  BY FollowsMeans DEF IndInv, HistoriesOK
<1> QED
  BY <1>1, Inductive, PTL
------------------------------------------------------------------------------
(* While each Worker is run once and Core evicts only runs that are        *)
(* closed, a machine is there for a run of which Core has fed nothing only *)
(* from Prepare to Complete: get_or_create finds none that was used.       *)
FreshAt(r) ==
    step # "stopped" /\ fed[r] = 0 /\ ~Closed(r) /\ machines[r].exists =>
        /\ act # NoAct /\ act.run = r /\ step \in {"prepared", "processed"}
        /\ step = "processed" => reply # Statusless

Fresh ==
    /\ reused = {}
    /\ act # NoAct /\ act.evict => Closed(act.run)
    /\ \A r \in Runs : FreshAt(r)

(* The handler moves on for one run only.                                  *)
LEMMA FreshOthers ==
    ASSUME Fresh, NEW r \in Runs, machines'[r] = machines[r], fed'[r] = fed[r],
           Closed(r)' <=> Closed(r), step # "stopped", act = NoAct \/ act.run # r
    PROVE  FreshAt(r)'
  BY DEF Fresh, FreshAt

LEMMA FreshPrepare ==
    ASSUME IndInv, Fresh, Prepare PROVE Fresh'
<1>1. TypeOK /\ ActOK /\ step = "received" /\ step' = "prepared" /\ act # NoAct /\ act.run \in Runs
  BY ActFacts DEF IndInv, ActOK, Handling, Prepare
<1>2. /\ UNCHANGED <<act, reply, hist, resolved, fed, cached, out, nondet>>
      /\ reused' = reused \cup Reused(act.run)
  BY DEF Prepare, coreVars
<1>3. (\A r : Closed(r)' <=> Closed(r))
  BY <1>2 DEF Closed
<1>4. Reused(act.run) = {}
  <2>1. act.init => fed[act.run] = 0 /\ ~Closed(act.run)
    BY <1>1 DEF ActOK, ActOf, Handling
  <2>2. FreshAt(act.run)
    BY <1>1 DEF Fresh
  <2> QED
    BY <1>1, <2>1, <2>2 DEF FreshAt, Reused
<1>5. ASSUME NEW r \in Runs PROVE FreshAt(r)'
  <2>1. CASE r = act.run
    BY <1>1, <1>2, <2>1 DEF FreshAt
  <2>2. CASE r # act.run
    BY <1>1, <1>2, <1>3, <2>2, PrepareEffect, FreshOthers
  <2> QED
    BY <2>1, <2>2
<1> QED
  BY <1>2, <1>3, <1>4, <1>5 DEF Fresh

LEMMA FreshProcess ==
    ASSUME IndInv, Fresh, Process PROVE Fresh'
<1>1. TypeOK /\ ActOK /\ step = "prepared" /\ step' = "processed" /\ act # NoAct /\ act.run \in Runs
  BY ActFacts DEF IndInv, ActOK, Handling, Process
<1>2. UNCHANGED <<act, hist, resolved, fed, cached, out, nondet, reused>>
  BY DEF Process, coreVars
<1>3. (\A r : Closed(r)' <=> Closed(r))
  BY <1>2 DEF Closed
<1>4. ASSUME NEW r \in Runs PROVE FreshAt(r)'
  <2>1. CASE r = act.run /\ machines[r].exists
    <3>1. reply' = Answer(machines[r], act)
      BY <1>1, <2>1, ProcessEffect
    <3>2. Answer(machines[r], act) # Statusless
      BY Zenon DEF Answer, Success, Statusless
    <3> QED
      BY <1>1, <1>2, <2>1, <3>1, <3>2 DEF FreshAt
  <2>2. CASE r = act.run /\ ~machines[r].exists
    BY <1>1, <2>2, ProcessEffect DEF FreshAt
  <2>3. CASE r # act.run
    BY <1>1, <1>2, <1>3, <2>3, ProcessEffect, FreshOthers
  <2> QED
    BY <2>1, <2>2, <2>3
<1> QED
  BY <1>2, <1>3, <1>4 DEF Fresh

LEMMA FreshComplete ==
    ASSUME IndInv, Fresh, Complete PROVE Fresh'
<1>1. /\ TypeOK /\ ActOK /\ step = "processed" /\ step' = "polling" /\ act # NoAct
      /\ act.run \in Runs /\ act' = NoAct /\ UNCHANGED <<machines, reused>>
  BY CompleteCases DEF IndInv
<1>2. ASSUME NEW r \in Runs PROVE FreshAt(r)'
  <2>1. CASE r # act.run
    <3>1. fed'[r] = fed[r] /\ hist'[r] = hist[r]
      BY <1>1, <2>1, CompleteCases DEF TypeOK
    <3>2. Closed(r)' <=> Closed(r)
      BY <3>1 DEF Closed
    <3> QED
      BY <1>1, <2>1, <3>1, <3>2, FreshOthers
  <2>2. CASE r = act.run /\ reply = Statusless
    <3>1. UNCHANGED <<fed, hist>>
      BY <2>2, CompleteCases, <1>1
    <3>2. Closed(r)' <=> Closed(r)
      BY <3>1 DEF Closed
    <3> QED
      BY <1>1, <2>2, <3>1, <3>2 DEF Fresh, FreshAt
  <2>3. CASE r = act.run /\ reply # Statusless /\ act.evict
    <3>1. UNCHANGED hist
      BY <1>1, <2>3, CompleteCases
    <3>2. Closed(r)'
      BY <1>1, <2>3, <3>1 DEF Closed, Fresh
    <3> QED
      BY <3>2 DEF FreshAt
  <2>4. CASE r = act.run /\ reply # Statusless /\ ~act.evict
    <3>1. fed'[r] = fed[r] + 1 /\ fed[r] \in Nat
      BY <1>1, <2>4, CompleteCases, RunFacts DEF TypeOK
    <3> QED
      BY <3>1 DEF FreshAt
  <2> QED
    BY <2>1, <2>2, <2>3, <2>4
<1> QED
  BY <1>1, <1>2 DEF Fresh

LEMMA FreshStep ==
    ASSUME ~EvictOpen, IndInv, Fresh, [Next /\ OncePerWorker]_vars PROVE Fresh'
<1>1. ASSUME NEW r \in Runs, NEW op \in Ops, Resolve(r, op) PROVE Fresh'
  <2>1. UNCHANGED <<machines, step, act, reply, hist, fed, reused>>
    BY <1>1 DEF Resolve, workerVars
  <2> QED
    BY <2>1 DEF Fresh, FreshAt, Closed
<1>2. ASSUME NEW r \in Runs, PollActivation(r) \/ PollEviction(r) PROVE Fresh'
  <2>1. /\ step = "polling" /\ UNCHANGED <<machines, hist, fed, reused>> /\ act = NoAct
        /\ act'.run = r /\ (act'.evict => Closed(r))
    BY <1>2 DEF PollActivation, PollEviction, IndInv, ActOK, Handling
  <2>2. (\A q : Closed(q)' <=> Closed(q))
    BY <2>1 DEF Closed
  <2>3. ASSUME NEW q \in Runs PROVE FreshAt(q)'
    BY <2>1, <2>2, FreshOthers
  <2> QED
    BY <2>1, <2>2, <2>3 DEF Fresh
<1>3. ASSUME NoHandler PROVE Fresh'
  <2>1. /\ step = "received" /\ UNCHANGED <<machines, act, hist, fed, reused>>
    BY <1>3 DEF NoHandler, coreVars
  <2> QED
    BY <2>1 DEF Fresh, FreshAt, Closed
<1>4. ASSUME Run, OncePerWorker PROVE Fresh'
  <2>1. /\ \A r \in Runs : ~machines[r].exists
        /\ UNCHANGED <<machines, act, hist, reused>>
    BY <1>4 DEF Run, OncePerWorker
  <2> QED
    BY <2>1 DEF Fresh, FreshAt, Closed
<1>5. ASSUME RunEnds \/ Crash PROVE Fresh'
  <2>1. step' = "stopped" /\ act' = NoAct /\ UNCHANGED <<hist, reused>>
    BY <1>5 DEF RunEnds, Crash, coreVars
  <2> QED
    BY <2>1 DEF Fresh, FreshAt
<1>6. ASSUME UNCHANGED vars PROVE Fresh'
  BY <1>6 DEF vars, workerVars, coreVars, Fresh, FreshAt, Closed
<1> QED
  BY <1>1, <1>2, <1>3, <1>4, <1>5, <1>6, FreshPrepare, FreshProcess, FreshComplete
     DEF Next, HandlerStep

(* The two ways to reuse a machine are the only ones: if each Worker is    *)
(* run once and Core evicts closed runs only, replays match their          *)
(* histories through any number of crashes.                                *)
THEOREM ReplaysMatch == ~EvictOpen => (OneRunSpec => []NoNondeterminism)
<1> SUFFICES ASSUME ~EvictOpen PROVE OneRunSpec => []NoNondeterminism
  OBVIOUS
<1>1. OneRunSpec => Spec
  BY PTL DEF OneRunSpec, Spec
<1>2. Init => Fresh
  BY Zenon DEF Init, Fresh, FreshAt
<1>3. IndInv /\ Fresh /\ [Next /\ OncePerWorker]_vars => Fresh'
  BY FreshStep
<1>4. Fresh /\ NondeterminismOnlyByReuse => NoNondeterminism
  BY DEF Fresh, NondeterminismOnlyByReuse, NoNondeterminism
<1> QED
  BY <1>1, <1>2, <1>3, <1>4, Inductive, OnlyByReuse, PTL DEF OneRunSpec
------------------------------------------------------------------------------
(* How often a history starts and delivers an operation.                   *)
CmdTimes(h, op) == Cardinality({i \in DOMAIN h : op \in h[i].cmds})

JobTimes(h, op) == Cardinality({i \in DOMAIN h : op \in h[i].jobs})

(* An operation is counted when it is in a task.                           *)
LEMMA TimesZero ==
    ASSUME NEW h \in Seq(Task), NEW op
    PROVE  /\ CmdTimes(h, op) \in Nat /\ (CmdTimes(h, op) = 0 <=> op \notin CmdsTo(h, Len(h)))
           /\ JobTimes(h, op) \in Nat /\ (JobTimes(h, op) = 0 <=> op \notin JobsTo(h, Len(h)))
<1> DEFINE C == {i \in DOMAIN h : op \in h[i].cmds}
           J == {i \in DOMAIN h : op \in h[i].jobs}
<1>1. Len(h) \in Nat /\ DOMAIN h = 1 .. Len(h) /\ IsFiniteSet(1 .. Len(h))
  BY TaskFields, FS_Interval
<1>2. C \in SUBSET (1 .. Len(h)) /\ J \in SUBSET (1 .. Len(h))
  BY <1>1
<1>3. (C = {} <=> op \notin CmdsTo(h, Len(h))) /\ (J = {} <=> op \notin JobsTo(h, Len(h)))
  BY <1>1 DEF CmdsTo, JobsTo
<1>4. CmdTimes(h, op) = Cardinality(C) /\ JobTimes(h, op) = Cardinality(J)
  BY DEF CmdTimes, JobTimes
<1> HIDE DEF C, J
<1>5. IsFiniteSet(C) /\ IsFiniteSet(J)
  BY <1>1, <1>2, FS_Subset
<1>6. /\ Cardinality(C) \in Nat /\ (Cardinality(C) = 0 <=> C = {})
      /\ Cardinality(J) \in Nat /\ (Cardinality(J) = 0 <=> J = {})
  BY <1>5, FS_EmptySet, FS_CardinalityType
<1> QED
  BY <1>3, <1>4, <1>6

(* One index more or none.                                                 *)
LEMMA IndicesAppend ==
    ASSUME NEW n \in Nat, NEW S \in SUBSET (1 .. n), NEW T, T = S \/ T = S \cup {n + 1}
    PROVE  Cardinality(T) = IF n + 1 \in T THEN Cardinality(S) + 1 ELSE Cardinality(S)
<1>0. IsFiniteSet(1 .. n)
  BY FS_Interval
<1>1. IsFiniteSet(S)
  BY <1>0, FS_Subset
<1>2. n + 1 \notin S
  OBVIOUS
<1>3. Cardinality(S \cup {n + 1}) = Cardinality(S) + 1
  BY <1>1, <1>2, FS_AddElement
<1> QED
  BY <1>2, <1>3

(* Recording a task counts its operations once more.                       *)
LEMMA TimesAppend ==
    ASSUME NEW h \in Seq(Task), NEW t \in Task, NEW op
    PROVE  /\ CmdTimes(Append(h, t), op) =
                 IF op \in t.cmds THEN CmdTimes(h, op) + 1 ELSE CmdTimes(h, op)
           /\ JobTimes(Append(h, t), op) =
                 IF op \in t.jobs THEN JobTimes(h, op) + 1 ELSE JobTimes(h, op)
<1> DEFINE g == Append(h, t)
           n == Len(h)
<1>1. /\ n \in Nat /\ DOMAIN h = 1 .. n /\ DOMAIN g = 1 .. n + 1 /\ g[n + 1] = t
      /\ \A i \in 1 .. n : g[i] = h[i] /\ i # n + 1
      /\ \A i \in 1 .. n + 1 : i \in 1 .. n \/ i = n + 1
      /\ n + 1 \in 1 .. n + 1 /\ \A i \in 1 .. n : i \in 1 .. n + 1
  BY TaskFields
<1> HIDE DEF g, n
<1>2. CmdTimes(g, op) = IF op \in t.cmds THEN CmdTimes(h, op) + 1 ELSE CmdTimes(h, op)
  <2> DEFINE S == {i \in DOMAIN h : op \in h[i].cmds}
             T == {i \in DOMAIN g : op \in g[i].cmds}
  <2>1. S \in SUBSET (1 .. n) /\ (n + 1 \in T <=> op \in t.cmds)
    BY <1>1
  <2>2. T = S \/ T = S \cup {n + 1}
    <3>1. CASE op \in t.cmds
      BY <1>1, <3>1
    <3>2. CASE op \notin t.cmds
      BY <1>1, <3>2
    <3> QED
      BY <3>1, <3>2
  <2>3. CmdTimes(g, op) = Cardinality(T) /\ CmdTimes(h, op) = Cardinality(S)
    BY DEF CmdTimes
  <2> HIDE DEF S, T
  <2> QED
    BY <1>1, <2>1, <2>2, <2>3, IndicesAppend
<1>3. JobTimes(g, op) = IF op \in t.jobs THEN JobTimes(h, op) + 1 ELSE JobTimes(h, op)
  <2> DEFINE S == {i \in DOMAIN h : op \in h[i].jobs}
             T == {i \in DOMAIN g : op \in g[i].jobs}
  <2>1. S \in SUBSET (1 .. n) /\ (n + 1 \in T <=> op \in t.jobs)
    BY <1>1
  <2>2. T = S \/ T = S \cup {n + 1}
    <3>1. CASE op \in t.jobs
      BY <1>1, <3>1
    <3>2. CASE op \notin t.jobs
      BY <1>1, <3>2
    <3> QED
      BY <3>1, <3>2
  <2>3. JobTimes(g, op) = Cardinality(T) /\ JobTimes(h, op) = Cardinality(S)
    BY DEF JobTimes
  <2> HIDE DEF S, T
  <2> QED
    BY <1>1, <2>1, <2>2, <2>3, IndicesAppend
<1> QED
  BY <1>2, <1>3 DEF g
------------------------------------------------------------------------------
(* The refinement mapping of HistorySpec.                                  *)
Begun       == {r \in Runs : hist[r] # <<>>}

ClosedRuns  == {r \in Runs : Closed(r)}

StartCounts == [r \in Runs |-> [op \in Ops |-> CmdTimes(hist[r], op)]]

DeliveryCounts == [r \in Runs |-> [op \in Ops |-> JobTimes(hist[r], op)]]

(* The mapping as WorkflowCache writes it.                                 *)
LEMMA Mapping ==
    /\ StartCounts = [r \in Runs |-> [op \in Ops |-> StartTimes(r, op)]]
    /\ DeliveryCounts = [r \in Runs |-> [op \in Ops |-> DeliveryTimes(r, op)]]
  BY Zenon DEF StartCounts, DeliveryCounts, StartTimes, DeliveryTimes, CmdTimes, JobTimes

(* The start is the abstract start.                                        *)
LEMMA NothingBefore == Init => History!Init
<1> SUFFICES ASSUME Init PROVE History!Init
  OBVIOUS
<1>1. \A r \in Runs : hist[r] = <<>> /\ resolved[r] = {}
  BY DEF Init
<1>2. <<>> \in Seq(Task) /\ Len(<<>>) = 0 /\ DOMAIN <<>> = {}
  OBVIOUS
<1>3. \A op : op \notin CmdsTo(<<>>, 0) /\ op \notin JobsTo(<<>>, 0)
  BY ToNext
<1>4. \A op : CmdTimes(<<>>, op) = 0 /\ JobTimes(<<>>, op) = 0
  BY <1>2, <1>3, TimesZero
<1>5. StartCounts = History!Never /\ DeliveryCounts = History!Never
  BY <1>1, <1>4 DEF StartCounts, DeliveryCounts, History!Never
<1>6. Begun = {} /\ ClosedRuns = {}
  BY <1>1, <1>2 DEF Begun, ClosedRuns, Closed
<1>7. resolved = [r \in Runs |-> {}]
  BY DEF Init
<1> QED
  BY <1>5, <1>6, <1>7, Mapping, Zenon DEF History!Init, Begun, ClosedRuns

(* A step that leaves the histories and the server alone is a stuttering   *)
(* step of DurableHistory.                                                 *)
LEMMA HistoryStutters == UNCHANGED <<hist, resolved>> => UNCHANGED History!vars
<1> SUFFICES ASSUME hist' = hist, resolved' = resolved PROVE UNCHANGED History!vars
  OBVIOUS
<1>1. (\A r : Closed(r)' <=> Closed(r)) /\ \A r, op : /\ StartTimes(r, op)' = StartTimes(r, op)
                                                     /\ DeliveryTimes(r, op)' = DeliveryTimes(r, op)
  BY Zenon DEF Closed, StartTimes, DeliveryTimes
<1> QED
  BY <1>1 DEF History!vars

(* The server's step is the abstract one.                                  *)
LEMMA ResolveRefines ==
    ASSUME TypeOK, NEW r \in Runs, NEW op \in Ops, Resolve(r, op)
    PROVE  History!Resolve(r, op)
<1>1. /\ op \in Started(r) /\ op \notin resolved[r] /\ ~Closed(r)
      /\ resolved' = [resolved EXCEPT ![r] = @ \cup {op}] /\ hist' = hist
  BY DEF Resolve
<1>2. StartCounts[r][op] > 0
  <2>1. op \in CmdsTo(hist[r], Len(hist[r])) /\ hist[r] \in Seq(Task)
    BY <1>1, Totals, RunFacts
  <2> QED
    BY <2>1, TimesZero DEF StartCounts
<1>3. (\A q : Closed(q)' <=> Closed(q)) /\ \A q, o : /\ StartTimes(q, o)' = StartTimes(q, o)
                                                    /\ DeliveryTimes(q, o)' = DeliveryTimes(q, o)
  BY <1>1, Zenon DEF Closed, StartTimes, DeliveryTimes
<1>4. [q \in Runs |-> [o \in Ops |-> StartTimes(q, o)]][r][op] > 0
  BY <1>2, Mapping
<1>5. r \notin {q \in Runs : Closed(q)}
  BY <1>1
<1>6. UNCHANGED <<{q \in Runs : hist[q] # <<>>}, [q \in Runs |-> [o \in Ops |-> StartTimes(q, o)]],
                  [q \in Runs |-> [o \in Ops |-> DeliveryTimes(q, o)]], {q \in Runs : Closed(q)}>>
  BY <1>1, <1>3
<1> QED
  BY <1>1, <1>4, <1>5, <1>6, Zenon DEF History!Resolve

(* A history has ended.                                                    *)
HasEnd(h) == \E i \in DOMAIN h : h[i].ends

(* A completion that Core records is the abstract workflow task: its       *)
(* jobs are news, its commands are new, and an end starts nothing.         *)
LEMMA RecordRefines ==
    ASSUME IndInv, Complete, ~UNCHANGED hist
    PROVE  \E r \in Runs : History!Task(r)
<1> USE DEF IndInv
<1>1. PICK r \in Runs : r = act.run
  BY CompleteCases
<1>2. /\ step = "processed" /\ Handling /\ act # NoAct /\ reply # Statusless
      /\ ~act.evict /\ ~act.replaying /\ UNCHANGED resolved
  BY <1>1, CompleteCases DEF Handling
<1>3. /\ Entry \in Task /\ hist'[r] = Append(hist[r], Entry) /\ hist[r] \in Seq(Task)
      /\ Entry.jobs = act.jobs /\ Entry.cmds = reply.cmds /\ Entry.ends = reply.ends
      /\ \A q \in Runs : q # r => hist'[q] = hist[q]
  BY <1>1, <1>2, CompleteRecord, CompleteOthers, RunFacts
<1>4. /\ ~Closed(r) /\ act.jobs \subseteq resolved[r] /\ act.jobs \cap Told(r) = {}
      /\ hist[r] # <<>> => act.jobs # {}
  BY <1>1, <1>2 DEF ActOK, ActOf
<1>5. /\ AnswerOf(machines[r], hist[r], act.jobs, reply.cmds, reply.ends)
      /\ FollowsNext(hist[r], act.jobs, reply.cmds, reply.ends)
      /\ act.jobs \in SUBSET Ops /\ reply.cmds \in SUBSET Ops /\ reply.ends \in BOOLEAN
  BY <1>1, <1>2, ActFacts, ReplyFacts DEF ReplyOK
<1> SUFFICES
      /\ r \notin ClosedRuns
      /\ Begun' = Begun \cup {r}
      /\ \E jobs \in SUBSET {op \in resolved[r] : DeliveryCounts[r][op] = 0} :
            /\ r \in Begun => jobs # {}
            /\ DeliveryCounts' = [DeliveryCounts EXCEPT ![r] = History!Count(@, jobs)]
      /\ \/ /\ \E cmds \in SUBSET {op \in Ops : StartCounts[r][op] = 0} :
                  StartCounts' = [StartCounts EXCEPT ![r] = History!Count(@, cmds)]
            /\ UNCHANGED ClosedRuns
         \/ ClosedRuns' = ClosedRuns \cup {r} /\ UNCHANGED StartCounts
      /\ UNCHANGED resolved
  BY Zenon DEF History!Task, History!News, History!Unstarted, StartTimes, DeliveryTimes,
     StartCounts, DeliveryCounts, CmdTimes, JobTimes, Begun, ClosedRuns
<1>6. Begun' = Begun \cup {r}
  <2>1. Append(hist[r], Entry) # <<>>
    BY <1>3
  <2> QED
    BY <1>3, <2>1 DEF Begun
<1>7. /\ StartCounts' = [StartCounts EXCEPT ![r] = History!Count(@, reply.cmds)]
      /\ DeliveryCounts' = [DeliveryCounts EXCEPT ![r] = History!Count(@, act.jobs)]
  <2>1. \A op : /\ CmdTimes(hist'[r], op) = IF op \in reply.cmds THEN CmdTimes(hist[r], op) + 1
                                           ELSE CmdTimes(hist[r], op)
                /\ JobTimes(hist'[r], op) = IF op \in act.jobs THEN JobTimes(hist[r], op) + 1
                                           ELSE JobTimes(hist[r], op)
    BY <1>3, TimesAppend
  <2>2. \A q \in Runs : q # r => \A op : /\ CmdTimes(hist'[q], op) = CmdTimes(hist[q], op)
                                        /\ JobTimes(hist'[q], op) = JobTimes(hist[q], op)
    BY <1>3
  <2>3. StartCounts' = [StartCounts EXCEPT ![r] = History!Count(@, reply.cmds)]
    BY <2>1, <2>2 DEF StartCounts, History!Count
  <2>4. DeliveryCounts' = [DeliveryCounts EXCEPT ![r] = History!Count(@, act.jobs)]
    BY <2>1, <2>2 DEF DeliveryCounts, History!Count
  <2> QED
    BY <2>3, <2>4
<1>8. HasEnd(hist'[r]) <=> reply.ends
  <2>1. /\ Len(hist[r]) \in Nat /\ DOMAIN hist[r] = 1 .. Len(hist[r])
        /\ DOMAIN hist'[r] = 1 .. Len(hist[r]) + 1 /\ hist'[r][Len(hist[r]) + 1] = Entry
        /\ \A i \in 1 .. Len(hist[r]) : hist'[r][i] = hist[r][i]
        /\ \A i \in 1 .. Len(hist[r]) + 1 : i \in 1 .. Len(hist[r]) \/ i = Len(hist[r]) + 1
        /\ Len(hist[r]) + 1 \in 1 .. Len(hist[r]) + 1
    BY <1>3, TaskFields
  <2> QED
    BY <1>3, <1>4, <2>1 DEF HasEnd, Closed
<1>9. act.jobs \in SUBSET {op \in resolved[r] : DeliveryCounts[r][op] = 0}
  <2>1. \A op \in act.jobs : JobTimes(hist[r], op) = 0
    BY <1>3, <1>4, TimesZero DEF Told
  <2> QED
    BY <1>4, <1>5, <2>1 DEF DeliveryCounts
<1>10. reply.cmds \in SUBSET {op \in Ops : StartCounts[r][op] = 0}
  <2>1. reply.cmds \cap CmdsTo(hist[r], Len(hist[r])) = {}
    <3> SUFFICES ASSUME reply.cmds # {} PROVE reply.cmds \cap CmdsTo(hist[r], Len(hist[r])) = {}
      OBVIOUS
    <3>1. PICK s \in Stages : reply.cmds = Script[s] /\ CmdsTo(hist[r], Len(hist[r])) = Prefix(s - 1)
      BY <1>5 DEF FollowsNext
    <3>2. s - 1 \in 0 .. Len(Script) /\ s - 1 # Len(Script) /\ s - 1 + 1 = s
      BY ScriptFacts DEF Stages
    <3>3. Script[s] \cap Prefix(s - 1) = {}
      BY <3>2, StageFresh
    <3> QED
      BY <3>1, <3>3
  <2>2. \A op \in reply.cmds : CmdTimes(hist[r], op) = 0
    BY <1>3, <2>1, TimesZero
  <2> QED
    BY <1>5, <2>2 DEF StartCounts
<1>11. r \notin ClosedRuns /\ (r \in Begun => act.jobs # {})
  BY <1>4 DEF ClosedRuns, Begun
<1>12. ~reply.ends => ClosedRuns' = ClosedRuns
  BY <1>3, <1>4, <1>8 DEF ClosedRuns, Closed, HasEnd
<1>13. ASSUME reply.ends PROVE ClosedRuns' = ClosedRuns \cup {r} /\ StartCounts' = StartCounts
  <2>1. ClosedRuns' = ClosedRuns \cup {r}
    BY <1>3, <1>8, <1>13 DEF ClosedRuns, Closed, HasEnd
  <2>2. reply.cmds = {}
    BY <1>5, <1>13 DEF AnswerOf
  <2> QED
    BY <1>7, <2>1, <2>2 DEF StartCounts, History!Count
<1> HIDE DEF IndInv
<1> QED
  BY <1>2, <1>6, <1>7, <1>9, <1>10, <1>11, <1>12, <1>13

(* Every step is a step of DurableHistory or a stuttering step.            *)
LEMMA StepRefines == IndInv /\ [Next]_vars => [History!Next]_(History!vars)
<1> SUFFICES ASSUME IndInv, [Next]_vars PROVE [History!Next]_(History!vars)
  OBVIOUS
<1>1. CASE UNCHANGED <<hist, resolved>>
  BY <1>1, HistoryStutters
<1>2. ASSUME NEW r \in Runs, NEW op \in Ops, Resolve(r, op) PROVE History!Next
  BY <1>2, ResolveRefines, Zenon DEF IndInv, History!Next
<1>3. ASSUME Complete, ~UNCHANGED hist PROVE History!Next
  BY <1>3, RecordRefines, Zenon DEF History!Next
<1>4. ASSUME Complete, UNCHANGED hist PROVE UNCHANGED <<hist, resolved>>
  BY <1>4 DEF Complete
<1>5. ASSUME NEW r \in Runs, PollActivation(r) \/ PollEviction(r) PROVE UNCHANGED <<hist, resolved>>
  BY <1>5 DEF PollActivation, PollEviction
<1>6. ASSUME NoHandler \/ Prepare \/ Process PROVE UNCHANGED <<hist, resolved>>
  BY <1>6 DEF NoHandler, Prepare, Process, coreVars
<1>7. ASSUME Run \/ RunEnds \/ Crash \/ UNCHANGED vars PROVE UNCHANGED <<hist, resolved>>
  BY <1>7 DEF Run, RunEnds, Crash, vars, coreVars
<1> QED
  BY <1>1, <1>2, <1>3, <1>4, <1>5, <1>6, <1>7, Zenon DEF Next, HandlerStep

(* For any runs and any script, the cache, the handler and Core            *)
(* implement DurableHistory: an operation is started once and delivered    *)
(* once, whatever is replayed, evicted, dropped or lost, also into a       *)
(* stale machine.                                                          *)
THEOREM ImplementsHistory == Spec => HistorySpec
<1>1. Init => History!Init
  BY NothingBefore
<1>2. IndInv /\ [Next]_vars => [History!Next]_(History!vars)
  BY StepRefines
<1> QED
  BY <1>1, <1>2, Inductive, PTL DEF Spec, HistorySpec, History!Spec

(* An operation is started and delivered at most once in a history, and    *)
(* in that order.                                                          *)
THEOREM Once == Spec => []OnceInHistory
<1>1. History!AtMostOnce => OnceInHistory
  <2> SUFFICES ASSUME History!AtMostOnce, NEW r \in Runs, NEW op \in Ops
               PROVE  /\ StartTimes(r, op) \in 0 .. 1 /\ DeliveryTimes(r, op) \in 0 .. 1
                      /\ DeliveryTimes(r, op) = 1 => op \in resolved[r]
                      /\ op \in resolved[r] => StartTimes(r, op) = 1
    BY DEF OnceInHistory
  <2> DEFINE S == [q \in Runs |-> [o \in Ops |-> StartTimes(q, o)]]
             D == [q \in Runs |-> [o \in Ops |-> DeliveryTimes(q, o)]]
  <2>1. S[r][op] = StartTimes(r, op) /\ D[r][op] = DeliveryTimes(r, op)
    OBVIOUS
  <2>2. /\ S \in [Runs -> [Ops -> 0 .. 1]] /\ D \in [Runs -> [Ops -> 0 .. 1]]
        /\ op \in resolved[r] => S[r][op] = 1
        /\ D[r][op] = 1 => op \in resolved[r]
    BY Zenon DEF History!AtMostOnce
  <2> HIDE DEF S, D
  <2> QED
    BY <2>1, <2>2
<1> QED
  BY <1>1, ImplementsHistory, History!Promise, PTL DEF HistorySpec
==============================================================================
