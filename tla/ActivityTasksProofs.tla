------------------------- MODULE ActivityTasksProofs -------------------------
(***************************************************************************)
(* Proofs about ActivityTasks, for any activities, handlers, attempts and  *)
(* crashes.                                                                *)
(***************************************************************************)
EXTENDS ActivityTasks, TLAPS

(* The server's attempts: none beyond the current one was given out, nor   *)
(* the current one while it is scheduled, and a settled one is done.       *)
Attempts ==
    \A k \in Tokens :
        /\ k[2] > attempt[k[1]] => task[k] = "none"
        /\ k[2] = attempt[k[1]] /\ status[k[1]] = "scheduled" => task[k] = "none"
        /\ k[2] = attempt[k[1]] /\ status[k[1]] \in {"completed", "failed"} => task[k] = "done"

(* What a task that has not completed will report is its handler's ending. *)
Reports ==
    \A k \in Tokens :
        /\ task[k] = "none" => ended[k] = "none"
        /\ task[k] \in {"reported", "unmapped"} =>
            /\ exec[k] = Ok <=> ended[k] = "ok"
            /\ k[1] \in Handled => ended[k] \in Endings
            /\ exec[k].status \in {"completed", "failed"}

IndInv == TypeOK /\ MapIsExact /\ CancelIsolated /\ Attempts /\ Reports /\ OutcomeIsCurrent
------------------------------------------------------------------------------
(* A token is an activity and one of its attempts; no token is NoToken.    *)
LEMMA TokenFacts ==
    /\ \A k \in Tokens : /\ k[1] \in Activities /\ k[2] \in 1 .. MaxAttempts
                         /\ k = <<k[1], k[2]>>
    /\ \A a \in Activities, n \in 1 .. MaxAttempts : <<a, n>> \in Tokens
    /\ NoToken \notin Tokens
BY AttemptAssumption DEF Tokens, NoToken

LEMMA ResultFacts ==
    /\ Ok.status = "completed" /\ NoResult.status = "none"
    /\ Failure(TRUE).status = "failed" /\ Failure(FALSE).status = "failed"
    /\ Failure(TRUE) # Ok /\ Failure(FALSE) # Ok /\ NoResult # Ok
<1>1. /\ Ok.status = "completed" /\ NoResult.status = "none"
      /\ Failure(TRUE).status = "failed" /\ Failure(FALSE).status = "failed"
  BY DEF Failure, Ok, NoResult
<1>2. QED
  BY <1>1

LEMMA InitInv == Init => IndInv
<1> SUFFICES ASSUME Init PROVE IndInv
  OBVIOUS
<1> USE TokenFacts DEF Init
<1>1. TypeOK
  BY AttemptAssumption DEF TypeOK, TaskStates
<1>2. MapIsExact
  BY DEF MapIsExact
<1>3. CancelIsolated
  BY DEF CancelIsolated
<1>4. Attempts
  BY DEF Attempts
<1>5. Reports
  BY DEF Reports
<1>6. OutcomeIsCurrent
  BY DEF OutcomeIsCurrent
<1>7. QED
  BY <1>1, <1>2, <1>3, <1>4, <1>5, <1>6 DEF IndInv

LEMMA StartInv ==
    ASSUME IndInv, NEW a \in Activities, Start(a)
    PROVE  IndInv'
<1> USE DEF IndInv
<1>t. PICK k \in Tokens : k = <<a, attempt[a]>>
  BY TokenFacts DEF TypeOK
<1>0. /\ k[1] = a /\ k[2] = attempt[a]
      /\ status[a] = "scheduled" /\ task[k] = "none"
  BY <1>t DEF Start, TypeOK, Attempts
<1>1. /\ \/ cancels' = [cancels EXCEPT ![k] = k] /\ task' = [task EXCEPT ![k] = "running"]
            /\ exec' = exec
         \/ cancels' = cancels /\ task' = [task EXCEPT ![k] = "unmapped"]
            /\ exec' = [exec EXCEPT ![k] = Failure(TRUE)] /\ a \notin Handled
      /\ open' = open \cup {k} /\ polled' = polled \cup {k}
      /\ status' = [status EXCEPT ![a] = "started"]
      /\ UNCHANGED <<loop, cancelled, ended, cancelReq, attempt, runs>>
  BY <1>t DEF Start, KeyOf, Rejected
<1>2. TypeOK'
  <2>1. /\ cancels' \in [Tokens -> Tokens \cup {NoToken}]
        /\ \A x \in Tokens : cancels'[x] \in {x, NoToken}
    <3>1. /\ cancels \in [Tokens -> Tokens \cup {NoToken}]
          /\ \A x \in Tokens : cancels[x] \in {x, NoToken}
      BY DEF TypeOK
    <3>2. cancels' = cancels \/ cancels' = [cancels EXCEPT ![k] = k]
      BY <1>1
    <3>3. QED
      BY <3>1, <3>2
  <2>2. task' \in [Tokens -> TaskStates]
    BY <1>1 DEF TypeOK, TaskStates
  <2>3. exec' \in [Tokens -> {NoResult, Ok, Failure(TRUE), Failure(FALSE)}]
    BY <1>1 DEF TypeOK
  <2>4. /\ open' \subseteq Tokens /\ polled' \subseteq open'
        /\ status' \in [Activities ->
                {"scheduled", "started", "completed", "failed", "timed_out"}]
    BY <1>1 DEF TypeOK
  <2>5. QED
    BY <1>1, <2>1, <2>2, <2>3, <2>4 DEF TypeOK
<1>3. MapIsExact'
  <2>1. \A x \in Tokens \ {k} : cancels'[x] = cancels[x] /\ task'[x] = task[x]
    BY <1>1 DEF TypeOK
  <2>2. cancels[k] # k
    BY <1>0 DEF MapIsExact
  <2>3. cancels'[k] = k <=> task'[k] = "running"
    BY <1>1, <2>2 DEF TypeOK
  <2>4. task'[k] \in {"running", "unmapped"}
    BY <1>1 DEF TypeOK
  <2>5. QED
    BY <2>1, <2>3, <2>4 DEF MapIsExact
<1>4. CancelIsolated'
  BY <1>1 DEF CancelIsolated
<1>5. Attempts'
  <2>1. \A x \in Tokens \ {k} : task'[x] = task[x] /\ status'[x[1]] \in {status[x[1]], "started"}
    BY <1>1, TokenFacts DEF TypeOK
  <2>2. status'[k[1]] = "started"
    BY <1>0, <1>1 DEF TypeOK
  <2>3. \A x \in Tokens : x[2] \in Nat /\ attempt[x[1]] \in Nat
    BY TokenFacts, AttemptAssumption DEF TypeOK
  <2>4. QED
    BY <1>0, <1>1, <2>1, <2>2, <2>3 DEF Attempts
<1>6. Reports'
  <2>1. \A x \in Tokens \ {k} : task'[x] = task[x] /\ exec'[x] = exec[x]
    BY <1>1 DEF TypeOK
  <2>2. ended[k] = "none"
    BY <1>0 DEF Reports
  <2>3. CASE task'[k] = "running"
    BY <1>1, <2>1, <2>3 DEF Reports
  <2>4. CASE task'[k] = "unmapped" /\ exec'[k] = Failure(TRUE) /\ a \notin Handled
    <3>1. exec'[k].status = "failed" /\ exec'[k] # Ok /\ ended'[k] = "none" /\ k[1] \notin Handled
      BY <1>0, <1>1, <2>2, <2>4, ResultFacts
    <3>2. \A x \in Tokens \ {k} : task'[x] = task[x] /\ exec'[x] = exec[x] /\ ended'[x] = ended[x]
      BY <1>1, <2>1
    <3>3. QED
      BY <2>4, <3>1, <3>2 DEF Reports
  <2>5. DOMAIN task = Tokens /\ DOMAIN exec = Tokens
    BY DEF TypeOK
  <2>6. QED
    BY <1>1, <2>3, <2>4, <2>5
<1>7. OutcomeIsCurrent'
  BY <1>0, <1>1 DEF OutcomeIsCurrent, TypeOK
<1>8. QED
  BY <1>2, <1>3, <1>4, <1>5, <1>6, <1>7

LEMMA CancelInv ==
    ASSUME IndInv, NEW k \in Tokens, Cancel(k)
    PROVE  IndInv'
<1> USE DEF IndInv, Cancel, KeyOf
<1>1. cancels[k] \in {k, NoToken}
  BY DEF TypeOK
<1>2. TypeOK'
  BY <1>1 DEF TypeOK
<1>3. MapIsExact'
  BY DEF MapIsExact
<1>4. CancelIsolated'
  BY <1>1 DEF CancelIsolated
<1>5. Attempts'
  BY DEF Attempts
<1>6. Reports'
  BY DEF Reports
<1>7. OutcomeIsCurrent'
  BY DEF OutcomeIsCurrent
<1>8. QED
  BY <1>2, <1>3, <1>4, <1>5, <1>6, <1>7

LEMMA HandlerEndsInv ==
    ASSUME IndInv, NEW k \in Tokens, NEW e \in Endings, HandlerEnds(k, e)
    PROVE  IndInv'
<1> USE DEF IndInv
<1>0. /\ task[k] = "running" /\ ended' = [ended EXCEPT ![k] = e]
      /\ \/ e = "early_panic" /\ task' = [task EXCEPT ![k] = "dead"] /\ exec' = exec
         \/ /\ e # "early_panic" /\ task' = [task EXCEPT ![k] = "reported"]
            /\ exec' = [exec EXCEPT ![k] = ExecResult(e)]
      /\ UNCHANGED <<loop, cancels, cancelled, open, polled, cancelReq, attempt, status, runs>>
  BY DEF HandlerEnds, coreVars
<1>1. /\ ExecResult(e) \in {Ok, Failure(TRUE)}
      /\ ExecResult(e) = Ok <=> e = "ok"
      /\ ExecResult(e).status \in {"completed", "failed"}
  BY ResultFacts DEF ExecResult
<1>2. TypeOK'
  <2>1. task' \in [Tokens -> TaskStates]
    BY <1>0 DEF TypeOK, TaskStates
  <2>2. exec' \in [Tokens -> {NoResult, Ok, Failure(TRUE), Failure(FALSE)}]
    BY <1>0, <1>1 DEF TypeOK
  <2>3. ended' \in [Tokens -> Endings \cup {"none"}]
    BY <1>0 DEF TypeOK
  <2>4. QED
    BY <1>0, <2>1, <2>2, <2>3 DEF TypeOK
<1>3. MapIsExact'
  BY <1>0 DEF MapIsExact, TypeOK
<1>4. CancelIsolated'
  BY <1>0 DEF CancelIsolated
<1>5. Attempts'
  BY <1>0 DEF Attempts, TypeOK
<1>6. Reports'
  BY <1>0, <1>1 DEF Reports, TypeOK
<1>7. OutcomeIsCurrent'
  <2> SUFFICES ASSUME NEW a \in Activities, status[a] \in {"completed", "failed"}
               PROVE  ended'[<<a, attempt[a]>>] = ended[<<a, attempt[a]>>]
    BY <1>0 DEF OutcomeIsCurrent
  <2>1. task[<<a, attempt[a]>>] = "done"
    BY TokenFacts DEF Attempts, TypeOK
  <2>2. QED
    BY <2>1, <1>0, TokenFacts DEF TypeOK
<1>8. QED
  BY <1>2, <1>3, <1>4, <1>5, <1>6, <1>7

LEMMA RemoveTokenInv ==
    ASSUME IndInv, NEW k \in Tokens, RemoveToken(k)
    PROVE  IndInv'
<1> USE DEF IndInv, RemoveToken, Removed, KeyOf, coreVars
<1>1. TypeOK'
  BY DEF TypeOK, TaskStates
<1>2. MapIsExact'
  BY TokenFacts DEF MapIsExact, TypeOK
<1>3. CancelIsolated'
  BY DEF CancelIsolated
<1>4. Attempts'
  BY DEF Attempts, TypeOK
<1>5. Reports'
  BY DEF Reports, TypeOK
<1>6. OutcomeIsCurrent'
  BY DEF OutcomeIsCurrent
<1>7. QED
  BY <1>1, <1>2, <1>3, <1>4, <1>5, <1>6
(* A completed task's result is that of its handler: the server's verdict  *)
(* on the current attempt is the handler's ending.                         *)
LEMMA CompleteTaskInv ==
    ASSUME IndInv, NEW k \in Tokens, CompleteTask(k)
    PROVE  IndInv'
<1> USE DEF IndInv
<1>t. PICK a \in Activities, n \in 1 .. MaxAttempts : k = <<a, n>> /\ k[1] = a /\ k[2] = n
  BY TokenFacts
<1>0. /\ task[k] = "unmapped" /\ task' = [task EXCEPT ![k] = "done"]
      /\ exec' = [exec EXCEPT ![k] = NoResult]
      /\ open' = open \ {k} /\ polled' = polled \ {k}
      /\ cancelled' = cancelled \ {k} /\ cancelReq' = cancelReq \ {k}
      /\ UNCHANGED <<loop, cancels, runs>>
  BY DEF CompleteTask
<1>1. \/ /\ n = attempt[a] /\ status[a] = "started" /\ ended' = ended
         /\ \E s \in {"completed", "failed", "scheduled"} :
              /\ status' = [status EXCEPT ![a] = s]
              /\ s = "completed" => exec[k].status = "completed" /\ attempt' = attempt
              /\ s = "failed" => exec[k].status # "completed" /\ attempt' = attempt
              /\ s = "scheduled" => /\ attempt[a] < MaxAttempts
                                    /\ attempt' = [attempt EXCEPT ![a] = @ + 1]
      \/ /\ ended' = [ended EXCEPT ![k] = "none"]
         /\ status' = status /\ attempt' = attempt
  BY <1>t DEF CompleteTask, Current, NextStatus
<1>2. /\ attempt \in [Activities -> 1 .. MaxAttempts]
      /\ status \in [Activities -> {"scheduled", "started", "completed", "failed", "timed_out"}]
      /\ DOMAIN task = Tokens /\ ended \in [Tokens -> Endings \cup {"none"}]
  BY DEF TypeOK
<1>3. /\ attempt' \in [Activities -> 1 .. MaxAttempts]
      /\ status' \in [Activities -> {"scheduled", "started", "completed", "failed", "timed_out"}]
      /\ ended' \in [Tokens -> Endings \cup {"none"}]
  BY <1>1, <1>2, AttemptAssumption
<1>4. /\ \A x \in Tokens \ {k} : task'[x] = task[x] /\ ended'[x] = ended[x]
      /\ \A b \in Activities \ {a} : attempt'[b] = attempt[b] /\ status'[b] = status[b]
      /\ task'[k] = "done"
  BY <1>0, <1>1, <1>2
<1>5. TypeOK'
  <2>1. task' \in [Tokens -> TaskStates]
    BY <1>0 DEF TypeOK, TaskStates
  <2>2. exec' \in [Tokens -> {NoResult, Ok, Failure(TRUE), Failure(FALSE)}]
    BY <1>0 DEF TypeOK
  <2>3. QED
    BY <1>0, <1>3, <2>1, <2>2 DEF TypeOK
<1>6. MapIsExact'
  BY <1>0, <1>4 DEF MapIsExact
<1>7. CancelIsolated'
  BY <1>0 DEF CancelIsolated
<1>8. Attempts'
  <2> SUFFICES ASSUME NEW x \in Tokens
               PROVE  /\ x[2] > attempt'[x[1]] => task'[x] = "none"
                      /\ x[2] = attempt'[x[1]] /\ status'[x[1]] = "scheduled" => task'[x] = "none"
                      /\ x[2] = attempt'[x[1]] /\ status'[x[1]] \in {"completed", "failed"}
                            => task'[x] = "done"
    BY DEF Attempts
  <2>1. x[1] \in Activities /\ x[2] \in Nat /\ attempt[x[1]] \in Nat
    BY <1>2, TokenFacts, AttemptAssumption
  <2>2. /\ x[2] > attempt[x[1]] => task[x] = "none"
        /\ x[2] = attempt[x[1]] /\ status[x[1]] = "scheduled" => task[x] = "none"
        /\ x[2] = attempt[x[1]] /\ status[x[1]] \in {"completed", "failed"} => task[x] = "done"
    BY DEF Attempts
  <2>3. CASE x[1] # a
    BY <1>4, <1>t, <2>1, <2>2, <2>3
  <2>4. CASE x[1] = a /\ x # k
    <3>1. x[2] # n
      BY <2>4, <1>t, TokenFacts
    <3>2. \/ attempt'[a] = attempt[a] /\ (n = attempt[a] \/ status'[a] = status[a])
          \/ attempt'[a] = attempt[a] + 1 /\ status'[a] = "scheduled"
      BY <1>1, <1>2
    <3>3. QED
      BY <1>4, <2>1, <2>2, <2>4, <3>1, <3>2
  <2>5. CASE x = k
    <3>1. n <= attempt[a] /\ ~ (n = attempt[a] /\ status[a] = "scheduled")
      BY <1>0, <1>2, <1>t, <2>1, <2>2, <2>5
    <3>2. \/ attempt'[a] = attempt[a] + 1
          \/ attempt'[a] = attempt[a] /\ status'[a] \in {"completed", "failed", status[a]}
      BY <1>1, <1>2
    <3>3. attempt'[a] = attempt[a] /\ n = attempt[a] => status'[a] # "scheduled"
      BY <3>1, <1>1, <1>2
    <3>4. QED
      BY <1>4, <1>t, <2>1, <2>5, <3>1, <3>2, <3>3
  <2>6. QED
    BY <2>3, <2>4, <2>5
<1>9. Reports'
  <2>1. \A x \in Tokens \ {k} : exec'[x] = exec[x]
    BY <1>0 DEF TypeOK
  <2>2. QED
    BY <1>4, <2>1 DEF Reports
<1>10. OutcomeIsCurrent'
  <2> SUFFICES ASSUME NEW b \in Activities
               PROVE  /\ status'[b] = "completed" => ended'[<<b, attempt'[b]>>] = "ok"
                      /\ status'[b] = "failed" /\ b \in Handled
                            => ended'[<<b, attempt'[b]>>] \in Endings \ {"ok"}
    BY DEF OutcomeIsCurrent
  <2>1. /\ status[b] = "completed" => ended[<<b, attempt[b]>>] = "ok"
        /\ status[b] = "failed" /\ b \in Handled => ended[<<b, attempt[b]>>] \in Endings \ {"ok"}
    BY DEF OutcomeIsCurrent
  <2>2. <<b, attempt[b]>> \in Tokens
    BY <1>2, TokenFacts
  <2>3. CASE status'[b] = status[b] /\ attempt'[b] = attempt[b]
    <3>1. status[b] \in {"completed", "failed"} => <<b, attempt[b]>> # k
      <4>1. status[b] \in {"completed", "failed"} => task[<<b, attempt[b]>>] = "done"
        BY <2>2 DEF Attempts
      <4>2. QED
        BY <4>1, <1>0
    <3>2. status[b] \in {"completed", "failed"} =>
              ended'[<<b, attempt[b]>>] = ended[<<b, attempt[b]>>]
      BY <3>1, <2>2, <1>4
    <3>3. QED
      BY <2>1, <2>3, <3>2
  <2>4. CASE b = a /\ n = attempt[a] /\ status[a] = "started" /\ ended' = ended
    <3>1. /\ exec[k] = Ok <=> ended[k] = "ok"
          /\ a \in Handled => ended[k] \in Endings
          /\ exec[k].status = "completed" <=> exec[k] = Ok
      BY <1>0, <1>t, ResultFacts DEF Reports, TypeOK
    <3>2. /\ status'[a] = "completed" => exec[k].status = "completed" /\ attempt'[a] = n
          /\ status'[a] = "failed" => exec[k].status # "completed" /\ attempt'[a] = n
      BY <1>1, <1>2, <2>4
    <3>3. QED
      BY <2>4, <3>1, <3>2, <1>t
  <2>5. QED
    BY <1>1, <1>4, <2>3, <2>4
<1>11. QED
  BY <1>5, <1>6, <1>7, <1>8, <1>9, <1>10
LEMMA TimeOutInv ==
    ASSUME IndInv, NEW a \in Activities, TimeOut(a)
    PROVE  IndInv'
<1> USE DEF IndInv
<1>0. UNCHANGED <<loop, cancels, cancelled, task, ended, exec, open, polled, cancelReq, runs>>
  BY DEF TimeOut, workerVars
<1>1. /\ attempt \in [Activities -> 1 .. MaxAttempts]
      /\ status \in [Activities -> {"scheduled", "started", "completed", "failed", "timed_out"}]
  BY DEF TypeOK
<1>2. /\ status[a] = "started"
      /\ \/ /\ attempt[a] < MaxAttempts /\ attempt' = [attempt EXCEPT ![a] = @ + 1]
            /\ status' = [status EXCEPT ![a] = "scheduled"]
         \/ attempt' = attempt /\ status' = [status EXCEPT ![a] = "timed_out"]
  BY DEF TimeOut
<1>3. TypeOK'
  <2>1. /\ attempt' \in [Activities -> 1 .. MaxAttempts]
        /\ status' \in [Activities -> {"scheduled", "started", "completed", "failed", "timed_out"}]
    BY <1>1, <1>2, AttemptAssumption
  <2>2. QED
    BY <1>0, <2>1 DEF TypeOK
<1>4. MapIsExact'
  BY <1>0 DEF MapIsExact
<1>5. CancelIsolated'
  BY <1>0 DEF CancelIsolated
<1>6. \A b \in Activities : \/ attempt'[b] = attempt[b] /\ status'[b] \in {status[b], "timed_out"}
                            \/ attempt'[b] = attempt[b] + 1 /\ status'[b] = "scheduled"
  BY <1>1, <1>2
<1>7. Attempts'
  <2>1. \A x \in Tokens : x[1] \in Activities /\ x[2] \in Nat /\ attempt[x[1]] \in Nat
    BY <1>1, TokenFacts, AttemptAssumption
  <2>2. QED
    BY <1>0, <1>6, <2>1 DEF Attempts
<1>8. Reports'
  BY <1>0 DEF Reports
<1>9. OutcomeIsCurrent'
  BY <1>0, <1>6 DEF OutcomeIsCurrent
<1>10. QED
  BY <1>3, <1>4, <1>5, <1>7, <1>8, <1>9

(* The loop stops or is started again, or nothing happens.                 *)
LEMMA LoopInv ==
    ASSUME IndInv, RunEnds \/ Run \/ UNCHANGED vars
    PROVE  IndInv'
<1>1. /\ UNCHANGED <<cancels, cancelled, task, ended, exec>>
      /\ UNCHANGED <<open, cancelReq, attempt, status>>
      /\ polled' = polled \/ polled' = {}
  BY DEF RunEnds, Run, vars, workerVars, coreVars
<1>2. TypeOK'
  <2>1. runs' \in 0 .. MaxRuns
    <3>1. CASE Run
      BY <3>1, AttemptAssumption DEF Run, IndInv, TypeOK
    <3>2. CASE runs' = runs
      BY <3>2 DEF IndInv, TypeOK
    <3>3. QED
      BY <3>1, <3>2 DEF RunEnds, vars
  <2>2. loop' \in {"polling", "stopped"}
    BY DEF RunEnds, Run, vars, workerVars, IndInv, TypeOK
  <2>3. polled' \subseteq open'
    BY <1>1 DEF IndInv, TypeOK
  <2>4. QED
    BY <1>1, <2>1, <2>2, <2>3 DEF IndInv, TypeOK
<1>3. QED
  BY <1>1, <1>2 DEF IndInv, MapIsExact, CancelIsolated, Attempts, Reports, OutcomeIsCurrent

LEMMA CrashInv ==
    ASSUME IndInv, Crash
    PROVE  IndInv'
<1> USE DEF IndInv, Crash
<1>1. TypeOK'
  <2>1. task' \in [Tokens -> TaskStates]
    BY DEF TaskStates
  <2>2. runs' \in 0 .. MaxRuns
    BY AttemptAssumption DEF TypeOK
  <2>3. QED
    BY <2>1, <2>2 DEF TypeOK
<1>2. MapIsExact'
  BY TokenFacts DEF MapIsExact
<1>3. CancelIsolated'
  BY DEF CancelIsolated
<1>4. Attempts'
  BY DEF Attempts
<1>5. Reports'
  BY DEF Reports
<1>6. OutcomeIsCurrent'
  BY DEF OutcomeIsCurrent
<1>7. QED
  BY <1>1, <1>2, <1>3, <1>4, <1>5, <1>6
------------------------------------------------------------------------------
(* The type invariant, the exact map, the isolation of cancels and the     *)
(* outcomes are inductive together with what the server and the spawned    *)
(* tasks agree on.                                                         *)
THEOREM Inductive == Spec => []IndInv
<1>1. IndInv /\ [Next]_vars => IndInv'
  <2> SUFFICES ASSUME IndInv, [Next]_vars PROVE IndInv'
    OBVIOUS
  <2>1. CASE \E a \in Activities : Start(a) \/ TimeOut(a)
    BY <2>1, StartInv, TimeOutInv
  <2>2. CASE \E k \in Tokens : Cancel(k) \/ TaskStep(k)
    BY <2>2, CancelInv, HandlerEndsInv, RemoveTokenInv, CompleteTaskInv DEF TaskStep
  <2>3. CASE Crash
    BY <2>3, CrashInv
  <2>4. CASE RunEnds \/ Run \/ UNCHANGED vars
    BY <2>4, LoopInv
  <2>5. QED
    BY <2>1, <2>2, <2>3, <2>4 DEF Next
<1>2. QED
  BY InitInv, <1>1, PTL DEF Spec

(* Every variable keeps its type, and a key of the map its own token.      *)
THEOREM TypeCorrect == Spec => []TypeOK
<1>1. IndInv => TypeOK
  BY DEF IndInv
<1>2. QED
  BY Inductive, <1>1, PTL

(* task_tokens_to_cancels holds exactly the tokens of the handlers that    *)
(* run or have not yet taken theirs out (handle_activity_task).            *)
THEOREM MapExact == Spec => []MapIsExact
<1>1. IndInv => MapIsExact
  BY DEF IndInv
<1>2. QED
  BY Inductive, <1>1, PTL

(* No handler is told to stop but those whose own attempt Core cancelled.  *)
THEOREM CancelsIsolated == Spec => []CancelIsolated
<1>1. IndInv => CancelIsolated
  BY DEF IndInv
<1>2. QED
  BY Inductive, <1>1, PTL

(* What the server records of an activity is the ending of the handler of  *)
(* its current attempt, although late reports of older attempts come in.   *)
THEOREM OutcomesCurrent == Spec => []OutcomeIsCurrent
<1>1. IndInv => OutcomeIsCurrent
  BY DEF IndInv
<1>2. QED
  BY Inductive, <1>1, PTL
==============================================================================
