---------------------------- MODULE DurableHistory ----------------------------
(***************************************************************************)
(* What a worker promises of the workflow runs it serves, whatever happens *)
(* to it on the way: an operation is started at most once, its resolution  *)
(* reaches the workflow at most once and not before it was resolved, both  *)
(* in whole workflow tasks, and nothing happens to a run that has ended.   *)
(* Crashes, evictions, replays and tasks given out twice are not here: the *)
(* implementation hides them.                                              *)
(***************************************************************************)
EXTENDS Naturals, TLAPS

CONSTANTS Runs, Ops

VARIABLES
    begun,      \* runs that have had their first workflow task
    starts,     \* starts[r][op]: how often the workflow has started op
    resolved,   \* resolved[r]: operations the server has resolved
    deliveries, \* deliveries[r][op]: how often op's resolution was delivered
    closed      \* runs that have ended

vars == <<begun, starts, resolved, deliveries, closed>>

Never == [r \in Runs |-> [op \in Ops |-> 0]]

Init ==
    /\ begun = {} /\ closed = {}
    /\ starts = Never /\ deliveries = Never
    /\ resolved = [r \in Runs |-> {}]

Resolve(r, op) ==
    /\ r \notin closed
    /\ starts[r][op] > 0 /\ op \notin resolved[r]
    /\ resolved' = [resolved EXCEPT ![r] = @ \cup {op}]
    /\ UNCHANGED <<begun, starts, deliveries, closed>>

(* A workflow task: the first of the run, or one that has news for it.  It *)
(* starts operations or ends the run.                                      *)
Unstarted(r) == {op \in Ops : starts[r][op] = 0}
News(r)      == {op \in resolved[r] : deliveries[r][op] = 0}

Count(times, S) == [op \in Ops |-> IF op \in S THEN times[op] + 1 ELSE times[op]]

Task(r) ==
    /\ r \notin closed
    /\ begun' = begun \cup {r}
    /\ \E jobs \in SUBSET News(r) :
          /\ r \in begun => jobs # {}
          /\ deliveries' = [deliveries EXCEPT ![r] = Count(@, jobs)]
    /\ \/ /\ \E cmds \in SUBSET Unstarted(r) :
                starts' = [starts EXCEPT ![r] = Count(@, cmds)]
          /\ UNCHANGED closed
       \/ closed' = closed \cup {r} /\ UNCHANGED starts
    /\ UNCHANGED resolved

Next == \E r \in Runs : Task(r) \/ \E op \in Ops : Resolve(r, op)

Spec == Init /\ [][Next]_vars
------------------------------------------------------------------------------
(* What a reader takes from it: an operation is started and delivered at   *)
(* most once, resolved only if started, delivered only if resolved.        *)
AtMostOnce ==
    /\ starts \in [Runs -> [Ops -> 0 .. 1]] /\ deliveries \in [Runs -> [Ops -> 0 .. 1]]
    /\ resolved \in [Runs -> SUBSET Ops]
    /\ \A r \in Runs, op \in Ops : /\ op \in resolved[r] => starts[r][op] = 1
                                   /\ deliveries[r][op] = 1 => op \in resolved[r]

(* A workflow task counts operations that were not counted before.         *)
LEMMA CountOnce ==
    ASSUME NEW times \in [Ops -> 0 .. 1], NEW S, \A op \in S \cap Ops : times[op] = 0
    PROVE  /\ Count(times, S) \in [Ops -> 0 .. 1]
           /\ \A op \in Ops : Count(times, S)[op] = 1 <=> times[op] = 1 \/ op \in S
<1>1. \A op \in Ops : Count(times, S)[op] = IF op \in S THEN times[op] + 1 ELSE times[op]
  BY DEF Count
<1>2. ASSUME NEW op \in Ops
      PROVE  /\ Count(times, S)[op] \in 0 .. 1
             /\ Count(times, S)[op] = 1 <=> times[op] = 1 \/ op \in S
  <2>1. times[op] \in 0 .. 1 /\ (op \in S => times[op] = 0)
    OBVIOUS
  <2> QED
    BY <1>1, <2>1
<1>3. Count(times, S) = [op \in Ops |-> Count(times, S)[op]]
  BY DEF Count
<1> QED
  BY <1>2, <1>3

(* Each step keeps the counts at one and their order.                      *)
LEMMA OnceStep == AtMostOnce /\ [Next]_vars => AtMostOnce'
<1> SUFFICES ASSUME AtMostOnce, [Next]_vars PROVE AtMostOnce'
  OBVIOUS
<1>1. ASSUME NEW r \in Runs, NEW op \in Ops, Resolve(r, op) PROVE AtMostOnce'
  <2>1. /\ starts[r][op] = 1 /\ resolved' = [resolved EXCEPT ![r] = @ \cup {op}]
        /\ UNCHANGED <<starts, deliveries>>
    BY <1>1 DEF Resolve, AtMostOnce
  <2> QED
    BY <2>1 DEF AtMostOnce
<1>2. ASSUME NEW r \in Runs, Task(r) PROVE AtMostOnce'
  <2>1. PICK jobs \in SUBSET News(r) : deliveries' = [deliveries EXCEPT ![r] = Count(@, jobs)]
    BY <1>2, Zenon DEF Task
  <2>2. /\ deliveries' \in [Runs -> [Ops -> 0 .. 1]]
        /\ \A q \in Runs, op \in Ops :
              deliveries'[q][op] = 1 => deliveries[q][op] = 1 \/ (q = r /\ op \in resolved[r])
    <3>1. deliveries[r] \in [Ops -> 0 .. 1] /\ \A op \in jobs : deliveries[r][op] = 0 /\ op \in resolved[r]
      BY DEF AtMostOnce, News
    <3>2. /\ Count(deliveries[r], jobs) \in [Ops -> 0 .. 1]
          /\ \A op \in Ops : Count(deliveries[r], jobs)[op] = 1 <=> deliveries[r][op] = 1 \/ op \in jobs
      BY <3>1, CountOnce
    <3>3. deliveries' \in [Runs -> [Ops -> 0 .. 1]]
      BY <2>1, <3>2 DEF AtMostOnce
    <3>4. deliveries'[r] = Count(deliveries[r], jobs) /\ \A q \in Runs : q # r => deliveries'[q] = deliveries[q]
      BY <2>1 DEF AtMostOnce
    <3>5. ASSUME NEW q \in Runs, NEW op \in Ops, deliveries'[q][op] = 1
          PROVE  deliveries[q][op] = 1 \/ (q = r /\ op \in resolved[r])
      <4>1. CASE q = r
        BY <3>1, <3>2, <3>4, <3>5, <4>1
      <4>2. CASE q # r
        BY <3>4, <3>5, <4>2
      <4> QED
        BY <4>1, <4>2
    <3> QED
      BY <3>3, <3>5
  <2>3. /\ starts' \in [Runs -> [Ops -> 0 .. 1]]
        /\ \A q \in Runs, op \in Ops : starts[q][op] = 1 => starts'[q][op] = 1
    <3>1. CASE starts' = starts
      BY <3>1 DEF AtMostOnce
    <3>2. ASSUME NEW cmds \in SUBSET Unstarted(r), starts' = [starts EXCEPT ![r] = Count(@, cmds)]
          PROVE  /\ starts' \in [Runs -> [Ops -> 0 .. 1]]
                 /\ \A q \in Runs, op \in Ops : starts[q][op] = 1 => starts'[q][op] = 1
      <4>1. starts[r] \in [Ops -> 0 .. 1] /\ \A op \in cmds : starts[r][op] = 0
        BY DEF AtMostOnce, Unstarted
      <4>2. /\ Count(starts[r], cmds) \in [Ops -> 0 .. 1]
            /\ \A op \in Ops : Count(starts[r], cmds)[op] = 1 <=> starts[r][op] = 1 \/ op \in cmds
        BY <4>1, CountOnce
      <4> QED
        BY <3>2, <4>1, <4>2 DEF AtMostOnce
    <3> QED
      BY <1>2, <3>1, <3>2, Zenon DEF Task
  <2>4. resolved' = resolved
    BY <1>2 DEF Task
  <2> QED
    BY <2>2, <2>3, <2>4 DEF AtMostOnce
<1>3. CASE UNCHANGED vars
  BY <1>3 DEF vars, AtMostOnce
<1> QED
  BY <1>1, <1>2, <1>3, Zenon DEF Next

(* Whoever implements this starts and delivers an operation at most once,  *)
(* in that order.                                                          *)
THEOREM Promise == Spec => []AtMostOnce
<1>1. Init => AtMostOnce
  BY DEF Init, Never, AtMostOnce
<1> QED
  BY <1>1, OnceStep, PTL DEF Spec
==============================================================================
