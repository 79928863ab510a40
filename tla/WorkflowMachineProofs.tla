------------------------ MODULE WorkflowMachineProofs ------------------------
(***************************************************************************)
(* Proofs about WorkflowMachine for every number of operations, every      *)
(* budget and every set of activity outcomes.                              *)
(***************************************************************************)
EXTENDS WorkflowMachine, TLAPS

AllStarts   == {Start(op) : op \in Ops}
ChanEntries == AllStarts \cup {Subscribe}
------------------------------------------------------------------------------
(* An operation is a kind and a sequence number below that kind's bound.   *)
LEMMA OpsFacts ==
    /\ \A op \in Ops : /\ op[1] \in Kinds /\ op[2] \in Nat /\ op = <<op[1], op[2]>>
                       /\ op[2] < MaxSeq[op[1]]
    /\ \A k \in Kinds, n \in Nat : n < MaxSeq[k] => <<k, n>> \in Ops
BY MaxSeqAssumption DEF Ops, Kinds

(* Counting one more operation of a kind stays within its bound.           *)
LEMMA BumpFacts ==
    ASSUME NEW f \in [Kinds -> Nat], NEW k \in Kinds, f[k] < MaxSeq[k],
           \A j \in Kinds : f[j] <= MaxSeq[j]
    PROVE  LET g == [f EXCEPT ![k] = @ + 1] IN
              /\ g \in [Kinds -> Nat]
              /\ \A j \in Kinds : f[j] <= g[j] /\ g[j] <= MaxSeq[j]
<1> DEFINE g == [f EXCEPT ![k] = @ + 1]
<1>1. g \in [Kinds -> Nat]
  OBVIOUS
<1>2. ASSUME NEW j \in Kinds
      PROVE  f[j] <= g[j] /\ g[j] <= MaxSeq[j]
  <2>1. f[j] \in Nat /\ MaxSeq[j] \in Nat /\ f[j] <= MaxSeq[j]
    BY MaxSeqAssumption
  <2>2. CASE j = k
    <3>1. g[j] = f[j] + 1 /\ f[j] < MaxSeq[j]
      BY <2>2
    <3>2. QED
      BY <2>1, <3>1
  <2>3. CASE j # k
    <3>1. g[j] = f[j]
      BY <2>3
    <3>2. QED
      BY <2>1, <3>1
  <2>4. QED
    BY <2>2, <2>3
<1>3. QED
  BY <1>1, <1>2

(* The start command of an operation tells which operation it is, and is   *)
(* neither a subscription nor a terminal command.                          *)
LEMMA StartFacts ==
    /\ \A o, p : Start(o) = Start(p) => o = p
    /\ \A o : Start(o) # Subscribe
    /\ \A o, r : Start(o) # Terminal(r)
    /\ \A o : Start(o).variant = "start" /\ Start(o).op = o
    /\ \A r : Terminal(r).variant = "terminal"
<1>1. \A o : Start(o).variant = "start" /\ Start(o).op = o
  BY DEF Start
<1>2. Subscribe.variant = "subscribe"
  BY DEF Subscribe
<1>3. \A r : Terminal(r).variant = "terminal"
  BY DEF Terminal
<1>4. \A o, p : Start(o) = Start(p) => o = p
  <2>1. SUFFICES ASSUME NEW o, NEW p, Start(o) = Start(p) PROVE o = p
    OBVIOUS
  <2>2. Start(o).op = Start(p).op
    BY <2>1
  <2>3. QED
    BY <1>1, <2>2
<1>5. QED
  BY <1>1, <1>2, <1>3, <1>4

(* Sending a start adds that operation to those a sequence starts.         *)
LEMMA StartedByAppendStart ==
    ASSUME NEW S, NEW s \in Seq(S), NEW op \in Ops
    PROVE  StartedBy(Append(s, Start(op))) = StartedBy(s) \cup {op}
<1> DEFINE t == Append(s, Start(op))
<1>1. /\ DOMAIN t = 1 .. Len(s) + 1 /\ DOMAIN s = 1 .. Len(s) /\ Len(s) \in Nat
      /\ \A i \in DOMAIN s : t[i] = s[i]
      /\ t[Len(s) + 1] = Start(op)
  OBVIOUS
<1> HIDE DEF t
<1>2. ASSUME NEW o \in Ops
      PROVE  (\E i \in DOMAIN t : t[i] = Start(o))
                <=> (\E i \in DOMAIN s : s[i] = Start(o)) \/ o = op
  <2>1. ASSUME NEW i \in DOMAIN t, t[i] = Start(o)
        PROVE  (\E j \in DOMAIN s : s[j] = Start(o)) \/ o = op
    <3>1. CASE i \in DOMAIN s
      BY <1>1, <2>1, <3>1
    <3>2. CASE i = Len(s) + 1
      BY <1>1, <2>1, <3>2, StartFacts
    <3>3. QED
      BY <1>1, <3>1, <3>2
  <2>2. ASSUME NEW i \in DOMAIN s, s[i] = Start(o)
        PROVE  \E j \in DOMAIN t : t[j] = Start(o)
    BY <1>1, <2>2
  <2>3. o = op => \E j \in DOMAIN t : t[j] = Start(o)
    BY <1>1
  <2>4. QED
    BY <2>1, <2>2, <2>3
<1>3. QED
  BY <1>2 DEF StartedBy, t

(* Appending anything else adds nothing.                                   *)
LEMMA StartedByAppendOther ==
    ASSUME NEW S, NEW s \in Seq(S), NEW c, \A op \in Ops : c # Start(op)
    PROVE  StartedBy(Append(s, c)) = StartedBy(s)
<1> DEFINE t == Append(s, c)
<1>1. /\ DOMAIN t = 1 .. Len(s) + 1 /\ DOMAIN s = 1 .. Len(s) /\ Len(s) \in Nat
      /\ \A i \in DOMAIN s : t[i] = s[i]
      /\ t[Len(s) + 1] = c
  OBVIOUS
<1> HIDE DEF t
<1>2. ASSUME NEW o \in Ops
      PROVE  (\E i \in DOMAIN t : t[i] = Start(o)) <=> (\E i \in DOMAIN s : s[i] = Start(o))
  BY <1>1
<1>3. QED
  BY <1>2 DEF StartedBy, t

(* Receiving from the front takes away at most the operation at the front. *)
LEMMA StartedByTail ==
    ASSUME NEW S, NEW s \in Seq(S), s # <<>>
    PROVE  /\ StartedBy(Tail(s)) \subseteq StartedBy(s)
           /\ \A op \in StartedBy(s) : Head(s) = Start(op) \/ op \in StartedBy(Tail(s))
           /\ \A op \in Ops : Head(s) = Start(op) => op \in StartedBy(s)
<1> DEFINE t == Tail(s)
<1>1. /\ DOMAIN t = 1 .. Len(s) - 1 /\ DOMAIN s = 1 .. Len(s) /\ Len(s) \in Nat /\ Len(s) > 0
      /\ \A i \in DOMAIN t : t[i] = s[i + 1]
      /\ Head(s) = s[1]
  OBVIOUS
<1> HIDE DEF t
<1>2. ASSUME NEW o \in Ops, NEW i \in DOMAIN t, t[i] = Start(o)
      PROVE  \E j \in DOMAIN s : s[j] = Start(o)
  <2>1. i + 1 \in DOMAIN s /\ s[i + 1] = Start(o)
    BY <1>1, <1>2
  <2>2. QED
    BY <2>1
<1>3. ASSUME NEW o \in Ops, NEW j \in DOMAIN s, s[j] = Start(o), Head(s) # Start(o)
      PROVE  \E i \in DOMAIN t : t[i] = Start(o)
  <2>1. j - 1 \in DOMAIN t /\ t[j - 1] = s[j]
    BY <1>1, <1>3
  <2>2. QED
    BY <1>3, <2>1
<1>4. \A op \in Ops : Head(s) = Start(op) => \E j \in DOMAIN s : s[j] = Start(op)
  BY <1>1
<1>5. QED
  BY <1>2, <1>3, <1>4 DEF StartedBy, t

LEMMA StartedByEmpty == StartedBy(<<>>) = {}
BY DEF StartedBy

(* Appending a start keeps a sequence ascending if it is later than those  *)
(* of its kind in the sequence; the tail of an ascending sequence ascends, *)
(* and what its head starts precedes the tail.                             *)
LEMMA AscendingAppendStart ==
    ASSUME NEW S, NEW s \in Seq(S), NEW op \in Ops, Ascending(s),
           \A o \in StartedBy(s) : o[1] = op[1] => o[2] < op[2]
    PROVE  Ascending(Append(s, Start(op)))
<1> DEFINE t == Append(s, Start(op))
<1>1. /\ DOMAIN t = 1 .. Len(s) + 1 /\ DOMAIN s = 1 .. Len(s) /\ Len(s) \in Nat
      /\ \A i \in DOMAIN s : t[i] = s[i]
      /\ t[Len(s) + 1] = Start(op)
  OBVIOUS
<1> HIDE DEF t
<1>2. ASSUME NEW i \in DOMAIN t, NEW j \in DOMAIN t, NEW o \in Ops, NEW p \in Ops,
             i < j, t[i] = Start(o), t[j] = Start(p), o[1] = p[1]
      PROVE  o[2] < p[2]
  <2>1. i \in DOMAIN s /\ s[i] = Start(o)
    BY <1>1, <1>2
  <2>2. CASE j \in DOMAIN s
    BY <1>1, <1>2, <2>1, <2>2 DEF Ascending
  <2>3. CASE j = Len(s) + 1
    <3>1. p = op
      BY <1>1, <1>2, <2>3, StartFacts
    <3>2. o \in StartedBy(s)
      BY <2>1 DEF StartedBy
    <3>3. QED
      BY <1>2, <3>1, <3>2
  <2>4. QED
    BY <1>1, <2>2, <2>3
<1>3. QED
  BY <1>2 DEF Ascending, t

LEMMA AscendingAppendOther ==
    ASSUME NEW S, NEW s \in Seq(S), NEW c, \A op \in Ops : c # Start(op), Ascending(s)
    PROVE  Ascending(Append(s, c))
<1> DEFINE t == Append(s, c)
<1>1. /\ DOMAIN t = 1 .. Len(s) + 1 /\ DOMAIN s = 1 .. Len(s) /\ Len(s) \in Nat
      /\ \A i \in DOMAIN s : t[i] = s[i]
      /\ t[Len(s) + 1] = c
  OBVIOUS
<1> HIDE DEF t
<1>2. ASSUME NEW i \in DOMAIN t, NEW o \in Ops, t[i] = Start(o)
      PROVE  i \in DOMAIN s /\ s[i] = Start(o)
  BY <1>1, <1>2
<1>3. QED
  BY <1>2 DEF Ascending, t

LEMMA AscendingTail ==
    ASSUME NEW S, NEW s \in Seq(S), s # <<>>, Ascending(s)
    PROVE  /\ Ascending(Tail(s))
           /\ \A o \in Ops, p \in StartedBy(Tail(s)) :
                 Head(s) = Start(o) /\ o[1] = p[1] => o[2] < p[2]
<1> DEFINE t == Tail(s)
<1>1. /\ DOMAIN t = 1 .. Len(s) - 1 /\ DOMAIN s = 1 .. Len(s) /\ Len(s) \in Nat /\ Len(s) > 0
      /\ \A i \in DOMAIN t : i + 1 \in DOMAIN s /\ t[i] = s[i + 1]
      /\ Head(s) = s[1] /\ 1 \in DOMAIN s
  OBVIOUS
<1> HIDE DEF t
<1>2. Ascending(t)
  <2>1. ASSUME NEW i \in DOMAIN t, NEW j \in DOMAIN t, NEW o \in Ops, NEW p \in Ops,
               i < j, t[i] = Start(o), t[j] = Start(p), o[1] = p[1]
        PROVE  o[2] < p[2]
    <3>1. /\ i + 1 \in DOMAIN s /\ j + 1 \in DOMAIN s /\ i + 1 < j + 1
          /\ s[i + 1] = Start(o) /\ s[j + 1] = Start(p)
      BY <1>1, <2>1
    <3>2. QED
      BY <2>1, <3>1 DEF Ascending
  <2>2. QED
    BY <2>1 DEF Ascending
<1>3. ASSUME NEW o \in Ops, NEW p \in StartedBy(t), Head(s) = Start(o), o[1] = p[1]
      PROVE  o[2] < p[2]
  <2>1. PICK j \in DOMAIN t : t[j] = Start(p)
    BY DEF StartedBy
  <2>2. /\ 1 \in DOMAIN s /\ j + 1 \in DOMAIN s /\ 1 < j + 1
        /\ s[1] = Start(o) /\ s[j + 1] = Start(p) /\ p \in Ops
    BY <1>1, <1>3, <2>1 DEF StartedBy
  <2>3. QED
    BY <1>3, <2>2 DEF Ascending
<1>4. QED
  BY <1>2, <1>3 DEF t
------------------------------------------------------------------------------
LEMMA InitInv == Init => IndInv
<1> SUFFICES ASSUME Init PROVE IndInv
  OBVIOUS
<1> USE DEF Init
<1>1. TypeOK
  <2>1. nextSeq \in [Kinds -> Nat] /\ \A k \in Kinds : nextSeq[k] <= MaxSeq[k]
    BY MaxSeqAssumption
  <2>2. budget \in 0 .. CoopBudget
    BY CoopBudgetAssumption
  <2>3. /\ cmdChan \in Seq({Start(op) : op \in Ops} \cup {Subscribe})
        /\ outgoing \in Seq({Start(op) : op \in Ops}) /\ reply \in Seq(Commands)
    OBVIOUS
  <2>4. QED
    BY <2>1, <2>2, <2>3 DEF TypeOK
<1>2. Control
  BY DEF Control
<1>3. Lifecycle
  BY StartedByEmpty, OutcomesAssumption DEF Lifecycle, Outcomes
<1>4. Order
  BY StartedByEmpty DEF Order, Ascending, Precedes
<1>5. ParkedUnready
  BY DEF ParkedUnready
<1>6. QED
  BY <1>1, <1>2, <1>3, <1>4, <1>5 DEF IndInv

(* The outcomes are none of the other contents of a slot.                  *)
LEMMA OutcomeFacts ==
    /\ \A op \in Ops : OutcomesOf(op[1]) \subseteq Outcomes
    /\ \A v \in Outcomes : v \notin {"none", "dropped", "unborn", "empty", "unknown", "running"}
BY OutcomesAssumption DEF OutcomesOf, Outcomes

LEMMA DeliverInv == IndInv /\ Deliver => IndInv'
<1> SUFFICES ASSUME IndInv, Deliver PROVE IndInv'
  OBVIOUS
<1> USE DEF IndInv
<1>0. cmdChan = <<>> /\ outgoing' = <<>>
  BY DEF Control, Deliver, ClearOutgoing
<1>1. TypeOK'
  <2>1. started' \in BOOLEAN /\ pc' \in {"jobs", "evict"} /\ budget' \in 0 .. CoopBudget
    <3>1. started' = TRUE \/ started' = started
      BY DEF Deliver
    <3>2. started \in BOOLEAN
      BY DEF TypeOK
    <3>3. pc' \in {"jobs", "evict"} /\ budget' \in 0 .. CoopBudget
      BY CoopBudgetAssumption DEF Deliver
    <3>4. QED
      BY <3>1, <3>2, <3>3
  <2>2. /\ outgoing' \in Seq({Start(op) : op \in Ops}) /\ reply' \in Seq(Commands)
        /\ UNCHANGED <<nextSeq, awaiting, seen, signalRx, parked, cmdChan, slot, pending,
                      completed, result, cancelled, coreOp, coreClosed, evicted>>
    BY <1>0 DEF Deliver, chanVars
  <2>3. QED
    BY <2>1, <2>2 DEF TypeOK
<1>2. Control'
  BY <1>0 DEF Control, Deliver, chanVars, TypeOK
<1>3. Lifecycle'
  BY <1>0 DEF Lifecycle, Deliver, chanVars, StartedBy
<1>4. Order'
  BY <1>0, StartedByEmpty DEF Order, Ascending, Precedes, Deliver, chanVars
<1>5. ParkedUnready'
  BY DEF ParkedUnready, Deliver
<1>6. QED
  BY <1>1, <1>2, <1>3, <1>4, <1>5

LEMMA HandleResolutionInv ==
    ASSUME IndInv, NEW op \in Ops, HandleResolution(op)
    PROVE  IndInv'
<1> USE DEF IndInv
<1>0. PICK v \in OutcomesOf(op[1]) : coreOp' = [coreOp EXCEPT ![op] = v] /\ slot' = Deposit(op, v)
  BY DEF HandleResolution
<1>1. v \in Outcomes /\ op \in pending /\ slot' = [slot EXCEPT ![op] = v]
  BY <1>0, OutcomeFacts DEF HandleResolution, Lifecycle, Deposit
<1>2. TypeOK'
  BY <1>0, <1>1 DEF TypeOK, HandleResolution, Unpend, wfVars
<1>3. Control'
  BY DEF Control, HandleResolution, wfVars
<1>4. Lifecycle'
  BY <1>0, <1>1, OutcomeFacts DEF Lifecycle, HandleResolution, wfVars, Unpend, StartedBy, TypeOK
<1>5. Order'
  BY DEF Order, HandleResolution, Ascending, Precedes, StartedBy
<1>6. ParkedUnready'
  BY DEF ParkedUnready, HandleResolution
<1>7. QED
  BY <1>2, <1>3, <1>4, <1>5, <1>6

(* The steps of the job loop that only change flags.                       *)
LEMMA JobInv ==
    ASSUME IndInv, HandleCancelWorkflow \/ HandleRemoveFromCache \/ EndOfJobs
    PROVE  IndInv'
<1> USE DEF IndInv, HandleCancelWorkflow, HandleRemoveFromCache, EndOfJobs
<1>1. TypeOK'
  BY DEF TypeOK, wfVars, chanVars, coreVars
<1>2. Control'
  BY DEF Control, wfVars, chanVars, coreVars
<1>3. Lifecycle'
  BY DEF Lifecycle, wfVars, chanVars, coreVars, StartedBy
<1>4. Order'
  BY DEF Order, Ascending, Precedes, StartedBy, chanVars
<1>5. ParkedUnready'
  BY DEF ParkedUnready
<1>6. QED
  BY <1>1, <1>2, <1>3, <1>4, <1>5
LEMMA DrainStartInv ==
    ASSUME IndInv, Drain, NEW op \in Ops, DrainStart(op)
    PROVE  IndInv'
<1> USE DEF IndInv
<1>0. /\ pc = "drain2" /\ ~evicted
      /\ cmdChan # <<>> /\ Head(cmdChan) = Start(op) /\ cmdChan' = Tail(cmdChan)
      /\ cmdChan \in Seq(ChanEntries) /\ outgoing \in Seq(AllStarts)
      /\ outgoing' = Append(outgoing, Start(op)) /\ pending' = pending \cup {op}
      /\ UNCHANGED <<nextSeq, awaiting, seen, signalRx, parked, budget, pc, completed,
                     result, cancelled, coreOp, coreClosed, evicted, started, reply>>
  BY DEF Control, Drain, DrainStart, InsertPending, TypeOK, ChanEntries, AllStarts, coreVars
<1>1. op \in StartedBy(cmdChan)
  BY <1>0, StartedByTail
<1>2. op \notin pending /\ slot' = slot
  BY <1>1 DEF Lifecycle, DrainStart
<1>3. /\ StartedBy(cmdChan) = StartedBy(cmdChan') \cup {op}
      /\ op \notin StartedBy(cmdChan')
      /\ Ascending(cmdChan')
      /\ \A p \in StartedBy(cmdChan') : op[1] = p[1] => op[2] < p[2]
  <2>1. /\ Ascending(cmdChan')
        /\ \A p \in StartedBy(cmdChan') : op[1] = p[1] => op[2] < p[2]
    BY <1>0, AscendingTail DEF Order
  <2>2. op \notin StartedBy(cmdChan')
    BY <2>1, OpsFacts
  <2>3. StartedBy(cmdChan) = StartedBy(cmdChan') \cup {op}
    <3>1. /\ StartedBy(cmdChan') \subseteq StartedBy(cmdChan)
          /\ \A o \in StartedBy(cmdChan) : Start(op) = Start(o) \/ o \in StartedBy(cmdChan')
      BY <1>0, StartedByTail
    <3>2. \A o \in StartedBy(cmdChan) : o = op \/ o \in StartedBy(cmdChan')
      BY <3>1, StartFacts
    <3>3. QED
      BY <1>1, <3>1, <3>2
  <2>4. QED
    BY <2>1, <2>2, <2>3
<1>4. StartedBy(outgoing') = StartedBy(outgoing) \cup {op}
  BY <1>0, StartedByAppendStart
<1>5. TypeOK'
  <2>1. cmdChan' \in Seq(ChanEntries) /\ outgoing' \in Seq(AllStarts)
    BY <1>0 DEF AllStarts
  <2>2. QED
    BY <1>0, <1>2, <2>1 DEF TypeOK, ChanEntries, AllStarts
<1>6. Control'
  BY <1>0 DEF Control
<1>7. Lifecycle'
  BY <1>0, <1>2, <1>3, <1>4 DEF Lifecycle
<1>8. Order'
  <2>1. Ascending(outgoing')
    BY <1>0, <1>1, AscendingAppendStart DEF Order, Precedes
  <2>2. Precedes(outgoing', cmdChan')
    BY <1>3, <1>4 DEF Order, Precedes
  <2>3. QED
    BY <1>3, <2>1, <2>2 DEF Order
<1>9. ParkedUnready'
  BY <1>0, <1>2 DEF ParkedUnready, Ready
<1>10. QED
  BY <1>5, <1>6, <1>7, <1>8, <1>9

LEMMA DrainSubscribeInv ==
    ASSUME IndInv, Drain, DrainSubscribe
    PROVE  IndInv'
<1> USE DEF IndInv
<1>0. /\ pc = "drain2" /\ ~evicted
      /\ cmdChan # <<>> /\ Head(cmdChan) = Subscribe /\ cmdChan' = Tail(cmdChan)
      /\ cmdChan \in Seq(ChanEntries)
      /\ signalRx' \in {signalRx, "closed"}
      /\ UNCHANGED <<nextSeq, awaiting, seen, parked, budget, pc, completed, result,
                     cancelled, coreOp, coreClosed, evicted, started, reply, outgoing,
                     pending, slot>>
  BY DEF Control, Drain, DrainStart, DrainSubscribe, TypeOK, ChanEntries, AllStarts, coreVars
<1>1. StartedBy(cmdChan') = StartedBy(cmdChan) /\ Ascending(cmdChan')
  <2>1. /\ StartedBy(cmdChan') \subseteq StartedBy(cmdChan)
        /\ \A op \in StartedBy(cmdChan) : Subscribe = Start(op) \/ op \in StartedBy(cmdChan')
    BY <1>0, StartedByTail
  <2>2. \A op \in StartedBy(cmdChan) : op \in StartedBy(cmdChan')
    BY <2>1, StartFacts
  <2>3. Ascending(cmdChan')
    BY <1>0, AscendingTail DEF Order
  <2>4. QED
    BY <2>1, <2>2, <2>3
<1>2. TypeOK'
  <2>1. cmdChan' \in Seq(ChanEntries)
    BY <1>0
  <2>2. QED
    BY <1>0, <2>1 DEF TypeOK, ChanEntries, AllStarts
<1>3. Control'
  BY <1>0 DEF Control
<1>4. Lifecycle'
  BY <1>0, <1>1 DEF Lifecycle, StartedBy
<1>5. Order'
  <2>1. Ascending(outgoing)' /\ Precedes(outgoing, cmdChan)'
    BY <1>0, <1>1 DEF Order, Precedes, Ascending, StartedBy
  <2>2. QED
    BY <1>1, <2>1 DEF Order
<1>6. ParkedUnready'
  BY <1>0 DEF ParkedUnready, Ready
<1>7. QED
  BY <1>2, <1>3, <1>4, <1>5, <1>6

LEMMA FirstDrainDoneInv == IndInv /\ FirstDrainDone => IndInv'
<1> SUFFICES ASSUME IndInv, FirstDrainDone PROVE IndInv'
  OBVIOUS
<1> USE DEF IndInv, FirstDrainDone, ShouldPoll, wfVars, chanVars, coreVars
<1>1. TypeOK'
  BY DEF TypeOK
<1>2. Control'
  BY DEF Control, TypeOK
<1>3. Lifecycle'
  BY StartedByEmpty DEF Lifecycle, Control, StartedBy
<1>4. Order'
  BY DEF Order, Ascending, Precedes, StartedBy
<1>5. ParkedUnready'
  BY DEF ParkedUnready
<1>6. QED
  BY <1>1, <1>2, <1>3, <1>4, <1>5
------------------------------------------------------------------------------
LEMMA IssueOpInv ==
    ASSUME IndInv, NEW k \in Kinds, IssueOp(k)
    PROVE  IndInv'
<1> USE DEF IndInv
<1> DEFINE op == <<k, nextSeq[k]>>
<1>0. /\ op \in Ops /\ op[1] = k /\ op[2] = nextSeq[k] /\ nextSeq[k] \in Nat
      /\ nextSeq[k] < MaxSeq[k]
  BY OpsFacts DEF IssueOp, TypeOK
<1>1. /\ pc = "poll" /\ cmdChan \in Seq(ChanEntries)
      /\ nextSeq' = [nextSeq EXCEPT ![k] = @ + 1]
      /\ awaiting' = awaiting \cup {op}
      /\ slot' = [slot EXCEPT ![op] = "empty"]
      /\ cmdChan' = Append(cmdChan, Start(op))
      /\ UNCHANGED <<seen, signalRx, parked, budget, pc, pending, outgoing, completed,
                     result, cancelled, coreOp, coreClosed, evicted, started, reply>>
  BY DEF IssueOp, BumpSeq, machVars, coreVars, TypeOK, ChanEntries, AllStarts
<1> HIDE DEF op
<1>2. /\ slot[op] = "unborn" /\ seen[op] = "none" /\ coreOp[op] = "unknown"
      /\ op \notin pending /\ op \notin StartedBy(cmdChan)
  <2>1. slot[op] = "unborn"
    BY <1>0 DEF Lifecycle
  <2>2. op \notin pending /\ op \notin StartedBy(cmdChan)
    BY <1>0, <2>1 DEF Lifecycle
  <2>3. coreOp[op] = "unknown"
    BY <1>0, <2>1, <2>2, OutcomeFacts DEF Lifecycle, TypeOK
  <2>4. seen[op] = "none"
    BY <1>0, <2>3, OutcomeFacts DEF Lifecycle, TypeOK
  <2>5. QED
    BY <2>1, <2>2, <2>3, <2>4
<1>3. /\ StartedBy(cmdChan') = StartedBy(cmdChan) \cup {op}
      /\ \A o \in StartedBy(cmdChan) : o \in Ops /\ (o[1] = op[1] => o[2] < op[2])
  <2>1. \A o \in StartedBy(cmdChan) : o \in Ops
    BY DEF StartedBy
  <2>2. \A o \in StartedBy(cmdChan) : o[2] < nextSeq[o[1]]
    BY <2>1 DEF Lifecycle
  <2>3. QED
    BY <1>0, <1>1, <2>1, <2>2, StartedByAppendStart
<1>4. TypeOK'
  <2>1. cmdChan' \in Seq(ChanEntries)
    BY <1>0, <1>1 DEF ChanEntries, AllStarts
  <2>2. /\ nextSeq' \in [Kinds -> Nat] /\ \A j \in Kinds : nextSeq'[j] <= MaxSeq[j]
    BY <1>0, <1>1, BumpFacts DEF TypeOK
  <2>3. QED
    BY <1>0, <1>1, <2>1, <2>2 DEF TypeOK, ChanEntries, AllStarts
<1>5. Control'
  BY <1>1 DEF Control
<1>6. Lifecycle'
  <2>1. outgoing = <<>> /\ \A o \in Ops : o[1] \in Kinds /\ o[2] \in Nat
    BY <1>1, OpsFacts DEF Control
  <2>2. \A o \in Ops : o[2] < nextSeq[o[1]] => o[2] < nextSeq'[o[1]]
    BY <1>1, <2>1 DEF TypeOK
  <2>3. op[2] < nextSeq'[op[1]]
    BY <1>0, <1>1 DEF TypeOK
  <2>4. QED
    BY <1>0, <1>1, <1>2, <1>3, <2>1, <2>2, <2>3 DEF Lifecycle, TypeOK
<1>7. Order'
  <2>1. Ascending(cmdChan')
    BY <1>0, <1>1, <1>3, AscendingAppendStart DEF Order
  <2>2. outgoing' = <<>> /\ outgoing = <<>>
    BY <1>1 DEF Control
  <2>3. QED
    BY <2>1, <2>2, StartedByEmpty DEF Order, Ascending, Precedes
<1>8. ParkedUnready'
  BY <1>1 DEF ParkedUnready
<1>9. QED
  BY <1>4, <1>5, <1>6, <1>7, <1>8

LEMMA FailSerializationInv == IndInv /\ FailSerialization => IndInv'
<1> SUFFICES ASSUME IndInv, FailSerialization PROVE IndInv'
  OBVIOUS
<1> USE DEF IndInv
<1>0. /\ pc = "poll" /\ "activity" \in Kinds /\ nextSeq["activity"] < MaxSeq["activity"]
      /\ nextSeq' = [nextSeq EXCEPT !["activity"] = @ + 1]
      /\ UNCHANGED <<awaiting, seen, signalRx, parked, budget, cmdChan, slot, pc, pending,
                     outgoing, completed, result, cancelled, coreOp, coreClosed, evicted,
                     started, reply>>
  BY DEF FailSerialization, BumpSeq, chanVars, machVars, coreVars, Kinds
<1>1. /\ nextSeq' \in [Kinds -> Nat]
      /\ \A k \in Kinds : nextSeq[k] <= nextSeq'[k] /\ nextSeq'[k] <= MaxSeq[k]
  BY <1>0, BumpFacts DEF TypeOK
<1>2. TypeOK'
  BY <1>0, <1>1 DEF TypeOK
<1>3. Control'
  BY <1>0 DEF Control
<1>4. Lifecycle'
  <2>1. \A op \in Ops : op[2] < nextSeq[op[1]] => op[2] < nextSeq'[op[1]]
    BY <1>1, OpsFacts DEF TypeOK
  <2>2. QED
    BY <1>0, <2>1 DEF Lifecycle, StartedBy
<1>5. Order'
  BY <1>0 DEF Order, Ascending, Precedes, StartedBy
<1>6. ParkedUnready'
  BY <1>0 DEF ParkedUnready
<1>7. QED
  BY <1>2, <1>3, <1>4, <1>5, <1>6

LEMMA ObserveInv ==
    ASSUME IndInv, NEW op \in Ops, Observe(op)
    PROVE  IndInv'
<1> USE DEF IndInv
<1>0. /\ pc = "poll" /\ op \in awaiting /\ slot[op] # "empty" /\ budget > 0
      /\ seen' = [seen EXCEPT ![op] = slot[op]] /\ awaiting' = awaiting \ {op}
      /\ budget' = budget - 1
      /\ UNCHANGED <<nextSeq, signalRx, parked, cmdChan, slot, pc, pending, outgoing,
                     completed, result, cancelled, coreOp, coreClosed, evicted, started, reply>>
  BY DEF Observe, chanVars, machVars, coreVars
<1>1. slot[op] = coreOp[op] /\ slot[op] \in Outcomes
  BY <1>0, OutcomeFacts DEF Lifecycle, TypeOK
<1>2. TypeOK'
  BY <1>0, <1>1, CoopBudgetAssumption DEF TypeOK
<1>3. Control'
  BY <1>0 DEF Control
<1>4. Lifecycle'
  BY <1>0, <1>1 DEF Lifecycle, StartedBy, TypeOK
<1>5. Order'
  BY <1>0 DEF Order, Ascending, Precedes, StartedBy
<1>6. ParkedUnready'
  BY <1>0 DEF ParkedUnready
<1>7. QED
  BY <1>2, <1>3, <1>4, <1>5, <1>6

LEMMA AbandonInv ==
    ASSUME IndInv, NEW op \in Ops, Abandon(op)
    PROVE  IndInv'
<1> USE DEF IndInv, Abandon, chanVars, machVars, coreVars
<1>1. TypeOK'
  BY DEF TypeOK
<1>2. Control'
  BY DEF Control
<1>3. Lifecycle'
  BY DEF Lifecycle, StartedBy
<1>4. Order'
  BY DEF Order, Ascending, Precedes, StartedBy
<1>5. ParkedUnready'
  BY DEF ParkedUnready
<1>6. QED
  BY <1>1, <1>2, <1>3, <1>4, <1>5
LEMMA SubscribeSignalInv == IndInv /\ SubscribeSignal => IndInv'
<1> SUFFICES ASSUME IndInv, SubscribeSignal PROVE IndInv'
  OBVIOUS
<1> USE DEF IndInv
<1>0. /\ pc = "poll" /\ signalRx' = "open" /\ cmdChan' = Append(cmdChan, Subscribe)
      /\ cmdChan \in Seq(ChanEntries) /\ outgoing = <<>>
      /\ UNCHANGED <<nextSeq, awaiting, seen, parked, budget, slot, pc, pending, outgoing,
                     completed, result, cancelled, coreOp, coreClosed, evicted, started, reply>>
  BY DEF SubscribeSignal, machVars, coreVars, TypeOK, ChanEntries, AllStarts, Control
<1>1. StartedBy(cmdChan') = StartedBy(cmdChan) /\ Ascending(cmdChan')
  <2>1. \A op \in Ops : Subscribe # Start(op)
    BY StartFacts
  <2>2. QED
    BY <1>0, <2>1, StartedByAppendOther, AscendingAppendOther DEF Order
<1>2. TypeOK'
  <2>1. cmdChan' \in Seq(ChanEntries)
    BY <1>0 DEF ChanEntries
  <2>2. QED
    BY <1>0, <2>1 DEF TypeOK, ChanEntries, AllStarts
<1>3. Control'
  BY <1>0 DEF Control
<1>4. Lifecycle'
  BY <1>0, <1>1 DEF Lifecycle
<1>5. Order'
  BY <1>0, <1>1, StartedByEmpty DEF Order, Ascending, Precedes
<1>6. ParkedUnready'
  BY <1>0 DEF ParkedUnready
<1>7. QED
  BY <1>2, <1>3, <1>4, <1>5, <1>6

LEMMA ParkInv ==
    ASSUME IndInv, NEW W \in SUBSET HeldSources, Park(W)
    PROVE  IndInv'
<1> USE DEF IndInv
<1>0. /\ pc = "poll" /\ pc' = "drain2" /\ parked' = W
      /\ \A src \in W : ~Ready(src) \/ Starved(src)
      /\ UNCHANGED <<nextSeq, awaiting, seen, signalRx, budget, cmdChan, slot, pending,
                     outgoing, completed, result, cancelled, coreOp, coreClosed, evicted,
                     started, reply>>
  BY DEF Park, chanVars, coreVars
<1>1. W \subseteq Sources
  BY DEF HeldSources, Sources, TypeOK
<1>2. TypeOK'
  BY <1>0, <1>1 DEF TypeOK
<1>3. Control'
  BY <1>0 DEF Control
<1>4. Lifecycle'
  <2>1. outgoing = <<>> /\ outgoing' = <<>>
    BY <1>0 DEF Control
  <2>2. QED
    BY <1>0, <2>1 DEF Lifecycle, StartedBy
<1>5. Order'
  BY <1>0 DEF Order, Ascending, Precedes, StartedBy
<1>6. ParkedUnready'
  BY <1>0 DEF ParkedUnready, Ready, Starved, TypeOK
<1>7. QED
  BY <1>2, <1>3, <1>4, <1>5, <1>6

LEMMA FinishInv ==
    ASSUME IndInv, NEW r \in {"ok", "err"}, Finish(r)
    PROVE  IndInv'
<1> USE DEF IndInv
<1>0. /\ pc = "poll" /\ pc' = "drain2" /\ completed' = TRUE /\ result' = r
      /\ awaiting' = {} /\ signalRx' = "none" /\ parked' = {}
      /\ UNCHANGED <<nextSeq, seen, budget, cmdChan, slot, pending, outgoing, cancelled,
                     coreOp, coreClosed, evicted, started, reply>>
  BY DEF Finish, chanVars, coreVars
<1>1. TypeOK'
  BY <1>0 DEF TypeOK
<1>2. Control'
  BY <1>0 DEF Control
<1>3. Lifecycle'
  <2>1. outgoing = <<>> /\ outgoing' = <<>>
    BY <1>0 DEF Control
  <2>2. QED
    BY <1>0, <2>1 DEF Lifecycle, StartedBy
<1>4. Order'
  BY <1>0 DEF Order, Ascending, Precedes, StartedBy
<1>5. ParkedUnready'
  BY <1>0 DEF ParkedUnready
<1>6. QED
  BY <1>1, <1>2, <1>3, <1>4, <1>5

(* The completion starts what the outgoing commands start, and ends the    *)
(* workflow only if it has a result.                                       *)
LEMMA CompletionFacts ==
    ASSUME outgoing \in Seq(AllStarts)
    PROVE  /\ StartedBy(Completion) = StartedBy(outgoing)
           /\ Ends(Completion) => completed /\ result # "none"
           /\ result \in {"none", "ok", "err"} => Completion \in Seq(Commands)
<1>1. CASE completed /\ result # "none"
  <2>1. Completion = Append(outgoing, Terminal(result))
    BY <1>1 DEF Completion
  <2>2. \A op \in Ops : Terminal(result) # Start(op)
    BY StartFacts
  <2>3. StartedBy(Completion) = StartedBy(outgoing)
    BY <2>1, <2>2, StartedByAppendOther
  <2>4. result \in {"none", "ok", "err"} => Completion \in Seq(Commands)
    <3>1. SUFFICES ASSUME result \in {"ok", "err"} PROVE Completion \in Seq(Commands)
      BY <1>1
    <3>2. outgoing \in Seq(Commands) /\ Terminal(result) \in Commands
      BY <3>1 DEF Commands, AllStarts
    <3>3. QED
      BY <2>1, <3>2
  <2>5. QED
    BY <1>1, <2>3, <2>4
<1>2. CASE ~(completed /\ result # "none")
  <2>1. Completion = outgoing
    BY <1>2 DEF Completion
  <2>2. ~Ends(outgoing)
    <3>1. SUFFICES ASSUME NEW i \in DOMAIN outgoing PROVE outgoing[i].variant # "terminal"
      BY DEF Ends
    <3>2. PICK op \in Ops : outgoing[i] = Start(op)
      BY DEF AllStarts
    <3>3. QED
      BY <3>2, StartFacts
  <2>3. outgoing \in Seq(Commands)
    BY DEF AllStarts, Commands
  <2>4. QED
    BY <2>1, <2>2, <2>3
<1>3. QED
  BY <1>1, <1>2

LEMMA BuildCompletionInv == IndInv /\ BuildCompletion => IndInv'
<1> SUFFICES ASSUME IndInv, BuildCompletion PROVE IndInv'
  OBVIOUS
<1> USE DEF IndInv
<1>0. /\ pc = "drain2" /\ pc' = "idle" /\ cmdChan = <<>> /\ reply' = Completion
      /\ coreOp' = [op \in Ops |-> IF op \in StartedBy(Completion) THEN "running" ELSE coreOp[op]]
      /\ coreClosed' = (coreClosed \/ Ends(Completion))
      /\ outgoing \in Seq(AllStarts) /\ result \in {"none", "ok", "err"}
      /\ UNCHANGED <<nextSeq, awaiting, seen, signalRx, parked, budget, cmdChan, slot, pending,
                     outgoing, completed, result, cancelled, evicted, started>>
  BY DEF BuildCompletion, wfVars, chanVars, TypeOK, AllStarts
<1>1. /\ StartedBy(Completion) = StartedBy(outgoing) /\ StartedBy(cmdChan) = {}
      /\ Ends(Completion) => completed /\ result # "none"
      /\ Completion \in Seq(Commands)
  BY <1>0, CompletionFacts, StartedByEmpty
<1>2. TypeOK'
  <2>1. coreOp' \in [Ops -> Outcomes \cup {"unknown", "running"}]
    BY <1>0 DEF TypeOK
  <2>2. coreClosed' \in BOOLEAN
    BY <1>0 DEF TypeOK, Ends
  <2>3. QED
    BY <1>0, <1>1, <2>1, <2>2 DEF TypeOK
<1>3. Control'
  BY <1>0, <1>1 DEF Control
<1>4. Lifecycle'
  <2>1. SUFFICES ASSUME NEW op \in Ops
        PROVE  /\ slot[op] # "unborn" => op[2] < nextSeq[op[1]]
               /\ slot[op] = "empty" <=> op \in pending
               /\ op \in pending <=> coreOp'[op] = "running"
               /\ coreOp'[op] = "unknown" => slot[op] \in {"unborn", "empty"}
               /\ coreOp'[op] \in Outcomes => slot[op] = coreOp'[op]
               /\ op \in awaiting => slot[op] # "unborn" /\ seen[op] = "none"
               /\ seen[op] # "none" => seen[op] = coreOp'[op]
    BY <1>0, <1>1 DEF Lifecycle
  <2>2. CASE op \in StartedBy(outgoing)
    <3>1. coreOp'[op] = "running" /\ coreOp[op] = "unknown" /\ op \in pending
      BY <1>0, <1>1, <2>2 DEF Lifecycle
    <3>2. seen[op] = "none"
      BY <3>1, OutcomeFacts DEF Lifecycle, TypeOK
    <3>3. QED
      BY <1>0, <1>1, <3>1, <3>2, OutcomeFacts DEF Lifecycle
  <2>3. CASE op \notin StartedBy(outgoing)
    <3>1. coreOp'[op] = coreOp[op]
      BY <1>0, <1>1, <2>3
    <3>2. QED
      BY <1>0, <1>1, <2>3, <3>1 DEF Lifecycle
  <2>4. QED
    BY <2>2, <2>3
<1>5. Order'
  BY <1>0 DEF Order, Ascending, Precedes, StartedBy
<1>6. ParkedUnready'
  BY <1>0 DEF ParkedUnready, Ready
<1>7. QED
  BY <1>2, <1>3, <1>4, <1>5, <1>6

LEMMA StutterInv == IndInv /\ UNCHANGED vars => IndInv'
<1> SUFFICES ASSUME IndInv, UNCHANGED vars PROVE IndInv'
  OBVIOUS
<1> USE DEF IndInv, vars, wfVars, chanVars, machVars, coreVars
<1>1. TypeOK'
  BY DEF TypeOK
<1>2. Control'
  BY DEF Control
<1>3. Lifecycle'
  BY DEF Lifecycle, StartedBy
<1>4. Order'
  BY DEF Order, Ascending, Precedes, StartedBy
<1>5. ParkedUnready'
  BY DEF ParkedUnready, Ready
<1>6. QED
  BY <1>1, <1>2, <1>3, <1>4, <1>5

LEMMA NextInv == IndInv /\ [Next]_vars => IndInv'
<1> SUFFICES ASSUME IndInv, [Next]_vars PROVE IndInv'
  OBVIOUS
<1>1. CASE Deliver
  BY <1>1, DeliverInv
<1>2. CASE MachineStep
  <2>1. ASSUME NEW op \in Ops, HandleResolution(op) PROVE IndInv'
    BY <2>1, HandleResolutionInv
  <2>2. CASE HandleCancelWorkflow \/ HandleRemoveFromCache \/ EndOfJobs
    BY <2>2, JobInv
  <2>3. CASE Drain
    <3>1. ASSUME NEW op \in Ops, DrainStart(op) PROVE IndInv'
      BY <2>3, <3>1, DrainStartInv
    <3>2. CASE DrainSubscribe
      BY <2>3, <3>2, DrainSubscribeInv
    <3>3. QED
      BY <2>3, <3>1, <3>2 DEF Drain
  <2>4. CASE FirstDrainDone
    BY <2>4, FirstDrainDoneInv
  <2>5. CASE BuildCompletion
    BY <2>5, BuildCompletionInv
  <2>6. QED
    BY <1>2, <2>1, <2>2, <2>3, <2>4, <2>5 DEF MachineStep
<1>3. CASE WorkflowStep
  <2>1. ASSUME NEW k \in Kinds, IssueOp(k) PROVE IndInv'
    BY <2>1, IssueOpInv
  <2>2. CASE FailSerialization \/ SubscribeSignal
    BY <2>2, FailSerializationInv, SubscribeSignalInv
  <2>3. ASSUME NEW op \in Ops, Observe(op) \/ Abandon(op) PROVE IndInv'
    BY <2>3, ObserveInv, AbandonInv
  <2>4. ASSUME NEW W \in SUBSET HeldSources, Park(W) PROVE IndInv'
    BY <2>4, ParkInv
  <2>5. ASSUME NEW r \in {"ok", "err"}, Finish(r) PROVE IndInv'
    BY <2>5, FinishInv
  <2>6. QED
    BY <1>3, <2>1, <2>2, <2>3, <2>4, <2>5 DEF WorkflowStep
<1>4. CASE UNCHANGED vars
  BY <1>4, StutterInv
<1>5. QED
  BY <1>1, <1>2, <1>3, <1>4 DEF Next
------------------------------------------------------------------------------
(* IndInv holds throughout every behaviour of the machine.                 *)
THEOREM Inductive == Spec => []IndInv
BY InitInv, NextInv, PTL DEF Spec

(* The variables of the machine, its future and Core keep their types.     *)
THEOREM TypeCorrect == Spec => []TypeOK
BY Inductive, PTL DEF IndInv

(* At rest the pending maps hold exactly what Core is running, for any     *)
(* number of operations and any workflow code.                             *)
THEOREM PendingCorrect == Spec => []PendingMirrorsCore
<1>1. IndInv => PendingMirrorsCore
  <2>1. SUFFICES ASSUME IndInv, AtRest
        PROVE  pending = {op \in Ops : coreOp[op] = "running"}
    BY DEF PendingMirrorsCore
  <2>2. \A op \in Ops : op \in pending <=> coreOp[op] = "running"
    BY <2>1 DEF IndInv, Lifecycle, AtRest
  <2>3. pending \subseteq Ops
    BY <2>1 DEF IndInv, TypeOK
  <2>4. QED
    BY <2>2, <2>3
<1>2. QED
  BY <1>1, Inductive, PTL

(* No receiver the future holds is ever left without a sender or a value.  *)
THEOREM NoOrphans == Spec => []NoOrphanedAwait
<1>1. IndInv => NoOrphanedAwait
  <2>1. SUFFICES ASSUME IndInv, AtRest, NEW op \in awaiting, slot[op] = "empty"
        PROVE  op \in pending
    BY DEF NoOrphanedAwait
  <2>2. op \in Ops /\ cmdChan = <<>>
    BY <2>1 DEF IndInv, TypeOK, Control, AtRest
  <2>3. QED
    BY <2>1, <2>2, StartedByEmpty DEF IndInv, Lifecycle
<1>2. QED
  BY <1>1, Inductive, PTL

(* Workflow code gets the outcome Core gave the operation, and no other.   *)
THEOREM Fidelity == Spec => []ResultFidelity
<1>1. IndInv => ResultFidelity
  BY DEF IndInv, Lifecycle, ResultFidelity
<1>2. QED
  BY <1>1, Inductive, PTL

(* Only an exhausted budget leaves a future parked on a ready operation or *)
(* cancellation.                                                           *)
THEOREM WakeupsLostOnlyOnBudget == Spec => []LostWakeupOnlyOnBudget
<1>1. IndInv => LostWakeupOnlyOnBudget
  BY DEF IndInv, Control, ParkedUnready, LostWakeupOnlyOnBudget, AtRest, FutureLive
<1>2. QED
  BY <1>1, Inductive, PTL

(* The commands of an activation are new to Core and ordered as issued.    *)
THEOREM CommandsFresh == Spec => []FreshCommands
<1>1. IndInv => FreshCommands
  <2>1. SUFFICES ASSUME IndInv, pc # "idle" PROVE
            /\ \A op \in StartedBy(outgoing) : coreOp[op] = "unknown"
            /\ \A i, j \in DOMAIN outgoing :
                  i < j /\ outgoing[i].op[1] = outgoing[j].op[1]
                     => outgoing[i].op[2] < outgoing[j].op[2]
    BY DEF FreshCommands
  <2>2. ASSUME NEW op \in StartedBy(outgoing) PROVE coreOp[op] = "unknown"
    <3>1. op \in Ops /\ outgoing # <<>>
      BY StartedByEmpty DEF StartedBy
    <3>2. pc = "drain2"
      BY <2>1, <3>1 DEF IndInv, Control, TypeOK
    <3>3. QED
      BY <2>1, <3>1, <3>2 DEF IndInv, Lifecycle
  <2>3. ASSUME NEW i \in DOMAIN outgoing, NEW j \in DOMAIN outgoing, i < j,
               outgoing[i].op[1] = outgoing[j].op[1]
        PROVE  outgoing[i].op[2] < outgoing[j].op[2]
    <3>1. outgoing \in Seq(AllStarts)
      BY <2>1 DEF IndInv, TypeOK, AllStarts
    <3>2. outgoing[i] \in AllStarts /\ outgoing[j] \in AllStarts
      BY <3>1
    <3>3. PICK o \in Ops, p \in Ops : outgoing[i] = Start(o) /\ outgoing[j] = Start(p)
      BY <3>2 DEF AllStarts
    <3>4. outgoing[i].op = o /\ outgoing[j].op = p
      BY <3>3, StartFacts
    <3>5. QED
      BY <2>1, <2>3, <3>3, <3>4 DEF IndInv, Order, Ascending
  <2>4. QED
    BY <2>2, <2>3
<1>2. QED
  BY <1>1, Inductive, PTL

(* After an eviction nothing of the workflow moves.                        *)
THEOREM EvictionFreezes == Spec => EvictionFreezesWorkflow
<1>1. ASSUME IndInv, [Next]_vars, evicted
      PROVE  UNCHANGED <<nextSeq, awaiting, seen, coreOp>>
  <2>1. pc \notin {"jobs", "evict", "poll"} /\ outgoing = <<>>
    BY <1>1 DEF IndInv, Control
  <2>2. CASE BuildCompletion
    <3>1. outgoing \in Seq(AllStarts) /\ coreOp \in [Ops -> Outcomes \cup {"unknown", "running"}]
      BY <1>1 DEF IndInv, TypeOK, AllStarts
    <3>2. StartedBy(Completion) = {}
      BY <2>1, <3>1, CompletionFacts, StartedByEmpty
    <3>3. coreOp' = [op \in Ops |-> coreOp[op]]
      BY <2>2, <3>2 DEF BuildCompletion
    <3>4. QED
      BY <2>2, <3>1, <3>3 DEF BuildCompletion, wfVars
  <2>3. CASE Drain \/ FirstDrainDone \/ UNCHANGED vars
    BY <2>3 DEF Drain, FirstDrainDone, vars, wfVars, coreVars
  <2>4. QED
    BY <1>1, <2>1, <2>2, <2>3 DEF Next, Deliver, MachineStep, WorkflowStep, HandleResolution,
       HandleCancelWorkflow, HandleRemoveFromCache, EndOfJobs, IssueOp, FailSerialization,
       Observe, Abandon, SubscribeSignal, Park, Finish
<1>2. IndInv /\ [Next]_vars => (evicted => UNCHANGED <<nextSeq, awaiting, seen, coreOp>>)
  BY <1>1
<1>3. QED
  BY <1>2, Inductive, PTL DEF Spec, EvictionFreezesWorkflow
------------------------------------------------------------------------------
(* The refinement, initial states first.                                   *)
LEMMA InitRefines == Init => Durable!Init
BY OutcomeFacts DEF Init, Durable!Init, Durable!None, phaseBar, PhaseOf, outcomeBar, OutcomeOf, statusBar

(* A step that leaves alone what the abstract machine sees is a stutter.   *)
LEMMA InvisibleStep ==
    ASSUME UNCHANGED <<coreOp, slot, seen, evicted, coreClosed>>
    PROVE  UNCHANGED Durable!vars
BY DEF Durable!vars, phaseBar, PhaseOf, outcomeBar, OutcomeOf, statusBar

LEMMA ResolutionRefines ==
    ASSUME IndInv, NEW op \in Ops, HandleResolution(op)
    PROVE  \E v \in Outcomes : Durable!Resolve(op, v)
<1>0. PICK v \in OutcomesOf(op[1]) : coreOp' = [coreOp EXCEPT ![op] = v] /\ slot' = Deposit(op, v)
  BY DEF HandleResolution
<1>1. /\ v \in Outcomes /\ coreOp[op] = "running" /\ slot' = [slot EXCEPT ![op] = v]
      /\ coreOp \in [Ops -> Outcomes \cup {"unknown", "running"}] /\ slot \in [Ops -> Outcomes \cup {"unborn", "empty", "dropped"}]
  BY <1>0, OutcomeFacts DEF HandleResolution, IndInv, Lifecycle, Deposit, TypeOK
<1>2. phaseBar[op] = "running" /\ phaseBar' = [phaseBar EXCEPT ![op] = "resolved"]
  BY <1>0, <1>1, OutcomeFacts DEF phaseBar, PhaseOf
<1>3. outcomeBar' = [outcomeBar EXCEPT ![op] = v]
  BY <1>0, <1>1 DEF outcomeBar, OutcomeOf
<1>4. UNCHANGED <<seen, statusBar>>
  BY DEF HandleResolution, wfVars, statusBar
<1>5. QED
  BY <1>1, <1>2, <1>3, <1>4 DEF Durable!Resolve, phaseBar, PhaseOf, outcomeBar, OutcomeOf, statusBar

LEMMA IssueRefines ==
    ASSUME IndInv, NEW k \in Kinds, IssueOp(k)
    PROVE  \E op \in Ops : Durable!Issue(op)
<1> DEFINE op == <<k, nextSeq[k]>>
<1>0. op \in Ops /\ op[1] = k /\ op[2] = nextSeq[k] /\ nextSeq[k] \in Nat
  BY OpsFacts DEF IssueOp, IndInv, TypeOK
<1>1. /\ slot' = [slot EXCEPT ![op] = "empty"] /\ pc = "poll"
      /\ UNCHANGED <<seen, coreOp, coreClosed, evicted>>
  BY DEF IssueOp, machVars, coreVars
<1> HIDE DEF op
<1>2. slot[op] = "unborn"
  BY <1>0 DEF IndInv, Lifecycle
<1>3. coreOp[op] = "unknown"
  BY <1>0, <1>2, OutcomeFacts DEF IndInv, Lifecycle, TypeOK
<1>4. ~evicted /\ ~coreClosed
  BY <1>1 DEF IndInv, Control
<1>5. phaseBar[op] = "unused" /\ phaseBar' = [phaseBar EXCEPT ![op] = "issued"]
  BY <1>0, <1>1, <1>2, <1>3, OutcomeFacts DEF phaseBar, PhaseOf, IndInv, TypeOK
<1>6. QED
  BY <1>0, <1>1, <1>4, <1>5 DEF Durable!Issue, phaseBar, PhaseOf, outcomeBar, OutcomeOf, statusBar

LEMMA ObserveRefines ==
    ASSUME IndInv, NEW op \in Ops, Observe(op)
    PROVE  Durable!Observe(op)
<1>0. /\ pc = "poll" /\ op \in awaiting /\ slot[op] # "empty"
      /\ seen' = [seen EXCEPT ![op] = slot[op]]
      /\ UNCHANGED <<slot, coreOp, coreClosed, evicted>>
  BY DEF Observe, chanVars, machVars, coreVars
<1>1. slot[op] = coreOp[op] /\ coreOp[op] \in Outcomes /\ seen[op] = "none"
  BY <1>0, OutcomeFacts DEF IndInv, Lifecycle, TypeOK
<1>2. ~evicted /\ ~coreClosed
  BY <1>0 DEF IndInv, Control
<1>3. QED
  BY <1>0, <1>1, <1>2 DEF Durable!Observe, Durable!None, phaseBar, PhaseOf, outcomeBar, OutcomeOf, statusBar

LEMMA CompletionRefines ==
    ASSUME IndInv, BuildCompletion
    PROVE  Durable!Commit
<1>0. /\ pc = "drain2" /\ cmdChan = <<>> /\ outgoing \in Seq(AllStarts)
      /\ coreOp' = [op \in Ops |-> IF op \in StartedBy(Completion) THEN "running" ELSE coreOp[op]]
      /\ coreClosed' = (coreClosed \/ Ends(Completion))
      /\ UNCHANGED <<seen, slot, evicted>>
  BY DEF BuildCompletion, wfVars, chanVars, IndInv, TypeOK, AllStarts
<1>1. StartedBy(Completion) = StartedBy(outgoing) /\ StartedBy(cmdChan) = {}
  BY <1>0, CompletionFacts, StartedByEmpty
<1>2. ASSUME NEW op \in Ops
      PROVE  /\ phaseBar'[op] = IF phaseBar[op] = "issued" THEN "running" ELSE phaseBar[op]
             /\ outcomeBar'[op] = outcomeBar[op]
  <2>1. CASE op \in StartedBy(outgoing)
    <3>1. coreOp[op] = "unknown" /\ slot[op] = "empty" /\ coreOp'[op] = "running"
      BY <1>0, <1>1, <2>1 DEF IndInv, Lifecycle
    <3>2. QED
      BY <1>0, <3>1, OutcomeFacts DEF phaseBar, PhaseOf, outcomeBar, OutcomeOf
  <2>2. CASE op \notin StartedBy(outgoing)
    <3>1. coreOp'[op] = coreOp[op]
      BY <1>0, <1>1, <2>2
    <3>2. coreOp[op] = "unknown" => slot[op] = "unborn"
      BY <1>0, <1>1, <2>2 DEF IndInv, Lifecycle
    <3>3. phaseBar[op] # "issued"
      BY <3>2, OutcomeFacts DEF phaseBar, PhaseOf, IndInv, TypeOK
    <3>4. QED
      BY <1>0, <3>1, <3>3 DEF phaseBar, PhaseOf, outcomeBar, OutcomeOf
  <2>3. QED
    BY <2>1, <2>2
<1>3. phaseBar' = [op \in Ops |-> IF phaseBar[op] = "issued" THEN "running" ELSE phaseBar[op]]
  BY <1>2 DEF phaseBar
<1>4. outcomeBar' = outcomeBar
  BY <1>2 DEF outcomeBar
<1>5. statusBar' \in {statusBar, "closed"} /\ (statusBar' # statusBar => statusBar = "open")
  BY <1>0 DEF statusBar, IndInv, TypeOK, Ends
<1>6. QED
  BY <1>0, <1>3, <1>4, <1>5 DEF Durable!Commit, phaseBar, PhaseOf, outcomeBar, OutcomeOf, statusBar

LEMMA StepRefines == IndInv /\ [Next]_vars => [Durable!Next]_(Durable!vars)
<1> SUFFICES ASSUME IndInv, [Next]_vars PROVE Durable!Next \/ UNCHANGED Durable!vars
  OBVIOUS
<1>1. CASE Deliver
  BY <1>1, InvisibleStep DEF Deliver, chanVars
<1>2. CASE MachineStep
  <2>1. ASSUME NEW op \in Ops, HandleResolution(op) PROVE Durable!Next
    BY <2>1, ResolutionRefines DEF Durable!Next
  <2>2. CASE HandleRemoveFromCache
    BY <2>2 DEF HandleRemoveFromCache, Durable!Next, Durable!Evict, wfVars, chanVars,
       phaseBar, PhaseOf, outcomeBar, OutcomeOf, statusBar
  <2>3. CASE HandleCancelWorkflow \/ EndOfJobs \/ FirstDrainDone
    BY <2>3, InvisibleStep DEF HandleCancelWorkflow, EndOfJobs, FirstDrainDone, wfVars,
       chanVars, coreVars
  <2>4. CASE Drain
    <3>1. pc = "drain2"
      BY <2>4 DEF Drain, DrainStart, DrainSubscribe, IndInv, Control
    <3>2. ASSUME NEW op \in Ops, DrainStart(op) PROVE slot' = slot
      <4>1. op \in StartedBy(cmdChan)
        BY <3>2, StartedByTail DEF DrainStart, IndInv, TypeOK
      <4>2. QED
        BY <3>2, <4>1 DEF DrainStart, IndInv, Lifecycle
    <3>3. slot' = slot
      BY <2>4, <3>2 DEF Drain, DrainSubscribe
    <3>4. QED
      BY <2>4, <3>3, InvisibleStep DEF Drain, coreVars
  <2>5. CASE BuildCompletion
    BY <2>5, CompletionRefines DEF Durable!Next
  <2>6. QED
    BY <1>2, <2>1, <2>2, <2>3, <2>4, <2>5 DEF MachineStep
<1>3. CASE WorkflowStep
  <2>1. ASSUME NEW k \in Kinds, IssueOp(k) PROVE Durable!Next
    BY <2>1, IssueRefines DEF Durable!Next
  <2>2. CASE FailSerialization \/ SubscribeSignal
    BY <2>2, InvisibleStep DEF FailSerialization, SubscribeSignal, chanVars, machVars, coreVars
  <2>3. ASSUME NEW op \in Ops, Observe(op) PROVE Durable!Next
    BY <2>3, ObserveRefines DEF Durable!Next
  <2>4. ASSUME NEW op \in Ops, Abandon(op) PROVE UNCHANGED Durable!vars
    BY <2>4, InvisibleStep DEF Abandon, chanVars, machVars, coreVars
  <2>5. ASSUME NEW W \in SUBSET HeldSources, Park(W) PROVE UNCHANGED Durable!vars
    BY <2>5, InvisibleStep DEF Park, chanVars, coreVars
  <2>6. ASSUME NEW r \in {"ok", "err"}, Finish(r) PROVE UNCHANGED Durable!vars
    BY <2>6, InvisibleStep DEF Finish, chanVars, coreVars
  <2>7. QED
    BY <1>3, <2>1, <2>2, <2>3, <2>4, <2>5, <2>6 DEF WorkflowStep
<1>4. CASE UNCHANGED vars
  BY <1>4, InvisibleStep DEF vars, wfVars, chanVars, machVars, coreVars
<1>5. QED
  BY <1>1, <1>2, <1>3, <1>4 DEF Next

(* The machine implements DurableCommands.                                 *)
THEOREM Refinement == Spec => DurableSpec
BY InitRefines, StepRefines, Inductive, PTL DEF Spec, DurableSpec, Durable!Spec
==============================================================================
