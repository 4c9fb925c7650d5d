-------------------------- MODULE RaftClient_proofs --------------------------
(* Proofs about RaftClient: with its client, the cluster does nothing that *)
(* RaftNode does not allow, so all that is proved of RaftNode holds here.  *)
EXTENDS RaftClient, RaftNode_proofs

\* A call that is under way has a number within the bound.
CallInv ==
  /\ ClientTypeOK
  /\ waiting => call \in Op

ClientInv == TypeInv /\ CallInv

LEMMA ClientInitInv == ClientInit => ClientInv
  <1> SUFFICES ASSUME ClientInit PROVE ClientInv
    OBVIOUS
  <1>1. TypeInv
    BY InitType DEF ClientInit
  <1>2. 1 \in 1..Len(Endpoints)
    BY ClientAssumption
  <1>3. 1 \in 1..(MaxCalls + 1)
    BY ClientAssumption
  <1> QED
    BY <1>1, <1>2, <1>3 DEF ClientInit, ClientInv, CallInv, ClientTypeOK, TypeInv

\* What the client and the forwarding nodes hand to a node, RaftNode's clients
\* may hand it too.
LEMMA CallsAreSubmissions ==
  ASSUME ClientInv, NEW r \in calls \cup submissions, SubmitClientRequest(r)
  PROVE  Next
  <1>1. r.to \in Node /\ r.op \in Op
    BY DEF ClientInv, CallInv, ClientTypeOK, TypeOK
  <1>2. ASSUME AppendOperation(r.to, r.op) PROVE Next
    BY <1>1, <1>2 DEF Next
  <1>3. ASSUME ForwardSubmission(r.to, r.op) PROVE Next
    BY <1>1, <1>3 DEF Next
  <1> QED
    BY <1>2, <1>3 DEF SubmitClientRequest

LEMMA ClientStepRefines == ClientInv /\ [ClientNext]_<<vars, clientVars>> => [Next]_vars
  <1> SUFFICES ASSUME ClientInv, [ClientNext]_<<vars, clientVars>>
               PROVE  [Next]_vars
    OBVIOUS
  <1>1. CASE SendCall \/ GiveUp
    BY <1>1 DEF SendCall, GiveUp
  <1>2. ASSUME NEW t \in tasks, Committed(t) PROVE Next
    BY <1>2 DEF Committed, Next
  <1>3. ASSUME NEW r \in calls \cup submissions, SubmitClientRequest(r)
        PROVE  Next
    BY <1>3, CallsAreSubmissions
  <1>4. CASE NodeStep
    BY <1>4 DEF NodeStep, Next
  <1> QED
    BY <1>1, <1>2, <1>3, <1>4 DEF ClientNext

LEMMA CallStep ==
  ClientInv /\ [ClientNext]_<<vars, clientVars>> /\ TypeInv' => ClientInv'
  <1> SUFFICES ASSUME ClientInv, [ClientNext]_<<vars, clientVars>>, TypeInv'
               PROVE  CallInv'
    BY DEF ClientInv
  <1> USE DEF ClientInv, CallInv, ClientTypeOK, TypeInv
  <1>1. Op = [number : 1..MaxCalls, call : 1..MaxCalls] /\ MaxCalls \in Nat
    BY ClientAssumption
  <1>2. Len(Endpoints) \in Nat /\ 1 \in 1..Len(Endpoints)
    BY ClientAssumption
  <1>3. CASE SendCall
    <2>1. Endpoints[at] \in Node
      BY ClientAssumption
    <2> QED
      BY <1>3, <2>1 DEF SendCall
  <1>4. CASE GiveUp
    <2>1. NextEndpoint \in 1..Len(Endpoints)
      BY <1>2 DEF NextEndpoint
    <2>2. call \in [number : 1..MaxCalls, call : 1..MaxCalls]
      BY <1>1, <1>4 DEF GiveUp
    <2>3. call' \in [number : 1..(MaxCalls + 1), call : 1..(MaxCalls + 1)]
      BY <1>1, <1>4, <2>2 DEF GiveUp, Retry
    <2> QED
      BY <1>4, <2>1, <2>3 DEF GiveUp
  <1>5. ASSUME NEW t \in tasks, Committed(t) PROVE CallInv'
    <2>1. call \in [number : 1..MaxCalls, call : 1..MaxCalls]
      BY <1>1, <1>5 DEF Committed
    <2>2. call' \in [number : 1..(MaxCalls + 1), call : 1..(MaxCalls + 1)]
      BY <1>1, <1>5, <2>1 DEF Committed
    <2> QED
      BY <1>2, <1>5, <2>2 DEF Committed
  <1>6. ASSUME NEW r \in calls \cup submissions, SubmitClientRequest(r)
        PROVE  CallInv'
    BY <1>6 DEF SubmitClientRequest, TakesUp
  <1>7. CASE UNCHANGED clientVars
    BY <1>7 DEF clientVars
  <1> QED
    BY <1>3, <1>4, <1>5, <1>6, <1>7 DEF ClientNext

LEMMA ClientInvariant == ClientSpec => []ClientInv
  <1>1. ClientInv /\ [ClientNext]_<<vars, clientVars>> => ClientInv'
    BY ClientStepRefines, TypeStep, CallStep DEF ClientInv
  <1> QED
    BY <1>1, ClientInitInv, PTL DEF ClientSpec

\* The cluster with its client implements the node model, whose clients may do
\* anything: every theorem about RaftNode is one about the closed system.
THEOREM ClientImplementsNodes == ClientSpec => Spec
  <1>1. ClientInit => Init
    BY DEF ClientInit
  <1> QED
    BY <1>1, ClientInvariant, ClientStepRefines, PTL DEF ClientSpec, Spec

\* The client and the calls it has under way have their types.
THEOREM ClientTypeCorrect == ClientSpec => []ClientTypeOK
  <1>1. ClientInv => ClientTypeOK
    BY DEF ClientInv, CallInv
  <1> QED
    BY <1>1, ClientInvariant, PTL

-----------------------------------------------------------------------------
(* What the client has moved on from, with a single leader.                *)

\* A report, or the task it comes from, is about a place in the leader's log.
InLog(r, l) == r.index \in 1..Len(log[l]) /\ log[l][r.index].op = r.op

HasReports ==
  \A k \in 1..(call.number - 1) : \E r \in reported : r.op.number = k

\* Nothing is under way but what the client has got to.
CallsSoFar == \A s \in calls \cup submissions : s.op.number <= call.number

InOrder(s) ==
  \A i \in 1..Len(s) :
    \/ s[i].op.number = 1
    \/ \E j \in 1..(i - 1) : s[j].op.number = s[i].op.number - 1

OrderInv ==
  \A l \in Node : Candidates = {l} =>
    /\ \A r \in tasks \cup reported : InLog(r, l)
    /\ HasReports /\ CallsSoFar /\ InOrder(log[l])

LEMMA OrderStart == ClientInit => OrderInv
  BY DEF ClientInit, Init, OrderInv, HasReports, CallsSoFar, InOrder

\* An operation is appended after the one before it, which was reported.
LEMMA AppendInOrder ==
  ASSUME ClientInv, SingleInv, OrderInv, NEW l \in Node, Candidates = {l},
         NEW n \in Node, NEW op \in Op, op.number <= call.number,
         AppendOperation(n, op)
  PROVE  /\ \A r \in tasks' \cup reported' : InLog(r, l)'
         /\ InOrder(log'[l])
  <1> DEFINE e == [op |-> op, term |-> term[n], index |-> Len(log[n]) + 1]
             q == [node |-> n, index |-> Len(log[n]) + 1, op |-> op,
                   phase |-> "appended", ahead |-> {}]
  <1>1. n = l
    BY DEF AppendOperation, SingleInv, OnlyLeads
  <1>2. /\ log \in [Node -> Seq(Entry)] /\ e \in Entry
        /\ log' = [log EXCEPT ![n] = Append(@, e)]
    <2>1. log \in [Node -> Seq(Entry)] /\ term[n] \in Nat
      BY DEF ClientInv, TypeInv, TypeOK
    <2>2. Len(log[n]) + 1 \in Index
      BY <2>1, BoundAssumption DEF AppendOperation, Index
    <2>3. log' = [log EXCEPT ![n] = Append(@, e)]
      BY DEF AppendOperation, NextIndex
    <2> QED
      BY <2>1, <2>2, <2>3 DEF Entry
  <1>3. tasks' = tasks \cup {q} /\ reported' = reported
    BY DEF AppendOperation, NextIndex, history
  <1>4. e.op = op /\ q.index = Len(log[l]) + 1 /\ q.op = op
    BY <1>1
  <1> HIDE DEF e, q
  <1>5. /\ Len(log'[l]) = Len(log[l]) + 1 /\ Len(log[l]) \in Nat
        /\ \A i \in 1..Len(log[l]) : log'[l][i] = log[l][i]
        /\ log'[l][Len(log[l]) + 1] = e
    BY <1>1, <1>2
  <1>6. \A r \in tasks' \cup reported' : InLog(r, l)'
    BY <1>3, <1>4, <1>5 DEF OrderInv, InLog
  <1>7. \/ op.number = 1
        \/ \E j \in 1..Len(log[l]) : log[l][j].op.number = op.number - 1
    <2>1. op.number \in Nat \ {0} /\ call.number \in Nat
      BY ClientAssumption DEF ClientInv, CallInv, ClientTypeOK
    <2>2. CASE op.number # 1
      <3>1. op.number - 1 \in 1..(call.number - 1)
        BY <2>1, <2>2
      <3>2. PICK r \in reported : r.op.number = op.number - 1
        BY <3>1 DEF OrderInv, HasReports
      <3>3. InLog(r, l)
        BY DEF OrderInv
      <3> QED
        BY <3>2, <3>3 DEF InLog
    <2> QED
      BY <2>2
  <1>8. InOrder(log'[l])
    <2> SUFFICES ASSUME NEW i \in 1..Len(log'[l]), log'[l][i].op.number # 1
                 PROVE  \E j \in 1..(i - 1) :
                          log'[l][j].op.number = log'[l][i].op.number - 1
      BY DEF InOrder
    <2>1. CASE i = Len(log[l]) + 1
      <3>1. log'[l][i].op = op /\ i - 1 = Len(log[l])
        BY <1>4, <1>5, <2>1
      <3>2. PICK j \in 1..Len(log[l]) : log[l][j].op.number = op.number - 1
        BY <1>7, <3>1
      <3>3. j \in 1..(i - 1) /\ log'[l][j] = log[l][j]
        BY <1>5, <3>1
      <3> QED
        BY <3>1, <3>2, <3>3
    <2>2. CASE i \in 1..Len(log[l])
      <3>1. InOrder(log[l]) /\ log'[l][i] = log[l][i]
        BY <1>5, <2>2 DEF OrderInv
      <3>2. PICK j \in 1..(i - 1) :
              log[l][j].op.number = log[l][i].op.number - 1
        BY <2>2, <3>1 DEF InOrder
      <3>3. j \in 1..Len(log[l])
        BY <1>5, <2>2
      <3> QED
        BY <1>5, <3>1, <3>2, <3>3
    <2> QED
      BY <1>5, <2>1, <2>2
  <1> QED
    BY <1>6, <1>8

\* No other step changes the leader's log.
LEMMA NodeStepKeeps ==
  ASSUME ClientInv, SingleInv, OrderInv, NodeStep, NEW l \in Node,
         Candidates = {l}
  PROVE  /\ log'[l] = log[l] /\ reported \subseteq reported'
         /\ \A r \in tasks' \cup reported' : InLog(r, l)
         /\ submissions' \subseteq submissions
  <1>1. OnlyLeads(l) /\ \A r \in tasks \cup reported : InLog(r, l)
    BY DEF SingleInv, OrderInv
  <1>2. ASSUME NEW m \in appendRequests, NEW inTime \in BOOLEAN,
               AppendEntries(m, inTime)
        PROVE  log'[l] = log[l] /\ UNCHANGED <<tasks, reported, submissions>>
    BY <1>1, <1>2
    DEF AppendEntries, history, OnlyLeads, ClientInv, TypeInv, TypeOK
  <1>3. ASSUME NEW t \in tasks, BroadcastAppendOne(t)
        PROVE  /\ UNCHANGED <<log, reported, submissions>>
               /\ \A r \in tasks' : InLog(r, l)
    <2> DEFINE q == [t EXCEPT !.phase = "sent",
                              !.ahead = {p \in Node : term[p] > term[t.node]}]
    <2>1. /\ tasks' = (tasks \ {t}) \cup {q}
          /\ UNCHANGED <<log, reported, submissions>>
      BY <1>3 DEF BroadcastAppendOne, logVars, history
    <2>2. q.index = t.index /\ q.op = t.op
      BY DEF ClientInv, TypeInv, TypeOK, Task
    <2> HIDE DEF q
    <2> QED
      BY <1>1, <2>1, <2>2 DEF InLog
  <1>4. ASSUME NEW t \in tasks, CommitOperation(t)
        PROVE  /\ UNCHANGED <<log, submissions>> /\ tasks' \subseteq tasks
               /\ reported \subseteq reported'
               /\ \A r \in reported' : InLog(r, l)
    <2> DEFINE q == [node |-> t.node, index |-> t.index, op |-> t.op,
                     ahead |-> t.ahead]
    <2>1. /\ reported' = reported \cup {q} /\ tasks' = tasks \ {t}
          /\ UNCHANGED <<log, submissions>>
      BY <1>4 DEF CommitOperation, netVars
    <2>2. q.index = t.index /\ q.op = t.op
      OBVIOUS
    <2> HIDE DEF q
    <2> QED
      BY <1>1, <2>1, <2>2 DEF InLog
  <1>5. ASSUME UNCHANGED <<log, reported, submissions>>, tasks' \subseteq tasks
        PROVE  /\ log'[l] = log[l] /\ reported \subseteq reported'
               /\ \A r \in tasks' \cup reported' : InLog(r, l)
               /\ submissions' \subseteq submissions
    BY <1>1, <1>5
  <1> QED
    BY <1>1, <1>2, <1>3, <1>4, <1>5
    DEF NodeStep, StartElection, VoteAnswered, VoteAbandoned, WinElection,
        LoseElection, HeartbeatCheck, HeartbeatSend, ForwardReturns,
        LateVoteRequest, RejectAppendEntries, FailOperation, logVars, netVars,
        history

LEMMA OrderStep ==
  ClientInv /\ SingleInv /\ OrderInv /\ [ClientNext]_<<vars, clientVars>>
    => OrderInv'
  <1> SUFFICES ASSUME ClientInv, SingleInv, OrderInv,
                      [ClientNext]_<<vars, clientVars>>,
                      NEW l \in Node, Candidates = {l}
               PROVE  /\ \A r \in tasks' \cup reported' : InLog(r, l)'
                      /\ HasReports' /\ CallsSoFar' /\ InOrder(log'[l])
    BY DEF OrderInv
  <1>1. /\ \A r \in tasks \cup reported : InLog(r, l)
        /\ HasReports /\ CallsSoFar /\ InOrder(log[l])
        /\ call.number \in Nat
        /\ \A s \in calls \cup submissions : s.op.number \in Nat
    <2>1. \A op \in Op : op.number \in Nat
      BY ClientAssumption
    <2>2. call.number \in 1..(MaxCalls + 1) /\ MaxCalls \in Nat
      BY ClientAssumption DEF ClientInv, CallInv, ClientTypeOK
    <2>3. \A s \in calls \cup submissions : s.op \in Op
      BY DEF ClientInv, CallInv, ClientTypeOK, TypeInv, TypeOK
    <2> QED
      BY <2>1, <2>2, <2>3 DEF OrderInv
  <1>2. CASE SendCall
    <2> DEFINE c == [to |-> Endpoints[at], op |-> call]
    <2>1. calls' = calls \cup {c} /\ UNCHANGED <<vars, call>>
      BY <1>2 DEF SendCall
    <2>2. c.op = call
      OBVIOUS
    <2> HIDE DEF c
    <2>3. UNCHANGED <<tasks, reported, log, submissions>>
      BY <2>1 DEF vars, logVars, netVars, history
    <2> QED
      BY <1>1, <2>1, <2>2, <2>3 DEF HasReports, CallsSoFar, InLog
  <1>3. ASSUME UNCHANGED <<tasks, reported, log, submissions, calls>>,
               call'.number = call.number
        PROVE  /\ \A r \in tasks' \cup reported' : InLog(r, l)'
               /\ HasReports' /\ CallsSoFar' /\ InOrder(log'[l])
    BY <1>1, <1>3 DEF HasReports, CallsSoFar, InLog
  <1>4. CASE GiveUp
    <2>1. call'.number = call.number
      BY <1>4 DEF GiveUp, Retry, ClientInv, CallInv, ClientTypeOK
    <2> QED
      BY <1>3, <1>4, <2>1 DEF GiveUp, vars, logVars, netVars, history
  <1>5. ASSUME NEW t \in tasks, Committed(t)
        PROVE  /\ \A r \in tasks' \cup reported' : InLog(r, l)'
               /\ HasReports' /\ CallsSoFar' /\ InOrder(log'[l])
    <2>1. CommitOperation(t)
      BY <1>5 DEF Committed
    <2>2. NodeStep
      BY <2>1 DEF NodeStep
    <2>3. /\ log'[l] = log[l] /\ reported \subseteq reported'
          /\ \A r \in tasks' \cup reported' : InLog(r, l)
          /\ submissions' \subseteq submissions
      BY <2>2, NodeStepKeeps
    <2>4. call'.number = call.number + 1 /\ calls' = calls /\ t.op = call
      BY <1>5 DEF Committed
    <2>5. \E r \in reported' : r.op = t.op
      <3> DEFINE q == [node |-> t.node, index |-> t.index, op |-> t.op,
                       ahead |-> t.ahead]
      <3>1. q \in reported' /\ q.op = t.op
        BY <2>1 DEF CommitOperation
      <3> QED
        BY <3>1
    <2>6. HasReports'
      <3> SUFFICES ASSUME NEW k \in 1..call.number
                   PROVE  \E r \in reported' : r.op.number = k
        BY <1>1, <2>4 DEF HasReports
      <3>1. CASE k = call.number
        BY <2>4, <2>5, <3>1
      <3>2. CASE k # call.number
        <4>1. k \in 1..(call.number - 1)
          BY <1>1, <3>2
        <4> QED
          BY <1>1, <2>3, <4>1 DEF HasReports
      <3> QED
        BY <3>1, <3>2
    <2>7. CallsSoFar'
      BY <1>1, <2>3, <2>4 DEF CallsSoFar
    <2> QED
      BY <1>1, <2>3, <2>6, <2>7 DEF InLog
  <1>6. ASSUME NEW s \in calls \cup submissions, SubmitClientRequest(s)
        PROVE  /\ \A r \in tasks' \cup reported' : InLog(r, l)'
               /\ HasReports' /\ CallsSoFar' /\ InOrder(log'[l])
    <2>1. /\ s.to \in Node /\ s.op \in Op /\ s.op.number <= call.number
          /\ UNCHANGED call
      BY <1>1, <1>6
      DEF SubmitClientRequest, CallsSoFar, ClientInv, CallInv, ClientTypeOK,
          TypeInv, TypeOK
    <2>2. CASE /\ TakesUp(s, {}) /\ AppendOperation(s.to, s.op)
      <3>1. /\ reported' = reported /\ calls' \subseteq calls
            /\ submissions' \subseteq submissions
        BY <2>2 DEF TakesUp, AppendOperation, history
      <3>2. HasReports' /\ CallsSoFar'
        BY <1>1, <2>1, <3>1 DEF HasReports, CallsSoFar
      <3> QED
        BY <2>1, <2>2, <3>2, AppendInOrder
    <2>3. CASE ForwardSubmission(s.to, s.op)
      <3> DEFINE c == [to |-> currentLeaderId[s.to], op |-> s.op]
      <3>1. /\ calls' \subseteq calls /\ submissions' \subseteq submissions \cup {c}
            /\ UNCHANGED <<tasks, reported, log>>
        BY <2>3 , <1>6
        DEF SubmitClientRequest, TakesUp, ForwardSubmission, Remaining,
            logVars, history
      <3>2. c.op = s.op
        OBVIOUS
      <3> HIDE DEF c
      <3> QED
        BY <1>1, <2>1, <3>1, <3>2 DEF HasReports, CallsSoFar, InLog
    <2> QED
      BY <1>6, <2>2, <2>3 DEF SubmitClientRequest
  <1>7. CASE NodeStep /\ UNCHANGED clientVars
    <2>1. /\ log'[l] = log[l] /\ reported \subseteq reported'
          /\ \A r \in tasks' \cup reported' : InLog(r, l)
          /\ submissions' \subseteq submissions
      BY <1>7, NodeStepKeeps
    <2>2. call' = call /\ calls' = calls
      BY <1>7 DEF clientVars
    <2> QED
      BY <1>1, <2>1, <2>2 DEF HasReports, CallsSoFar, InLog
  <1>8. CASE UNCHANGED <<vars, clientVars>>
    BY <1>3, <1>8 DEF vars, clientVars, logVars, netVars, history
  <1> QED
    BY <1>2, <1>4, <1>5, <1>6, <1>7, <1>8 DEF ClientNext

LEMMA OrderInvariant == ClientSpec => []OrderInv
  <1>1. ClientInit => SingleInv
    BY SingleStart DEF ClientInit
  <1>2. ClientInv /\ SingleInv /\ [ClientNext]_<<vars, clientVars>> => SingleInv'
    BY ClientStepRefines, SingleStep DEF ClientInv
  <1> QED
    BY <1>1, <1>2, OrderStart, OrderStep, ClientInvariant, PTL DEF ClientSpec

\* With a leader that is never deposed, what the client has moved on from stays
\* in the leader's log, whatever followers acked without storing it.
THEOREM MovedOnStays == ClientSpec => []MovedOnIsLogged
  <1>1. OrderInv => MovedOnIsLogged
    BY DEF OrderInv, InLog, HasReports, MovedOnIsLogged
  <1> QED
    BY <1>1, OrderInvariant, PTL

\* Late and repeated calls never bring an operation into the leader's log before
\* the one submitted before it, for any number of calls and nodes.
THEOREM OperationsOrdered == ClientSpec => []OperationsInOrder
  <1>1. OrderInv => OperationsInOrder
    BY DEF OrderInv, InOrder, OperationsInOrder
  <1> QED
    BY <1>1, OrderInvariant, PTL
=============================================================================
