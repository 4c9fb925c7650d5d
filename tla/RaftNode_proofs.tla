--------------------------- MODULE RaftNode_proofs ---------------------------
(* Proofs about RaftNode, for every cluster and every value of the bounds. *)
EXTENDS RaftNode, TLAPS, FiniteSetTheorems

-----------------------------------------------------------------------------
(* Types.                                                                  *)

\* The entry of a submission being served is in the log: 142 can read it.
TasksLogged == \A t \in tasks : t.index \in 1..Len(log[t.node])

TypeInv == TypeOK /\ TasksLogged

\* A callee is a peer of its caller.
LEMMA CalleeIsPeer ==
  ASSUME TypeOK, NEW n \in Node, Calling(n)
  PROVE  Callee(n) \in Node \ {n}
  <1>1. election[n].next \in Nat \ {0}
    BY DEF TypeOK
  <1>2. /\ PeersOf(n) = Node \ {n}
        /\ Peers[n] \in Seq(Node)
    BY PeersAssumption DEF PeersAssumption
  <1>3. election[n].next \in 1..Len(Peers[n])
    BY <1>1, <1>2 DEF Calling
  <1> QED
    BY <1>2, <1>3 DEF Callee, PeersOf

\* Adding a peer's vote, handling a vote request.
LEMMA RequestVoteType ==
  ASSUME TypeOK, NEW p \in Node, NEW c \in Node, NEW t \in Nat,
         RequestVote(p, c, t)
  PROVE  /\ term' \in [Node -> Nat]
         /\ state' \in [Node -> {"follower", "candidate", "leader"}]
         /\ votedFor' \in [Node -> NodeOrNone]
         /\ grants' \subseteq [voter : Node, candidate : Node, term : Nat]
  <1> USE DEF RequestVote
  <1>1. term' \in [Node -> Nat]
    BY DEF TypeOK, Larger
  <1>2. state' \in [Node -> {"follower", "candidate", "leader"}]
    BY DEF TypeOK
  <1>3. votedFor' \in [Node -> NodeOrNone]
    BY DEF TypeOK, NodeOrNone, Granted
  <1>4. grants' \subseteq [voter : Node, candidate : Node, term : Nat]
    BY SMTT(30) DEF TypeOK
  <1> QED
    BY <1>1, <1>2, <1>3, <1>4

LEMMA InitType == Init => TypeInv
  <1> SUFFICES ASSUME Init PROVE TypeInv
    OBVIOUS
  <1>1. log \in [Node -> Seq(Entry)]
    BY DEF Init
  <1> QED
    BY <1>1, BoundAssumption DEF Init, TypeInv, TypeOK, TasksLogged, Idle, NodeOrNone

ElectionType == [term : Nat, next : Nat \ {0}, votes : SUBSET Node]

\* The requests a node sends have their type when their entries do.
LEMMA AppendsType ==
  ASSUME TypeOK, NEW n \in Node, NEW entries \in Seq(Entry),
         NEW ackFor \in 0..MaxLog
  PROVE  Appends(n, entries, ackFor) \subseteq AppendRequest
  <1>1. PeersOf(n) = Node \ {n}
    BY PeersAssumption
  <1>2. term[n] \in Nat /\ commitIndex[n] \in Nat
    BY DEF TypeOK
  <1> QED
    BY <1>1, <1>2 DEF Appends, AppendRequest

\* Merging two logs gives a log no shorter than its own.
LEMMA MergeGrows ==
  ASSUME NEW own \in Seq(Entry), NEW received \in Seq(Entry)
  PROVE  /\ Merge(own, received) \in Seq(Entry)
         /\ Len(own) \in Nat
         /\ Len(Merge(own, received)) \in Nat
         /\ Len(Merge(own, received)) >= Len(own)
  <1>1. Len(own) \in Nat /\ Len(received) \in Nat
    OBVIOUS
  <1> QED
    BY <1>1 DEF Merge

\* TypeInv is inductive.
LEMMA TypeStep == TypeInv /\ [Next]_vars => TypeInv'
  <1> SUFFICES ASSUME TypeInv, [Next]_vars PROVE TypeInv'
    OBVIOUS
  <1> USE DEF TypeInv
  <1>1. ASSUME NEW n \in Node, StartElection(n) PROVE TypeInv'
    BY <1>1 DEF TypeOK, TasksLogged, StartElection, logVars, netVars, history
  <1>2. ASSUME NEW n \in Node, VoteAnswered(n) PROVE TypeInv'
    <2>1. Callee(n) \in Node /\ election[n] \in ElectionType
      BY <1>2, CalleeIsPeer DEF VoteAnswered, TypeOK, ElectionType
    <2>2. /\ term' \in [Node -> Nat]
          /\ state' \in [Node -> {"follower", "candidate", "leader"}]
          /\ votedFor' \in [Node -> NodeOrNone]
          /\ grants' \subseteq [voter : Node, candidate : Node, term : Nat]
      BY <1>2, <2>1, RequestVoteType DEF VoteAnswered, ElectionType
    <2>3. election' \in [Node -> ElectionType]
      BY <1>2, <2>1, SMTT(30) DEF VoteAnswered, TypeOK, ElectionType
    <2> QED
      BY <1>2, <2>2, <2>3
      DEF TypeOK, TasksLogged, VoteAnswered, logVars, netVars, ElectionType
  <1>3. ASSUME NEW n \in Node, VoteAbandoned(n) PROVE TypeInv'
    <2>1. Callee(n) \in Node /\ election[n] \in ElectionType
      BY <1>3, CalleeIsPeer DEF VoteAbandoned, TypeOK, ElectionType
    <2>2. election' \in [Node -> ElectionType]
      <3>1. /\ election \in [Node -> ElectionType]
            /\ election' = [election EXCEPT ![n].next = @ + 1]
        BY <1>3 DEF VoteAbandoned, TypeOK, ElectionType
      <3> QED
        BY <2>1, <3>1 DEF ElectionType
    <2>3. voteRequests' \subseteq [from : Node, to : Node, term : Nat]
      BY <1>3, <2>1, SMTT(30) DEF VoteAbandoned, TypeOK, ElectionType
    <2> QED
      BY <1>3, <2>2, <2>3
      DEF TypeOK, TasksLogged, VoteAbandoned, nodeVars, logVars, history,
          ElectionType
  <1>4. ASSUME NEW m \in voteRequests, LateVoteRequest(m) PROVE TypeInv'
    <2>1. m.to \in Node /\ m.from \in Node /\ m.term \in Nat
      BY DEF TypeOK
    <2> QED
      BY <1>4, <2>1, RequestVoteType
      DEF TypeOK, TasksLogged, LateVoteRequest, logVars
  <1>5. ASSUME NEW n \in Node, WinElection(n) PROVE TypeInv'
    <2>1. wins' \subseteq [node : Node, term : Nat, voters : SUBSET Node]
      BY <1>5 DEF TypeOK, WinElection, StartHeartbeat
    <2>2. beat' \in [Node -> [threads : Nat, ready : Nat]]
      <3>1. /\ beat \in [Node -> [threads : Nat, ready : Nat]]
            /\ beat' = [beat EXCEPT ![n].threads = @ + 1]
        BY <1>5 DEF TypeOK, WinElection, StartHeartbeat
      <3> QED
        BY <3>1
    <2>3. election' \in [Node -> ElectionType]
      BY <1>5 DEF TypeOK, WinElection, StartHeartbeat, Idle, ElectionType
    <2>4. /\ state' \in [Node -> {"follower", "candidate", "leader"}]
          /\ currentLeaderId' \in [Node -> NodeOrNone]
      BY <1>5 DEF TypeOK, WinElection, StartHeartbeat, NodeOrNone
    <2> QED
      BY <1>5, <2>1, <2>2, <2>3, <2>4
      DEF TypeOK, TasksLogged, WinElection, StartHeartbeat, logVars, netVars, ElectionType
  <1>6. ASSUME NEW n \in Node, LoseElection(n) PROVE TypeInv'
    BY <1>6 DEF TypeOK, TasksLogged, LoseElection, logVars, netVars, history, Idle
  <1>7. ASSUME NEW n \in Node, HeartbeatCheck(n) PROVE TypeInv'
    <2>1. beat' \in [Node -> [threads : Nat, ready : Nat]]
      BY <1>7 DEF TypeOK, HeartbeatCheck
    <2> QED
      BY <1>7, <2>1
      DEF TypeOK, TasksLogged, HeartbeatCheck, nodeVars, logVars, netVars, history
  <1>8. ASSUME NEW n \in Node, HeartbeatSend(n) PROVE TypeInv'
    <2>1. beat' \in [Node -> [threads : Nat, ready : Nat]]
      <3>1. /\ beat \in [Node -> [threads : Nat, ready : Nat]]
            /\ beat' = [beat EXCEPT ![n].ready = @ - 1]
            /\ beat[n].ready > 0
        BY <1>8 DEF TypeOK, HeartbeatSend
      <3> QED
        BY <3>1
    <2>2. log[n] \in Seq(Entry) /\ 0 \in 0..MaxLog
      BY BoundAssumption DEF TypeOK
    <2>3. appendRequests' \subseteq AppendRequest
      BY <1>8, <2>2, AppendsType DEF TypeOK, HeartbeatSend
    <2> QED
      BY <1>8, <2>1, <2>3
      DEF TypeOK, TasksLogged, HeartbeatSend, nodeVars, logVars, history
  <1>9. ASSUME NEW m \in appendRequests, RejectAppendEntries(m) PROVE TypeInv'
    BY <1>9
    DEF TypeOK, TasksLogged, RejectAppendEntries, nodeVars, logVars, history
  <1>10. ASSUME NEW m \in appendRequests, NEW inTime \in BOOLEAN,
                AppendEntries(m, inTime)
         PROVE  TypeInv'
    <2>1. m \in AppendRequest
      BY DEF TypeOK
    <2>2. /\ m.to \in Node /\ m.from \in Node /\ m.term \in Nat
          /\ m.log \in Seq(Entry) /\ m.commitIndex \in Nat
      BY <2>1 DEF AppendRequest
    <2>3. /\ state' \in [Node -> {"follower", "candidate", "leader"}]
          /\ term' \in [Node -> Nat]
          /\ currentLeaderId' \in [Node -> NodeOrNone]
      BY <1>10, <2>2 DEF TypeOK, AppendEntries, TermTaken, NodeOrNone
    <2>4. log' \in [Node -> Seq(Entry)]
      BY <1>10, <2>2 DEF TypeOK, AppendEntries, TermTaken, Merge
    <2>5. \A n \in Node : Len(log'[n]) >= Len(log[n])
      <3>1. log' = [log EXCEPT ![m.to] = Merge(@, m.log)]
        BY <1>10 DEF AppendEntries, TermTaken
      <3> QED
        BY <2>2, <3>1, MergeGrows, SMTT(30) DEF TypeOK
    <2>6. commitIndex' \in [Node -> Nat]
      BY <1>10, <2>2 DEF TypeOK, AppendEntries, TermTaken, Larger
    <2>7. pendingAcks' \in [Node -> [Index -> SUBSET Node]]
      <3>1. pendingAcks \in [Node -> [Index -> SUBSET Node]]
        BY DEF TypeOK
      <3>2. \/ pendingAcks' = pendingAcks
            \/ pendingAcks' = [pendingAcks EXCEPT
                                 ![m.from][m.ackFor] = @ \cup {m.to}]
        BY <1>10 DEF AppendEntries, TermTaken
      <3> QED
        BY <2>2, <3>1, <3>2, SMTT(30)
    <2>8. TasksLogged'
      <3>1. ASSUME NEW t \in tasks' PROVE t.index \in 1..Len(log'[t.node])
        <4>1. t \in Task /\ t.index \in 1..Len(log[t.node])
          BY <1>10 DEF AppendEntries, TermTaken, TypeOK, TasksLogged
        <4>2. t.node \in Node
          BY <4>1 DEF Task
        <4> QED
          BY <4>1, <4>2, <2>4, <2>5 DEF TypeOK
      <3> QED
        BY <3>1 DEF TasksLogged
    <2> QED
      BY <1>10, <2>3, <2>4, <2>6, <2>7, <2>8 DEF TypeOK, AppendEntries, TermTaken, history
  <1>11. ASSUME NEW n \in Node, NEW op \in Op, AppendOperation(n, op)
         PROVE  TypeInv'
    <2>1. /\ log[n] \in Seq(Entry) /\ term[n] \in Nat
          /\ Len(log[n]) + 1 \in Index
      BY <1>11, BoundAssumption DEF TypeOK, AppendOperation, Index
    <2>2. [op |-> op, term |-> term[n], index |-> Len(log[n]) + 1] \in Entry
      BY <2>1 DEF Entry
    <2>3. /\ log' \in [Node -> Seq(Entry)]
          /\ \A p \in Node : Len(log'[p]) >= Len(log[p])
          /\ Len(log'[n]) = Len(log[n]) + 1
      BY <1>11, <2>1, <2>2 DEF TypeOK, AppendOperation, NextIndex
    <2>4. pendingAcks' \in [Node -> [Index -> SUBSET Node]]
      BY <1>11, <2>1 DEF TypeOK, AppendOperation, NextIndex
    <2>5. tasks' \subseteq Task
      BY <1>11, <2>1 DEF TypeOK, AppendOperation, NextIndex, Task
    <2>6. submissions' \subseteq [to : Node, op : Op]
      BY <1>11 DEF TypeOK, AppendOperation, Remaining
    <2>7. TasksLogged'
      <3>1. ASSUME NEW t \in tasks' PROVE t.index \in 1..Len(log'[t.node])
        <4>1. CASE t \in tasks
          <5>1. t.node \in Node /\ t.index \in 1..Len(log[t.node])
            BY <4>1 DEF TypeOK, Task, TasksLogged
          <5> QED
            BY <5>1, <2>3, SMTT(30) DEF TypeOK
        <4>2. CASE t \notin tasks
          <5>1. t.node = n /\ t.index = Len(log[n]) + 1
            BY <1>11, <4>2 DEF AppendOperation, NextIndex
          <5> QED
            BY <5>1, <2>1, <2>3
        <4> QED
          BY <4>1, <4>2
      <3> QED
        BY <3>1 DEF TasksLogged
    <2> QED
      BY <1>11, <2>3, <2>4, <2>5, <2>6, <2>7
      DEF TypeOK, AppendOperation, nodeVars, history
  <1>12. ASSUME NEW t \in tasks, BroadcastAppendOne(t) PROVE TypeInv'
    <2>1. t \in Task /\ t.index \in 1..Len(log[t.node])
      BY DEF TypeOK, TasksLogged
    <2>2. t.node \in Node /\ t.index \in 0..MaxLog
      BY <2>1, BoundAssumption DEF Task, Index
    <2>3. <<log[t.node][t.index]>> \in Seq(Entry)
      BY <2>1, <2>2 DEF TypeOK
    <2>4. appendRequests' \subseteq AppendRequest
      BY <1>12, <2>2, <2>3, AppendsType DEF TypeOK, BroadcastAppendOne
    <2>5. tasks' \subseteq Task
      <3>1. [t EXCEPT !.phase = "sent", !.ahead = {p \in Node : term[p] > term[t.node]}]
              \in Task
        BY <2>1 DEF Task
      <3> QED
        BY <1>12, <3>1 DEF TypeOK, BroadcastAppendOne
    <2>6. TasksLogged'
      <3>1. ASSUME NEW u \in tasks' PROVE u.index \in 1..Len(log'[u.node])
        <4>1. PICK v \in tasks : u.index = v.index /\ u.node = v.node
          BY <1>12, <2>1 DEF BroadcastAppendOne, Task
        <4> QED
          BY <1>12, <4>1 DEF TasksLogged, BroadcastAppendOne, logVars
      <3> QED
        BY <3>1 DEF TasksLogged
    <2> QED
      BY <1>12, <2>4, <2>5, <2>6
      DEF TypeOK, BroadcastAppendOne, nodeVars, logVars, history
  <1>13. ASSUME NEW t \in tasks, CommitOperation(t) PROVE TypeInv'
    BY <1>13, SMTT(30)
    DEF TypeOK, TasksLogged, CommitOperation, Task, Index, nodeVars, netVars
  <1>14. ASSUME NEW t \in tasks, FailOperation(t) PROVE TypeInv'
    BY <1>14
    DEF TypeOK, TasksLogged, FailOperation, nodeVars, logVars, netVars, history
  <1>15. ASSUME NEW n \in Node, NEW op \in Op, ForwardSubmission(n, op)
         PROVE  TypeInv'
    <2>1. currentLeaderId[n] \in Node
      BY <1>15 DEF TypeOK, ForwardSubmission, NodeOrNone
    <2>2. submissions' \subseteq [to : Node, op : Op]
      BY <1>15, <2>1 DEF TypeOK, ForwardSubmission, Remaining
    <2> QED
      BY <1>15, <2>2
      DEF TypeOK, TasksLogged, ForwardSubmission, nodeVars, logVars, history
  <1>16. ASSUME NEW n \in Node, ForwardReturns(n) PROVE TypeInv'
    BY <1>16
    DEF TypeOK, TasksLogged, ForwardReturns, nodeVars, logVars, netVars, history
  <1>17. CASE UNCHANGED vars
    BY <1>17
    DEF TypeOK, TasksLogged, vars, nodeVars, logVars, netVars, history
  <1> QED
    BY <1>1, <1>2, <1>3, <1>4, <1>5, <1>6, <1>7, <1>8, <1>9, <1>10, <1>11, <1>12,
       <1>13, <1>14, <1>15, <1>16, <1>17
    DEF Next

\* Types need a task's entry to stay in its node's log.
LEMMA TypeInvariant == Spec => []TypeInv
  <1> QED
    BY InitType, TypeStep, PTL DEF Spec

\* Every variable has its type.
THEOREM TypeCorrect == Spec => []TypeOK
  <1>1. TypeInv => TypeOK
    BY DEF TypeInv
  <1> QED
    BY <1>1, TypeInvariant, PTL

-----------------------------------------------------------------------------
(* Terms.                                                                  *)

\* No step lowers a term, and what RequestVote granted stays granted.
LEMMA StepGrows ==
  ASSUME TypeInv, [Next]_vars
  PROVE  /\ \A n \in Node : term'[n] >= term[n]
         /\ grants \subseteq grants'
  <1> USE DEF TypeInv
  <1>0. term \in [Node -> Nat]
    BY DEF TypeOK
  <1>1. ASSUME NEW p \in Node, NEW c \in Node, NEW t \in Nat, RequestVote(p, c, t)
        PROVE  (\A n \in Node : term'[n] >= term[n]) /\ grants \subseteq grants'
    BY <1>0, <1>1 DEF RequestVote, Larger
  <1>2. ASSUME NEW n \in Node, StartElection(n)
        PROVE  (\A p \in Node : term'[p] >= term[p]) /\ grants \subseteq grants'
    BY <1>0, <1>2 DEF StartElection, history
  <1>3. ASSUME NEW n \in Node, VoteAnswered(n)
        PROVE  (\A p \in Node : term'[p] >= term[p]) /\ grants \subseteq grants'
    <2>1. Callee(n) \in Node /\ election[n].term \in Nat
      BY <1>3, CalleeIsPeer DEF VoteAnswered, TypeOK
    <2> QED
      BY <1>1, <1>3, <2>1 DEF VoteAnswered
  <1>4. ASSUME NEW m \in voteRequests, LateVoteRequest(m)
        PROVE  (\A p \in Node : term'[p] >= term[p]) /\ grants \subseteq grants'
    <2>1. m.to \in Node /\ m.from \in Node /\ m.term \in Nat
      BY DEF TypeOK
    <2> QED
      BY <1>1, <1>4, <2>1 DEF LateVoteRequest
  <1>5. ASSUME NEW m \in appendRequests, NEW inTime \in BOOLEAN,
               AppendEntries(m, inTime)
        PROVE  (\A p \in Node : term'[p] >= term[p]) /\ grants \subseteq grants'
    <2>1. m.to \in Node /\ m.term \in Nat
      BY DEF TypeOK, AppendRequest
    <2> QED
      BY <1>0, <1>5, <2>1 DEF AppendEntries, TermTaken, Old, history
  <1>6. ASSUME term' = term, grants' = grants
        PROVE  (\A p \in Node : term'[p] >= term[p]) /\ grants \subseteq grants'
    BY <1>0, <1>6
  <1> QED
    BY <1>2, <1>3, <1>4, <1>5, <1>6
    DEF Next, VoteAbandoned, WinElection, LoseElection, HeartbeatCheck,
        HeartbeatSend, RejectAppendEntries, AppendOperation, BroadcastAppendOne,
        CommitOperation, FailOperation, ForwardSubmission, ForwardReturns, vars,
        nodeVars, history

\* A deposed leader stays deposed.
THEOREM TermsNeverFall == Spec => TermNeverFalls
  <1>1. TypeInv /\ [Next]_vars => [\A n \in Node : term'[n] >= term[n]]_vars
    BY StepGrows
  <1> QED
    BY <1>1, TypeInvariant, PTL DEF Spec, TermNeverFalls

-----------------------------------------------------------------------------
(* Votes.                                                                  *)

\* A grant is of a term its voter has reached, and voted_for remembers the
\* grant of the voter's current term.
GrantsHeld ==
  \A g \in grants :
    /\ g.term <= term[g.voter]
    /\ g.term = term[g.voter] => votedFor[g.voter] = g.candidate

GrantInv == OneGrantPerTerm /\ GrantsHeld

LEMMA RequestVoteGrant ==
  ASSUME TypeOK, GrantInv, NEW p \in Node, NEW c \in Node, NEW t \in Nat,
         RequestVote(p, c, t)
  PROVE  GrantInv'
  <1> DEFINE new == [voter |-> p, candidate |-> c, term |-> t]
  <1>1. /\ term \in [Node -> Nat] /\ votedFor \in [Node -> NodeOrNone]
        /\ grants \subseteq [voter : Node, candidate : Node, term : Nat]
    BY DEF TypeOK
  <1>2. /\ term' = [term EXCEPT ![p] = Larger(t, @)]
        /\ votedFor' = [votedFor EXCEPT ![p] = IF Granted(p, c, t) THEN c ELSE @]
        /\ grants' = IF Granted(p, c, t) THEN grants \cup {new} ELSE grants
    BY DEF RequestVote
  <1>3. CASE Granted(p, c, t)
    <2>1. /\ t >= term[p] /\ term'[p] = t /\ votedFor'[p] = c
          /\ grants' = grants \cup {new}
      BY <1>1, <1>2, <1>3 DEF Granted, Larger
    <2>2. \A g \in grants : g.voter = p /\ g.term = t => g.candidate = c
      <3> SUFFICES ASSUME NEW g \in grants, g.voter = p, g.term = t
                   PROVE  g.candidate = c
        OBVIOUS
      <3>1. NoOne \notin Node /\ g.candidate \in Node
        BY <1>1, NodeAssumption
      <3> QED
        BY <1>1, <1>3, <2>1, <3>1 DEF Granted, GrantInv, GrantsHeld
    <2>3. OneGrantPerTerm'
      BY <1>1, <2>1, <2>2 DEF GrantInv, OneGrantPerTerm
    <2>4. GrantsHeld'
      <3> SUFFICES ASSUME NEW g \in grants'
                   PROVE  /\ g.term <= term'[g.voter]
                          /\ g.term = term'[g.voter]
                               => votedFor'[g.voter] = g.candidate
        BY DEF GrantsHeld
      <3>1. CASE g = new
        BY <1>1, <2>1, <3>1
      <3>2. CASE g \in grants /\ g.voter = p
        BY <1>1, <2>1, <2>2, <3>2 DEF GrantInv, GrantsHeld
      <3>3. CASE g \in grants /\ g.voter # p
        BY <1>1, <1>2, <3>3 DEF GrantInv, GrantsHeld
      <3> QED
        BY <2>1, <3>1, <3>2, <3>3
    <2> QED
      BY <2>3, <2>4 DEF GrantInv
  <1>4. CASE ~Granted(p, c, t)
    <2>1. t <= term[p] /\ term' = term /\ votedFor' = votedFor /\ grants' = grants
      BY <1>1, <1>2, <1>4 DEF Granted, Larger
    <2> QED
      BY <2>1 DEF GrantInv, OneGrantPerTerm, GrantsHeld
  <1> QED
    BY <1>3, <1>4

\* A term that grows by itself keeps GrantInv: its grants are of older terms.
LEMMA RaisedTermGrant ==
  ASSUME TypeOK, GrantInv, votedFor' = votedFor, grants' = grants,
         term' \in [Node -> Nat], \A n \in Node : term'[n] >= term[n]
  PROVE  GrantInv'
  <1>1. \A g \in grants : g.voter \in Node /\ g.term \in Nat
    BY DEF TypeOK
  <1>2. OneGrantPerTerm'
    BY DEF GrantInv, OneGrantPerTerm
  <1>3. GrantsHeld'
    BY <1>1, SMTT(30) DEF GrantInv, GrantsHeld, TypeOK
  <1> QED
    BY <1>2, <1>3 DEF GrantInv

LEMMA GrantStep == TypeInv /\ GrantInv /\ [Next]_vars => GrantInv'
  <1> SUFFICES ASSUME TypeInv, GrantInv, [Next]_vars PROVE GrantInv'
    OBVIOUS
  <1>1. TypeOK
    BY DEF TypeInv
  <1>2. /\ term' \in [Node -> Nat]
        /\ \A n \in Node : term'[n] >= term[n]
    BY TypeStep, StepGrows DEF TypeInv, TypeOK
  <1>3. ASSUME NEW n \in Node, VoteAnswered(n) PROVE GrantInv'
    <2>1. Callee(n) \in Node /\ election[n].term \in Nat
      BY <1>1, <1>3, CalleeIsPeer DEF VoteAnswered, TypeOK
    <2> QED
      BY <1>1, <1>3, <2>1, RequestVoteGrant DEF VoteAnswered
  <1>4. ASSUME NEW m \in voteRequests, LateVoteRequest(m) PROVE GrantInv'
    <2>1. m.to \in Node /\ m.from \in Node /\ m.term \in Nat
      BY <1>1 DEF TypeOK
    <2> QED
      BY <1>1, <1>4, <2>1, RequestVoteGrant DEF LateVoteRequest
  <1>5. ASSUME votedFor' = votedFor, grants' = grants PROVE GrantInv'
    BY <1>1, <1>2, <1>5, RaisedTermGrant
  <1> QED
    BY <1>3, <1>4, <1>5
    DEF Next, StartElection, AppendEntries, VoteAbandoned, WinElection,
        LoseElection, HeartbeatCheck, HeartbeatSend, RejectAppendEntries,
        AppendOperation, BroadcastAppendOne, CommitOperation, FailOperation,
        ForwardSubmission, ForwardReturns, vars, nodeVars, history

\* No node grants its vote to two candidates in a term.
THEOREM GrantsAgree == Spec => []OneGrantPerTerm
  <1>1. Init => GrantInv
    BY DEF Init, GrantInv, OneGrantPerTerm, GrantsHeld
  <1>2. GrantInv => OneGrantPerTerm
    BY DEF GrantInv
  <1> QED
    BY <1>1, <1>2, GrantStep, TypeInvariant, PTL DEF Spec

-----------------------------------------------------------------------------
(* Winners.                                                                *)

Vote(v, c, t) == [voter |-> v, candidate |-> c, term |-> t]

\* A candidate counts votes of others, each of which was granted to it.
VotesGranted ==
  \A n \in Node : \A v \in election[n].votes :
    v # n /\ Vote(v, n, election[n].term) \in grants

WinsGranted ==
  \A w \in wins :
    /\ \A v \in w.voters : v # w.node /\ Vote(v, w.node, w.term) \in grants
    /\ Cardinality(w.voters) + 1 >= Majority(w.node)

WinInv == VotesGranted /\ WinsGranted

LEMMA WinStep == TypeInv /\ WinInv /\ [Next]_vars => WinInv'
  <1> SUFFICES ASSUME TypeInv, WinInv, [Next]_vars PROVE WinInv'
    OBVIOUS
  <1>1. TypeOK /\ grants \subseteq grants'
    BY StepGrows DEF TypeInv
  <1>2. ASSUME wins' = wins PROVE WinsGranted'
    BY <1>1, <1>2 DEF WinInv, WinsGranted, Majority
  <1>3. ASSUME election' = election PROVE VotesGranted'
    BY <1>1, <1>3 DEF WinInv, VotesGranted
  <1>4. ASSUME NEW n \in Node, VoteAnswered(n) PROVE WinInv'
    <2> DEFINE e == election[n]
               p == Callee(n)
    <2>1. p \in Node \ {n} /\ election \in [Node -> ElectionType]
      BY <1>1, <1>4, CalleeIsPeer DEF VoteAnswered, TypeOK, ElectionType
    <2>2. /\ election' = [election EXCEPT ![n] =
                            [term |-> e.term, next |-> e.next + 1,
                             votes |-> IF Granted(p, n, e.term)
                                         THEN e.votes \cup {p} ELSE e.votes]]
          /\ grants' = IF Granted(p, n, e.term)
                         THEN grants \cup {Vote(p, n, e.term)} ELSE grants
          /\ wins' = wins
      BY <1>4 DEF VoteAnswered, RequestVote, Vote
    <2>3. VotesGranted'
      <3> SUFFICES ASSUME NEW q \in Node, NEW v \in election'[q].votes
                   PROVE  v # q /\ Vote(v, q, election'[q].term) \in grants'
        BY DEF VotesGranted
      <3>1. CASE q # n
        <4>1. election'[q] = election[q]
          BY <2>1, <2>2, <3>1
        <4> QED
          BY <1>1, <4>1 DEF WinInv, VotesGranted
      <3>2. CASE q = n
        <4>1. election'[n].term = e.term
          BY <2>1, <2>2
        <4>2. \/ v \in e.votes
              \/ Granted(p, n, e.term) /\ v = p
          BY <2>1, <2>2, <3>2
        <4> QED
          BY <1>1, <2>1, <2>2, <3>2, <4>1, <4>2 DEF WinInv, VotesGranted
      <3> QED
        BY <3>1, <3>2
    <2> QED
      BY <1>2, <2>2, <2>3 DEF WinInv
  <1>5. ASSUME NEW n \in Node, WinElection(n) PROVE WinInv'
    <2>1. election \in [Node -> ElectionType]
      BY <1>1 DEF TypeOK, ElectionType
    <2>2. VotesGranted'
      BY <1>1, <1>5, <2>1 DEF WinElection, StartHeartbeat, WinInv, VotesGranted, Idle
    <2>3. WinsGranted'
      <3> DEFINE win == [node |-> n, term |-> election[n].term,
                         voters |-> election[n].votes]
      <3>1. /\ wins' = wins \cup {win}
            /\ Cardinality(win.voters) + 1 >= Majority(n)
        BY <1>5 DEF WinElection, StartHeartbeat, Elected
      <3>2. \A v \in win.voters : v # n /\ Vote(v, n, win.term) \in grants'
        BY <1>1 DEF WinInv, VotesGranted
      <3> SUFFICES ASSUME NEW w \in wins'
                   PROVE  /\ \A v \in w.voters : /\ v # w.node
                                                /\ Vote(v, w.node, w.term) \in grants'
                          /\ Cardinality(w.voters) + 1 >= Majority(w.node)
        BY DEF WinsGranted, Majority
      <3>3. CASE w \in wins
        BY <1>1, <3>3 DEF WinInv, WinsGranted
      <3>4. CASE w = win
        BY <3>1, <3>2, <3>4
      <3> QED
        BY <3>1, <3>3, <3>4
    <2> QED
      BY <2>2, <2>3 DEF WinInv
  <1>6. ASSUME NEW n \in Node, wins' = wins,
               \E e \in [term : Nat, next : Nat, votes : {{}}] :
                 election' = [election EXCEPT ![n] = e]
        PROVE  WinInv'
    <2>1. election \in [Node -> ElectionType]
      BY <1>1 DEF TypeOK, ElectionType
    <2>2. VotesGranted'
      BY <1>1, <1>6, <2>1 DEF WinInv, VotesGranted
    <2> QED
      BY <1>2, <1>6, <2>2 DEF WinInv
  <1>7. ASSUME NEW n \in Node, StartElection(n) PROVE WinInv'
    <2>1. [term |-> term[n] + 1, next |-> 1, votes |-> {}]
            \in [term : Nat, next : Nat, votes : {{}}]
      BY <1>1 DEF TypeOK
    <2> QED
      BY <1>6, <1>7, <2>1 DEF StartElection, history
  <1>8. ASSUME NEW n \in Node, LoseElection(n) PROVE WinInv'
    BY <1>6, <1>8 DEF LoseElection, history, Idle
  <1>9. ASSUME NEW n \in Node, VoteAbandoned(n) PROVE WinInv'
    <2>1. election \in [Node -> ElectionType]
      BY <1>1 DEF TypeOK, ElectionType
    <2>2. \A q \in Node : /\ election'[q].votes = election[q].votes
                          /\ election'[q].term = election[q].term
      BY <1>9, <2>1 DEF VoteAbandoned, ElectionType
    <2>3. wins' = wins
      BY <1>9 DEF VoteAbandoned, history
    <2> QED
      BY <1>1, <1>2, <2>2, <2>3 DEF WinInv, VotesGranted
  <1>10. ASSUME wins' = wins, election' = election PROVE WinInv'
    BY <1>2, <1>3, <1>10 DEF WinInv
  <1> QED
    BY <1>4, <1>5, <1>7, <1>8, <1>9, <1>10
    DEF Next, LateVoteRequest, AppendEntries, HeartbeatCheck, HeartbeatSend,
        RejectAppendEntries, AppendOperation, BroadcastAppendOne, CommitOperation,
        FailOperation, ForwardSubmission, ForwardReturns, vars, history

\* A cluster of an odd number of nodes, as the compose files start it.
OddCluster == \E k \in Nat : Cardinality(Node) = 2 * k + 1

LEMMA RivalsVoted ==
  ASSUME OddCluster, TypeOK, OneGrantPerTerm, WinInv
  PROVE  RivalWinnersVoted
  <1> SUFFICES ASSUME NEW v \in wins, NEW w \in wins,
                      v.term = w.term, v.node # w.node
               PROVE  /\ v.voters \cap w.voters = {}
                      /\ v.node \in w.voters \/ w.node \in v.voters
    BY DEF RivalWinnersVoted
  <1>1. /\ v.node \in Node /\ w.node \in Node
        /\ v.voters \in SUBSET Node /\ w.voters \in SUBSET Node
    BY DEF TypeOK
  <1>2. v.voters \cap w.voters = {}
    <2> SUFFICES ASSUME NEW u \in v.voters \cap w.voters PROVE FALSE
      OBVIOUS
    <2>1. Vote(u, v.node, v.term) \in grants /\ Vote(u, w.node, v.term) \in grants
      BY DEF WinInv, WinsGranted
    <2> QED
      BY <2>1 DEF OneGrantPerTerm, Vote
  <1>3. PICK k \in Nat : Cardinality(Node) = 2 * k + 1
    BY DEF OddCluster
  <1>4. ASSUME NEW x \in wins
        PROVE  /\ x.voters \cup {x.node} \subseteq Node
               /\ Cardinality(x.voters \cup {x.node}) \in Nat
               /\ Cardinality(x.voters \cup {x.node}) >= k + 1
    <2>1. /\ x.node \in Node /\ x.voters \in SUBSET Node
          /\ x.node \notin x.voters
          /\ Cardinality(x.voters) + 1 >= Majority(x.node)
      BY DEF TypeOK, WinInv, WinsGranted
    <2>2. Len(Peers[x.node]) = 2 * k
      <3>1. Len(Peers[x.node]) = Cardinality(Node) - 1
        BY <2>1, PeersAssumption
      <3> QED
        BY <1>3, <3>1
    <2>3. Majority(x.node) = k + 1
      <3>1. (2 * k) \div 2 = k
        OBVIOUS
      <3> QED
        BY <2>2, <3>1 DEF Majority
    <2>4. IsFiniteSet(x.voters) /\ Cardinality(x.voters) \in Nat
      BY <2>1, NodeAssumption, FS_Subset, FS_CardinalityType
    <2>5. Cardinality(x.voters \cup {x.node}) = Cardinality(x.voters) + 1
      BY <2>1, <2>4, FS_AddElement
    <2> QED
      BY <1>3, <2>1, <2>3, <2>4, <2>5
  <1>5. (v.voters \cup {v.node}) \cap (w.voters \cup {w.node}) # {}
    <2> DEFINE V == v.voters \cup {v.node}
               W == w.voters \cup {w.node}
    <2>1. /\ V \subseteq Node /\ W \subseteq Node
          /\ Cardinality(V) \in Nat /\ Cardinality(W) \in Nat
          /\ Cardinality(V) >= k + 1 /\ Cardinality(W) >= k + 1
      BY <1>4
    <2> HIDE DEF V, W
    <2>2. Cardinality(V) + Cardinality(W) > Cardinality(Node)
      BY <1>3, <2>1
    <2>3. V \cap W # {}
      BY <2>1, <2>2, NodeAssumption, FS_MajoritiesIntersect
    <2> QED
      BY <2>3 DEF V, W
  <1> QED
    BY <1>2, <1>5

\* In an odd cluster two winners of a term share no voter, and one of them
\* voted for the other.
THEOREM RivalsOnlyByVoting == OddCluster => (Spec => []RivalWinnersVoted)
  <1> SUFFICES ASSUME OddCluster PROVE Spec => []RivalWinnersVoted
    OBVIOUS
  <1>1. Init => GrantInv /\ WinInv
    BY DEF Init, GrantInv, OneGrantPerTerm, GrantsHeld, WinInv, VotesGranted,
           WinsGranted, Idle
  <1>2. TypeInv /\ GrantInv /\ WinInv => RivalWinnersVoted
    BY RivalsVoted DEF TypeInv, GrantInv
  <1> QED
    BY <1>1, <1>2, GrantStep, WinStep, TypeInvariant, PTL DEF Spec

-----------------------------------------------------------------------------
(* Logs.                                                                   *)

LEMMA LogsGrow ==
  ASSUME TypeInv, [Next]_vars
  PROVE  \A n \in Node : Len(log'[n]) >= Len(log[n])
  <1>0. log \in [Node -> Seq(Entry)]
    BY DEF TypeInv, TypeOK
  <1>1. ASSUME NEW m \in appendRequests, NEW inTime \in BOOLEAN,
               AppendEntries(m, inTime)
        PROVE  \A n \in Node : Len(log'[n]) >= Len(log[n])
    <2>1. m.to \in Node /\ m.log \in Seq(Entry)
      BY DEF TypeInv, TypeOK, AppendRequest
    <2>2. log' = [log EXCEPT ![m.to] = Merge(@, m.log)]
      BY <1>1 DEF AppendEntries, TermTaken
    <2> QED
      BY <1>0, <2>1, <2>2, MergeGrows
  <1>2. ASSUME NEW n \in Node, NEW op \in Op, AppendOperation(n, op)
        PROVE  \A p \in Node : Len(log'[p]) >= Len(log[p])
    <2>1. PICK e \in Entry : log' = [log EXCEPT ![n] = Append(@, e)]
      <3>1. term[n] \in Nat /\ Len(log[n]) + 1 \in Index
        BY <1>0, <1>2, BoundAssumption DEF TypeInv, TypeOK, AppendOperation, Index
      <3> QED
        BY <1>2, <3>1 DEF AppendOperation, NextIndex, Entry
    <2> QED
      BY <1>0, <2>1
  <1>3. ASSUME log' = log PROVE \A n \in Node : Len(log'[n]) >= Len(log[n])
    BY <1>0, <1>3
  <1> QED
    BY <1>1, <1>2, <1>3
    DEF Next, StartElection, VoteAnswered, VoteAbandoned, LateVoteRequest,
        WinElection, LoseElection, HeartbeatCheck, HeartbeatSend,
        RejectAppendEntries, BroadcastAppendOne, CommitOperation, FailOperation,
        ForwardSubmission, ForwardReturns, vars, logVars

\* No log ever gets shorter.
THEOREM LogsNeverShrink == Spec => LogNeverShrinks
  <1>1. TypeInv /\ [Next]_vars => [\A n \in Node : Len(log'[n]) >= Len(log[n])]_vars
    BY LogsGrow
  <1> QED
    BY <1>1, TypeInvariant, PTL DEF Spec, LogNeverShrinks

\* The logs that requests carry are in place, too.
PlaceInv == OnlyHeadMisplaced /\ \A m \in appendRequests : InPlace(m.log)

LEMMA PlaceStep == TypeInv /\ PlaceInv /\ [Next]_vars => PlaceInv'
  <1> SUFFICES ASSUME TypeInv, PlaceInv, [Next]_vars PROVE PlaceInv'
    OBVIOUS
  <1>0. log \in [Node -> Seq(Entry)]
    BY DEF TypeInv, TypeOK
  <1>1. ASSUME NEW n \in Node, NEW s, InPlace(s), NEW k, log' = log,
               appendRequests' = appendRequests \cup Appends(n, s, k)
        PROVE  PlaceInv'
    BY <1>1 DEF PlaceInv, OnlyHeadMisplaced, Appends
  <1>2. ASSUME NEW n \in Node, HeartbeatSend(n) PROVE PlaceInv'
    BY <1>1, <1>2 DEF HeartbeatSend, logVars, PlaceInv, OnlyHeadMisplaced
  <1>3. ASSUME NEW t \in tasks, BroadcastAppendOne(t) PROVE PlaceInv'
    <2>1. t.node \in Node
      BY DEF TypeInv, TypeOK, Task
    <2>2. InPlace(<<log[t.node][t.index]>>)
      BY DEF InPlace
    <2> QED
      BY <1>1, <1>3, <2>1, <2>2 DEF BroadcastAppendOne, logVars
  <1>4. ASSUME NEW m \in appendRequests, NEW inTime \in BOOLEAN,
               AppendEntries(m, inTime)
        PROVE  PlaceInv'
    <2>1. m.to \in Node
      BY DEF TypeInv, TypeOK, AppendRequest
    <2> QED
      BY <1>0, <1>4, <2>1 DEF AppendEntries, TermTaken, Merge, PlaceInv, OnlyHeadMisplaced
  <1>5. ASSUME NEW n \in Node, NEW op \in Op, AppendOperation(n, op)
        PROVE  PlaceInv'
    <2> DEFINE e == [op |-> op, term |-> term[n], index |-> Len(log[n]) + 1]
    <2>1. log' = [log EXCEPT ![n] = Append(@, e)] /\ e.index = Len(log[n]) + 1
      BY <1>5 DEF AppendOperation, NextIndex
    <2> HIDE DEF e
    <2>2. InPlace(Append(log[n], e))
      <3>1. log[n] \in Seq(Entry) /\ InPlace(log[n])
        BY <1>0 DEF PlaceInv, OnlyHeadMisplaced
      <3>2. /\ Len(Append(log[n], e)) = Len(log[n]) + 1
            /\ Append(log[n], e)[Len(log[n]) + 1] = e
            /\ \A i \in 1..Len(log[n]) : Append(log[n], e)[i] = log[n][i]
        BY <3>1
      <3> QED
        BY <2>1, <3>1, <3>2 DEF InPlace
    <2>3. appendRequests' = appendRequests
      BY <1>5 DEF AppendOperation
    <2> QED
      BY <1>0, <2>1, <2>2, <2>3 DEF PlaceInv, OnlyHeadMisplaced
  <1>6. ASSUME log' = log, appendRequests' \subseteq appendRequests
        PROVE  PlaceInv'
    BY <1>6 DEF PlaceInv, OnlyHeadMisplaced
  <1> QED
    BY <1>2, <1>3, <1>4, <1>5, <1>6
    DEF Next, StartElection, VoteAnswered, VoteAbandoned, LateVoteRequest,
        WinElection, LoseElection, HeartbeatCheck, RejectAppendEntries,
        CommitOperation, FailOperation, ForwardSubmission, ForwardReturns, vars,
        logVars, netVars

\* Every entry of every log but the first is at the index it carries.
THEOREM EntriesInPlace == Spec => []OnlyHeadMisplaced
  <1>1. Init => PlaceInv
    BY DEF Init, PlaceInv, OnlyHeadMisplaced, InPlace
  <1>2. PlaceInv => OnlyHeadMisplaced
    BY DEF PlaceInv
  <1> QED
    BY <1>1, <1>2, PlaceStep, TypeInvariant, PTL DEF Spec

\* The logs that requests carry are ordered, and not ahead of the request.
LogTermInv ==
  /\ LogTermsOrdered
  /\ \A m \in appendRequests :
       TermsAlong(m.log) /\ \A i \in 1..Len(m.log) : m.log[i].term <= m.term

LEMMA EntryTerm ==
  ASSUME NEW s \in Seq(Entry), NEW i \in 1..Len(s)
  PROVE  s[i].term \in Nat
  <1>1. s[i] \in Entry
    OBVIOUS
  <1> QED
    BY <1>1 DEF Entry

LEMMA LogTermStep == TypeInv /\ LogTermInv /\ [Next]_vars => LogTermInv'
  <1> SUFFICES ASSUME TypeInv, LogTermInv, [Next]_vars PROVE LogTermInv'
    OBVIOUS
  <1>0. /\ log \in [Node -> Seq(Entry)] /\ term \in [Node -> Nat]
        /\ appendRequests \subseteq AppendRequest
    BY DEF TypeInv, TypeOK
  <1>t. /\ term' \in [Node -> Nat]
        /\ \A n \in Node : term'[n] >= term[n]
    BY TypeStep, StepGrows DEF TypeInv, TypeOK
  <1>o. ASSUME log' = log PROVE LogTermsOrdered'
    <2> SUFFICES ASSUME NEW q \in Node
                 PROVE  /\ TermsAlong(log[q])
                        /\ \A i \in 1..Len(log[q]) : log[q][i].term <= term'[q]
      BY <1>o DEF LogTermsOrdered
    <2>1. /\ TermsAlong(log[q])
          /\ \A i \in 1..Len(log[q]) : log[q][i].term <= term[q]
      BY DEF LogTermInv, LogTermsOrdered
    <2>2. \A i \in 1..Len(log[q]) : log[q][i].term \in Nat
      BY <1>0, EntryTerm
    <2> QED
      BY <1>0, <1>t, <2>1, <2>2
  <1>1. ASSUME NEW n \in Node, NEW s \in Seq(Entry), NEW k, TermsAlong(s),
               \A i \in 1..Len(s) : s[i].term <= term[n], log' = log,
               appendRequests' = appendRequests \cup Appends(n, s, k)
        PROVE  LogTermInv'
    BY <1>1, <1>o DEF LogTermInv, Appends
  <1>2. ASSUME NEW n \in Node, HeartbeatSend(n) PROVE LogTermInv'
    BY <1>0, <1>1, <1>2 DEF HeartbeatSend, logVars, LogTermInv, LogTermsOrdered
  <1>3. ASSUME NEW t \in tasks, BroadcastAppendOne(t) PROVE LogTermInv'
    <2> DEFINE e == log[t.node][t.index]
    <2>1. t.node \in Node /\ t.index \in 1..Len(log[t.node])
      BY DEF TypeInv, TypeOK, Task, TasksLogged
    <2>2. e \in Entry /\ e.term <= term[t.node]
      BY <1>0, <2>1 DEF LogTermInv, LogTermsOrdered
    <2> HIDE DEF e
    <2>3. <<e>> \in Seq(Entry) /\ Len(<<e>>) = 1 /\ <<e>>[1] = e
      BY <2>2
    <2>4. TermsAlong(<<e>>) /\ \A i \in 1..Len(<<e>>) : <<e>>[i].term <= term[t.node]
      BY <2>2, <2>3 DEF TermsAlong
    <2>5. log' = log /\ appendRequests' = appendRequests \cup
                                            Appends(t.node, <<e>>, t.index)
      BY <1>3 DEF BroadcastAppendOne, logVars, e
    <2> QED
      BY <1>1, <2>1, <2>3, <2>4, <2>5
  <1>4. ASSUME NEW m \in appendRequests, NEW inTime \in BOOLEAN,
               AppendEntries(m, inTime)
        PROVE  LogTermInv'
    <2>1. /\ m.to \in Node /\ m.term \in Nat /\ m.log \in Seq(Entry)
          /\ log' = [log EXCEPT ![m.to] = Merge(log[m.to], m.log)]
          /\ term' = [term EXCEPT ![m.to] = m.term]
          /\ appendRequests' \subseteq appendRequests
      BY <1>0, <1>4 DEF AppendEntries, TermTaken, AppendRequest
    <2>2. ASSUME NEW q \in Node
          PROVE  /\ TermsAlong(log'[q])
                 /\ \A i \in 1..Len(log'[q]) : log'[q][i].term <= term'[q]
      <3>1. CASE log'[q] = log[q]
        <4>1. \A i \in 1..Len(log[q]) : log[q][i].term \in Nat
          BY <1>0, EntryTerm
        <4>2. \A i \in 1..Len(log[q]) : log[q][i].term <= term[q]
          BY DEF LogTermInv, LogTermsOrdered
        <4>3. TermsAlong(log[q])
          BY DEF LogTermInv, LogTermsOrdered
        <4> QED
          BY <1>0, <1>t, <3>1, <4>1, <4>2, <4>3
      <3>2. CASE q = m.to /\ log'[q] = m.log
        BY <1>0, <2>1, <3>2 DEF LogTermInv
      <3> QED
        BY <1>0, <2>1, <3>1, <3>2 DEF Merge
    <2> QED
      BY <2>1, <2>2 DEF LogTermInv, LogTermsOrdered
  <1>5. ASSUME NEW n \in Node, NEW op \in Op, AppendOperation(n, op)
        PROVE  LogTermInv'
    <2> DEFINE e == [op |-> op, term |-> term[n], index |-> NextIndex(n)]
    <2>1. /\ log' = [log EXCEPT ![n] = Append(@, e)]
          /\ e.term = term[n]
          /\ term' = term /\ appendRequests' = appendRequests
      BY <1>5 DEF AppendOperation, nodeVars
    <2> HIDE DEF e
    <2>2. /\ TermsAlong(Append(log[n], e))
          /\ \A i \in 1..Len(Append(log[n], e)) : Append(log[n], e)[i].term <= term[n]
      <3>1. /\ log[n] \in Seq(Entry) /\ TermsAlong(log[n])
            /\ \A i \in 1..Len(log[n]) : log[n][i].term <= term[n]
        BY <1>0 DEF LogTermInv, LogTermsOrdered
      <3>2. /\ Len(Append(log[n], e)) = Len(log[n]) + 1
            /\ Append(log[n], e)[Len(log[n]) + 1] = e
            /\ \A i \in 1..Len(log[n]) : Append(log[n], e)[i] = log[n][i]
        BY <3>1
      <3>3. term[n] \in Nat /\ Len(log[n]) \in Nat
        BY <1>0
      <3> QED
        BY <2>1, <3>1, <3>2, <3>3 DEF TermsAlong
    <2> QED
      BY <1>0, <2>1, <2>2 DEF LogTermInv, LogTermsOrdered
  <1>6. ASSUME log' = log, appendRequests' \subseteq appendRequests
        PROVE  LogTermInv'
    BY <1>6, <1>o DEF LogTermInv
  <1> QED
    BY <1>2, <1>3, <1>4, <1>5, <1>6
    DEF Next, StartElection, VoteAnswered, VoteAbandoned, LateVoteRequest,
        WinElection, LoseElection, HeartbeatCheck, RejectAppendEntries,
        CommitOperation, FailOperation, ForwardSubmission, ForwardReturns, vars,
        logVars, netVars

\* The terms along a log never fall and end at its node's term or before.
THEOREM TermsOrderLogs == Spec => []LogTermsOrdered
  <1>1. Init => LogTermInv
    BY DEF Init, LogTermInv, LogTermsOrdered, TermsAlong
  <1>2. LogTermInv => LogTermsOrdered
    BY DEF LogTermInv
  <1> QED
    BY <1>1, <1>2, LogTermStep, TypeInvariant, PTL DEF Spec

-----------------------------------------------------------------------------
(* Acks.                                                                   *)

\* Request m is one of those task t sent.
SentBy(m, t) == m.from = t.node /\ m.ackFor = t.index

\* A submission owns its index.
TasksDistinct ==
  \A t, u \in tasks : t.node = u.node /\ t.index = u.index => t = u

\* A request is about an index its sender's log has.
RequestsLogged ==
  \A m \in appendRequests : m.ackFor <= Len(log[m.from])

\* Before it is sent, nothing is in flight or acked for a submission but by
\* its own node.
UnsentQuiet ==
  \A t \in tasks : t.phase = "appended" =>
    /\ pendingAcks[t.node][t.index] \subseteq {t.node}
    /\ \A m \in appendRequests : ~SentBy(m, t)

\* Nodes that were ahead when it was sent have not acked it, and still are
\* ahead of every request that is in flight for it.
AheadSilent ==
  \A t \in tasks : t.phase = "sent" =>
    /\ pendingAcks[t.node][t.index] \cap t.ahead = {}
    /\ \A m \in appendRequests, p \in t.ahead : SentBy(m, t) => term[p] > m.term

AckInv == TasksDistinct /\ RequestsLogged /\ UnsentQuiet /\ AheadSilent

TaskTypes ==
  /\ \A t \in tasks : /\ t.node \in Node /\ t.index \in Index
                      /\ t.index \in 1..Len(log[t.node])
                      /\ t.ahead \subseteq Node
  /\ \A m \in appendRequests : /\ m.from \in Node /\ m.to \in Node
                               /\ m.term \in Nat /\ m.ackFor \in 0..MaxLog
  /\ \A n \in Node : Len(log[n]) \in Nat
  /\ term \in [Node -> Nat]
  /\ pendingAcks \in [Node -> [Index -> SUBSET Node]]

LEMMA TaskTyped == TypeInv => TaskTypes
  <1> SUFFICES ASSUME TypeInv PROVE TaskTypes
    OBVIOUS
  <1>1. \A t \in tasks : /\ t.node \in Node /\ t.index \in Index
                         /\ t.index \in 1..Len(log[t.node])
                         /\ t.ahead \subseteq Node
    BY DEF TypeInv, TypeOK, TasksLogged, Task
  <1>2. \A m \in appendRequests : /\ m.from \in Node /\ m.to \in Node
                                  /\ m.term \in Nat /\ m.ackFor \in 0..MaxLog
    BY DEF TypeInv, TypeOK, AppendRequest
  <1>3. \A n \in Node : Len(log[n]) \in Nat
    BY DEF TypeInv, TypeOK
  <1>4. /\ term \in [Node -> Nat]
        /\ pendingAcks \in [Node -> [Index -> SUBSET Node]]
    BY DEF TypeInv, TypeOK
  <1> QED
    BY <1>1, <1>2, <1>3, <1>4 DEF TaskTypes

\* A step that only takes tasks, requests or acks away keeps AckInv.
LEMMA LessKeepsAckInv ==
  ASSUME TaskTypes, AckInv, term' \in [Node -> Nat],
         \A n \in Node : term'[n] >= term[n],
         \A n \in Node : Len(log'[n]) \in Nat /\ Len(log'[n]) >= Len(log[n]),
         tasks' \subseteq tasks, appendRequests' \subseteq appendRequests,
         \A n \in Node, i \in Index : pendingAcks'[n][i] \subseteq pendingAcks[n][i]
  PROVE  AckInv'
  <1>1. TasksDistinct'
    BY DEF AckInv, TasksDistinct
  <1>2. RequestsLogged'
    <2> SUFFICES ASSUME NEW m \in appendRequests'
                 PROVE  m.ackFor <= Len(log'[m.from])
      BY DEF RequestsLogged
    <2>1. /\ m.from \in Node /\ m.ackFor \in 0..MaxLog
          /\ m.ackFor <= Len(log[m.from]) /\ Len(log[m.from]) \in Nat
      BY DEF AckInv, RequestsLogged, TaskTypes
    <2> QED
      BY <2>1, BoundAssumption
  <1>3. UnsentQuiet'
    BY DEF AckInv, UnsentQuiet, TaskTypes, SentBy
  <1>4. AheadSilent'
    <2> SUFFICES ASSUME NEW t \in tasks', t.phase = "sent"
                 PROVE  /\ pendingAcks'[t.node][t.index] \cap t.ahead = {}
                        /\ \A m \in appendRequests', p \in t.ahead :
                             SentBy(m, t) => term'[p] > m.term
      BY DEF AheadSilent, SentBy
    <2>1. /\ t \in tasks /\ t.node \in Node /\ t.index \in Index
          /\ t.ahead \subseteq Node
      BY DEF TaskTypes
    <2>2. pendingAcks'[t.node][t.index] \cap t.ahead = {}
      BY <2>1 DEF AckInv, AheadSilent
    <2>3. ASSUME NEW m \in appendRequests', NEW p \in t.ahead, SentBy(m, t)
          PROVE  term'[p] > m.term
      <3>1. p \in Node /\ m.term \in Nat /\ term[p] > m.term
        BY <2>1, <2>3 DEF AckInv, AheadSilent, TaskTypes
      <3> QED
        BY <3>1 DEF TaskTypes
    <2> QED
      BY <2>2, <2>3
  <1> QED
    BY <1>1, <1>2, <1>3, <1>4 DEF AckInv

LEMMA AckStep == TypeInv /\ AckInv /\ [Next]_vars => AckInv'
  <1> SUFFICES ASSUME TypeInv, AckInv, [Next]_vars PROVE AckInv'
    OBVIOUS
  <1>0. /\ TaskTypes /\ TaskTypes'
        /\ \A n \in Node : term'[n] >= term[n]
        /\ \A n \in Node : Len(log'[n]) >= Len(log[n])
    <2>1. TypeInv' => TaskTypes'
      BY TaskTyped, PTL
    <2>2. TaskTypes /\ TaskTypes'
      BY <2>1, TaskTyped, TypeStep
    <2>3. \A n \in Node : term'[n] >= term[n]
      BY StepGrows
    <2>4. \A n \in Node : Len(log'[n]) >= Len(log[n])
      BY LogsGrow
    <2> QED
      BY <2>2, <2>3, <2>4
  <1>1. ASSUME tasks' \subseteq tasks, appendRequests' \subseteq appendRequests,
               pendingAcks' = pendingAcks
        PROVE  AckInv'
    BY <1>0, <1>1, LessKeepsAckInv DEF TaskTypes
  <1>2. ASSUME NEW n \in Node, HeartbeatSend(n) PROVE AckInv'
    <2>1. /\ tasks' = tasks /\ pendingAcks' = pendingAcks /\ term' = term
          /\ log' = log
          /\ appendRequests' = appendRequests \cup Appends(n, log[n], 0)
      BY <1>2 DEF HeartbeatSend, nodeVars, logVars
    <2>2. \A m \in Appends(n, log[n], 0) : m.from = n /\ m.ackFor = 0
      BY DEF Appends
    <2>3. \A m \in Appends(n, log[n], 0), t \in tasks : ~SentBy(m, t)
      BY <1>0, <2>2 DEF TaskTypes, SentBy
    <2>4. RequestsLogged'
      BY <1>0, <2>1, <2>2 DEF AckInv, RequestsLogged, TaskTypes
    <2>5. UnsentQuiet'
      BY <2>1, <2>3 DEF AckInv, UnsentQuiet, SentBy
    <2>6. AheadSilent'
      BY <2>1, <2>3 DEF AckInv, AheadSilent, SentBy
    <2> QED
      BY <2>1, <2>4, <2>5, <2>6 DEF AckInv, TasksDistinct
  <1>3. ASSUME NEW m \in appendRequests, NEW inTime \in BOOLEAN,
               AppendEntries(m, inTime)
        PROVE  AckInv'
    <2>1. /\ tasks' = tasks
          /\ appendRequests' \subseteq appendRequests
          /\ m.term >= term[m.to]
      BY <1>0, <1>3 DEF AppendEntries, TermTaken, Old, TaskTypes
    <2>2. CASE pendingAcks' = pendingAcks
      BY <1>1, <2>1, <2>2
    <2>3. CASE pendingAcks' = [pendingAcks EXCEPT
                                ![m.from][m.ackFor] = @ \cup {m.to}]
      <3>1. ASSUME NEW t \in tasks, ~SentBy(m, t)
            PROVE  pendingAcks'[t.node][t.index] = pendingAcks[t.node][t.index]
        BY <1>0, <2>3, <3>1 DEF TaskTypes, SentBy
      <3>2. ASSUME NEW t \in tasks
            PROVE  pendingAcks'[t.node][t.index]
                     \subseteq pendingAcks[t.node][t.index] \cup {m.to}
        BY <1>0, <2>3 DEF TaskTypes
      <3>3. ASSUME NEW t \in tasks, SentBy(m, t), t.phase = "sent"
            PROVE  m.to \notin t.ahead
        BY <1>0, <2>1, <3>3 DEF AckInv, AheadSilent, TaskTypes
      <3>4. UnsentQuiet'
        BY <2>1, <3>1 DEF AckInv, UnsentQuiet, SentBy
      <3>5. AheadSilent'
        <4> SUFFICES ASSUME NEW t \in tasks, t.phase = "sent"
                     PROVE  /\ pendingAcks'[t.node][t.index] \cap t.ahead = {}
                            /\ \A r \in appendRequests', p \in t.ahead :
                                 SentBy(r, t) => term'[p] > r.term
          BY <2>1 DEF AheadSilent, SentBy
        <4>1. pendingAcks'[t.node][t.index] \cap t.ahead = {}
          BY <3>1, <3>2, <3>3 DEF AckInv, AheadSilent
        <4>2. ASSUME NEW r \in appendRequests', NEW p \in t.ahead, SentBy(r, t)
              PROVE  term'[p] > r.term
          <5>1. p \in Node /\ r.term \in Nat /\ term[p] > r.term
            BY <1>0, <2>1, <4>2 DEF AckInv, AheadSilent, TaskTypes
          <5> QED
            BY <1>0, <5>1 DEF TaskTypes
        <4> QED
          BY <4>1, <4>2
      <3>6. RequestsLogged'
        <4> SUFFICES ASSUME NEW r \in appendRequests
                     PROVE  r.ackFor <= Len(log'[r.from])
          BY <2>1 DEF RequestsLogged
        <4>1. /\ r.from \in Node /\ r.ackFor \in 0..MaxLog
              /\ r.ackFor <= Len(log[r.from])
          BY <1>0 DEF AckInv, RequestsLogged, TaskTypes
        <4> QED
          BY <1>0, <4>1, BoundAssumption DEF TaskTypes
      <3> QED
        BY <2>1, <3>4, <3>5, <3>6 DEF AckInv, TasksDistinct
    <2> QED
      BY <1>3, <2>2, <2>3 DEF AppendEntries, TermTaken
  <1>4. ASSUME NEW n \in Node, NEW op \in Op, AppendOperation(n, op)
        PROVE  AckInv'
    <2> DEFINE idx == Len(log[n]) + 1
               t == [node |-> n, index |-> idx, op |-> op, phase |-> "appended",
                     ahead |-> {}]
    <2>1. /\ tasks' = tasks \cup {t} /\ appendRequests' = appendRequests
          /\ pendingAcks' = [pendingAcks EXCEPT ![n][idx] = {n}]
          /\ term' = term
      BY <1>4 DEF AppendOperation, NextIndex, nodeVars
    <2>2. idx \in Index
      BY <1>0, <1>4, BoundAssumption DEF AppendOperation, TaskTypes, Index
    <2>3. \A u \in tasks : ~(u.node = n /\ u.index = idx)
      BY <1>0 DEF TaskTypes
    <2>4. \A m \in appendRequests : ~(m.from = n /\ m.ackFor = idx)
      BY <1>0 DEF TaskTypes, AckInv, RequestsLogged
    <2>5. \A u \in tasks :
            pendingAcks'[u.node][u.index] = pendingAcks[u.node][u.index]
      BY <1>0, <2>1, <2>3 DEF TaskTypes
    <2>6. pendingAcks'[n][idx] = {n}
      BY <1>0, <2>1, <2>2 DEF TaskTypes
    <2> HIDE DEF idx
    <2>7. TasksDistinct'
      <3>1. t.node = n /\ t.index = idx
        OBVIOUS
      <3> HIDE DEF t
      <3> QED
        BY <2>1, <2>3, <3>1 DEF AckInv, TasksDistinct
    <2>8. RequestsLogged'
      <3> SUFFICES ASSUME NEW r \in appendRequests
                   PROVE  r.ackFor <= Len(log'[r.from])
        BY <2>1 DEF RequestsLogged
      <3>1. /\ r.from \in Node /\ r.ackFor \in 0..MaxLog
            /\ r.ackFor <= Len(log[r.from])
        BY <1>0 DEF AckInv, RequestsLogged, TaskTypes
      <3> QED
        BY <1>0, <3>1, BoundAssumption DEF TaskTypes
    <2>9. UnsentQuiet'
      BY <2>1, <2>4, <2>5, <2>6 DEF AckInv, UnsentQuiet, SentBy
    <2>10. AheadSilent'
      BY <2>1, <2>5 DEF AckInv, AheadSilent, SentBy
    <2> QED
      BY <2>7, <2>8, <2>9, <2>10 DEF AckInv
  <1>5. ASSUME NEW t \in tasks, BroadcastAppendOne(t) PROVE AckInv'
    <2> DEFINE n == t.node
               s == <<log[n][t.index]>>
               u == [t EXCEPT !.phase = "sent",
                              !.ahead = {p \in Node : term[p] > term[n]}]
    <2>1. /\ tasks' = (tasks \ {t}) \cup {u}
          /\ appendRequests' = appendRequests \cup Appends(n, s, t.index)
          /\ pendingAcks' = pendingAcks /\ term' = term /\ log' = log
          /\ t.phase = "appended" /\ t \in Task
      BY <1>5 DEF BroadcastAppendOne, nodeVars, logVars, TypeInv, TypeOK
    <2>2. /\ n \in Node /\ t.index \in 1..Len(log[n])
          /\ u.node = n /\ u.index = t.index /\ u.phase = "sent"
          /\ u.ahead = {p \in Node : term[p] > term[n]}
      BY <1>0, <2>1 DEF TaskTypes, Task
    <2>3. \A m \in Appends(n, s, t.index) :
            m.from = n /\ m.ackFor = t.index /\ m.term = term[n]
      BY DEF Appends
    <2>4. \A v \in tasks \ {t} : ~(v.node = n /\ v.index = t.index)
      BY DEF AckInv, TasksDistinct
    <2>5. \A m \in Appends(n, s, t.index), v \in tasks \ {t} : ~SentBy(m, v)
      BY <2>3, <2>4 DEF SentBy
    <2> HIDE DEF u, s
    <2>6. TasksDistinct'
      BY <2>1, <2>2, <2>4 DEF AckInv, TasksDistinct
    <2>7. RequestsLogged'
      BY <2>1, <2>2, <2>3 DEF AckInv, RequestsLogged
    <2>8. UnsentQuiet'
      BY <2>1, <2>2, <2>5 DEF AckInv, UnsentQuiet, SentBy
    <2>9. AheadSilent'
      <3> SUFFICES ASSUME NEW v \in tasks', v.phase = "sent"
                   PROVE  /\ pendingAcks[v.node][v.index] \cap v.ahead = {}
                          /\ \A m \in appendRequests', p \in v.ahead :
                               SentBy(m, v) => term[p] > m.term
        BY <2>1 DEF AheadSilent, SentBy
      <3>1. CASE v = u
        <4>1. n \notin u.ahead
          BY <1>0, <2>2 DEF TaskTypes
        <4>2. pendingAcks[n][t.index] \subseteq {n}
          BY <2>1 DEF AckInv, UnsentQuiet
        <4>3. \A m \in appendRequests : ~SentBy(m, u)
          BY <2>1, <2>2 DEF AckInv, UnsentQuiet, SentBy
        <4> QED
          BY <2>1, <2>2, <2>3, <3>1, <4>1, <4>2, <4>3
      <3>2. CASE v \in tasks \ {t}
        BY <2>1, <2>5, <3>2 DEF AckInv, AheadSilent
      <3> QED
        BY <2>1, <3>1, <3>2
    <2> QED
      BY <2>6, <2>7, <2>8, <2>9 DEF AckInv
  <1>6. ASSUME NEW t \in tasks, CommitOperation(t) PROVE AckInv'
    <2>1. /\ tasks' \subseteq tasks /\ appendRequests' = appendRequests
          /\ pendingAcks' = [pendingAcks EXCEPT ![t.node][t.index] = {}]
      BY <1>6 DEF CommitOperation, netVars
    <2>2. \A n \in Node, i \in Index : pendingAcks'[n][i] \subseteq pendingAcks[n][i]
      BY <1>0, <2>1 DEF TaskTypes
    <2> QED
      BY <1>0, <2>1, <2>2, LessKeepsAckInv DEF TaskTypes
  <1> QED
    BY <1>1, <1>2, <1>3, <1>4, <1>5, <1>6
    DEF Next, StartElection, VoteAnswered, VoteAbandoned, LateVoteRequest,
        WinElection, LoseElection, HeartbeatCheck, RejectAppendEntries,
        FailOperation, ForwardSubmission, ForwardReturns, vars, logVars, netVars

\* A commit counts acks of nodes that were not ahead.
LEMMA CommitByMajority ==
  ASSUME TypeInv, AckInv, NEW t \in tasks, CommitOperation(t)
  PROVE  Cardinality(Node \ t.ahead) >= Majority(t.node)
  <1> DEFINE acks == pendingAcks[t.node][t.index]
  <1>1. /\ acks \in SUBSET Node /\ acks \cap t.ahead = {}
        /\ Cardinality(acks) >= Majority(t.node)
        /\ Len(Peers[t.node]) \in Nat
    BY TaskTyped, PeersAssumption
    DEF CommitOperation, Acked, AckInv, AheadSilent, TaskTypes
  <1>2. IsFiniteSet(Node \ t.ahead) /\ acks \subseteq Node \ t.ahead
    BY <1>1, NodeAssumption, FS_Difference
  <1> HIDE DEF acks
  <1>3. /\ Cardinality(acks) \in Nat /\ Cardinality(Node \ t.ahead) \in Nat
        /\ Cardinality(acks) <= Cardinality(Node \ t.ahead)
    BY <1>2, FS_Subset, FS_CardinalityType
  <1>4. Majority(t.node) \in Nat
    <2>1. \A k \in Nat : k \div 2 + 1 \in Nat
      OBVIOUS
    <2> QED
      BY <1>1, <2>1 DEF Majority
  <1> QED
    BY <1>1, <1>3, <1>4

\* A submission sent in a term a majority had left is never reported committed.
THEOREM StaleLeadersFail == Spec => []StaleLeaderCannotCommit
  <1> DEFINE Inv == AckInv /\ StaleLeaderCannotCommit
  <1>1. Init => Inv
    BY DEF Init, AckInv, TasksDistinct, RequestsLogged, UnsentQuiet, AheadSilent,
           StaleLeaderCannotCommit
  <1>2. TypeInv /\ Inv /\ [Next]_vars => Inv'
    <2> SUFFICES ASSUME TypeInv, Inv, [Next]_vars PROVE Inv'
      OBVIOUS
    <2>1. ASSUME NEW t \in tasks, CommitOperation(t)
          PROVE  StaleLeaderCannotCommit'
      <3>1. reported' = reported \cup {[node |-> t.node, index |-> t.index,
                                         op |-> t.op, ahead |-> t.ahead]}
        BY <2>1 DEF CommitOperation
      <3>2. Cardinality(Node \ t.ahead) >= Majority(t.node)
        BY <2>1, CommitByMajority
      <3> SUFFICES ASSUME NEW r \in reported'
                   PROVE  Cardinality(Node \ r.ahead) >= Majority(r.node)
        BY DEF StaleLeaderCannotCommit, Majority
      <3>3. CASE r \in reported
        BY <3>3 DEF StaleLeaderCannotCommit
      <3> QED
        BY <3>1, <3>2, <3>3
    <2>2. ASSUME reported' = reported PROVE StaleLeaderCannotCommit'
      BY <2>2 DEF StaleLeaderCannotCommit, Majority
    <2>3. StaleLeaderCannotCommit'
      BY <2>1, <2>2
      DEF Next, StartElection, VoteAnswered, VoteAbandoned, LateVoteRequest,
          WinElection, LoseElection, HeartbeatCheck, HeartbeatSend,
          RejectAppendEntries, AppendEntries, AppendOperation,
          BroadcastAppendOne, FailOperation, ForwardSubmission, ForwardReturns,
          vars, history
    <2> QED
      BY <2>3, AckStep
  <1>3. Inv => StaleLeaderCannotCommit
    OBVIOUS
  <1> QED
    BY <1>1, <1>2, <1>3, TypeInvariant, PTL DEF Spec

-----------------------------------------------------------------------------
(* What was reported committed.                                            *)

ReportedAt(i) == i = 0 \/ \E r \in reported : r.index = i

\* A request carries a commit index of its sender's.
CommitInv ==
  /\ \A n \in Node : ReportedAt(commitIndex[n])
  /\ \A m \in appendRequests : ReportedAt(m.commitIndex)

LEMMA CommitStep == TypeInv /\ CommitInv /\ [Next]_vars => CommitInv'
  <1> SUFFICES ASSUME TypeInv, CommitInv, [Next]_vars PROVE CommitInv'
    OBVIOUS
  <1> USE DEF CommitInv, ReportedAt
  <1>1. ASSUME UNCHANGED <<commitIndex, reported>>,
               appendRequests' \subseteq appendRequests
        PROVE  CommitInv'
    BY <1>1
  <1>2. ASSUME UNCHANGED <<commitIndex, reported>>, NEW n \in Node,
               NEW s, NEW i,
               appendRequests' = appendRequests \cup Appends(n, s, i)
        PROVE  CommitInv'
    <2>1. \A m \in Appends(n, s, i) : m.commitIndex = commitIndex[n]
      BY DEF Appends
    <2> QED
      BY <1>2, <2>1
  <1>3. ASSUME NEW m \in appendRequests, NEW inTime \in BOOLEAN,
               AppendEntries(m, inTime)
        PROVE  CommitInv'
    <2>1. /\ commitIndex' = [commitIndex EXCEPT ![m.to] =
                               Larger(m.commitIndex, @)]
          /\ UNCHANGED reported /\ appendRequests' \subseteq appendRequests
      BY <1>3 DEF AppendEntries, TermTaken, history
    <2>2. \A n \in Node : commitIndex'[n] \in {m.commitIndex, commitIndex[n]}
      BY <2>1 DEF Larger, TypeInv, TypeOK
    <2> QED
      BY <2>1, <2>2
  <1>4. ASSUME NEW t \in tasks, CommitOperation(t) PROVE CommitInv'
    <2>1. /\ commitIndex' = [commitIndex EXCEPT ![t.node] = t.index]
          /\ UNCHANGED appendRequests
      BY <1>4 DEF CommitOperation, netVars
    <2> DEFINE r == [node |-> t.node, index |-> t.index, op |-> t.op,
                     ahead |-> t.ahead]
    <2>2. reported' = reported \cup {r} /\ r.index = t.index
      BY <1>4 DEF CommitOperation
    <2> HIDE DEF r
    <2>3. \A n \in Node : commitIndex'[n] \in {t.index, commitIndex[n]}
      BY <2>1 DEF TypeInv, TypeOK
    <2> QED
      BY <2>1, <2>2, <2>3
  <1>5. ASSUME NEW t \in tasks, BroadcastAppendOne(t) PROVE CommitInv'
    BY <1>2, <1>5, TaskTyped
    DEF BroadcastAppendOne, logVars, history, TaskTypes
  <1>6. ASSUME NEW n \in Node, HeartbeatSend(n) PROVE CommitInv'
    BY <1>2, <1>6 DEF HeartbeatSend, logVars, history
  <1> QED
    BY <1>1, <1>3, <1>4, <1>5, <1>6
    DEF Next, StartElection, VoteAnswered, VoteAbandoned, LateVoteRequest,
        WinElection, LoseElection, HeartbeatCheck, RejectAppendEntries,
        AppendOperation, FailOperation, ForwardSubmission, ForwardReturns,
        vars, logVars, netVars, history

\* A commit index is that of an operation reported committed, on every node.
THEOREM CommitIndexesReported == Spec => []CommitIndexReported
  <1>1. Init => CommitInv
    BY DEF Init, CommitInv, ReportedAt
  <1>2. CommitInv => CommitIndexReported
    BY DEF CommitInv, ReportedAt, CommitIndexReported
  <1> QED
    BY <1>1, <1>2, CommitStep, TypeInvariant, PTL DEF Spec

-----------------------------------------------------------------------------
(* Heartbeat threads.                                                      *)

\* An election under way may start a thread, and has a term of its own.
ThreadInv ==
  \A n \in Node :
    IF election[n] = Idle THEN beat[n].threads <= term[n]
                          ELSE beat[n].threads + 1 <= term[n]

LEMMA ThreadStep == TypeInv /\ ThreadInv /\ [Next]_vars => ThreadInv'
  <1> SUFFICES ASSUME TypeInv, ThreadInv, [Next]_vars PROVE ThreadInv'
    OBVIOUS
  <1>0. /\ \A n \in Node : /\ beat[n].threads \in Nat
                            /\ term[n] \in Nat /\ term'[n] \in Nat
                            /\ term[n] <= term'[n]
        /\ beat \in [Node -> [threads : Nat, ready : Nat]]
        /\ election \in [Node -> ElectionType]
        /\ term \in [Node -> Nat]
    <2>1. TypeInv'
      BY TypeStep
    <2> QED
      BY <2>1, StepGrows DEF TypeInv, TypeOK, ElectionType
  <1>1. ASSUME \A n \in Node : /\ election'[n] = Idle <=> election[n] = Idle
                               /\ beat'[n].threads = beat[n].threads
        PROVE  ThreadInv'
    BY <1>0, <1>1 DEF ThreadInv
  <1>2. ASSUME NEW n \in Node, StartElection(n) PROVE ThreadInv'
    <2>1. /\ election[n] = Idle /\ beat' = beat
          /\ term' = [term EXCEPT ![n] = term[n] + 1]
          /\ \A m \in Node \ {n} : election'[m] = election[m]
      BY <1>0, <1>2 DEF StartElection
    <2> QED
      BY <1>0, <2>1 DEF ThreadInv
  <1>3. ASSUME NEW n \in Node, WinElection(n) \/ LoseElection(n)
        PROVE  ThreadInv'
    <2>1. /\ election[n] # Idle /\ term' = term
          /\ election' = [election EXCEPT ![n] = Idle]
          /\ beat' = beat \/ beat' = [beat EXCEPT ![n].threads = @ + 1]
      BY <1>3 DEF WinElection, StartHeartbeat, LoseElection, Polled
    <2>2. \A m \in Node : \/ beat'[m].threads = beat[m].threads
                          \/ m = n /\ beat'[m].threads = beat[m].threads + 1
      BY <1>0, <2>1
    <2>3. election'[n] = Idle /\ \A m \in Node \ {n} : election'[m] = election[m]
      BY <1>0, <2>1
    <2> QED
      BY <1>0, <2>1, <2>2, <2>3 DEF ThreadInv
  <1>4. ASSUME NEW n \in Node, VoteAnswered(n) \/ VoteAbandoned(n)
        PROVE  ThreadInv'
    <2>1. /\ election[n] # Idle /\ beat' = beat
          /\ \A m \in Node \ {n} : election'[m] = election[m]
          /\ election'[n].next = election[n].next + 1
      BY <1>0, <1>4 DEF VoteAnswered, VoteAbandoned, Calling, ElectionType
    <2>2. election'[n] # Idle
      BY <1>0, <2>1 DEF Idle, ElectionType
    <2> QED
      BY <1>1, <2>1, <2>2
  <1>5. ASSUME NEW n \in Node, HeartbeatCheck(n) \/ HeartbeatSend(n)
        PROVE  ThreadInv'
    <2>1. /\ election' = election
          /\ \E k : beat' = [beat EXCEPT ![n].ready = k]
      BY <1>5 DEF HeartbeatCheck, HeartbeatSend
    <2>2. \A m \in Node : beat'[m].threads = beat[m].threads
      BY <1>0, <2>1
    <2> QED
      BY <1>1, <2>1, <2>2
  <1>6. ASSUME UNCHANGED <<election, beat>> PROVE ThreadInv'
    BY <1>1, <1>6
  <1> QED
    BY <1>2, <1>3, <1>4, <1>5, <1>6
    DEF Next, LateVoteRequest, RejectAppendEntries, AppendEntries,
        AppendOperation, BroadcastAppendOne, CommitOperation, FailOperation,
        ForwardSubmission, ForwardReturns, vars

\* A node never has more heartbeat threads than its term.
THEOREM FewHeartbeatThreads == Spec => []HeartbeatThreadsBounded
  <1>1. Init => ThreadInv
    BY DEF Init, ThreadInv, Idle
  <1>2. TypeInv /\ ThreadInv => HeartbeatThreadsBounded
    BY DEF ThreadInv, HeartbeatThreadsBounded, TypeInv, TypeOK
  <1> QED
    BY <1>1, <1>2, ThreadStep, TypeInvariant, PTL DEF Spec
-----------------------------------------------------------------------------
(* Logs under a single leader.                                             *)

\* What s may be when it was taken from the log `leaders'.
TakenFrom(s, leaders) ==
  \/ \E i \in 0..Len(leaders) : s = SubSeq(leaders, 1, i)
  \/ \E i \in 1..Len(leaders) : s = <<leaders[i]>>

\* The only candidate is the only node that leads, submits and sends.
OnlyLeads(l) ==
  /\ \A n \in Node \ {l} :
       state[n] # "leader" /\ election[n] = Idle /\ beat[n].ready = 0
  /\ \A t \in tasks : t.node = l
  /\ \A m \in appendRequests : m.to # l /\ TakenFrom(m.log, log[l])
  /\ \A n \in Node : TakenFrom(log[n], log[l])

SingleInv == \A l \in Node : Candidates = {l} => OnlyLeads(l)

LEMMA TakenWhole ==
  ASSUME NEW s \in Seq(Entry)
  PROVE  TakenFrom(s, s)
  <1>1. SubSeq(s, 1, Len(s)) = s /\ Len(s) \in 0..Len(s)
    OBVIOUS
  <1> QED
    BY <1>1 DEF TakenFrom

LEMMA TakenBefore ==
  ASSUME NEW leaders \in Seq(Entry), NEW e \in Entry, NEW s,
         TakenFrom(s, leaders)
  PROVE  TakenFrom(s, Append(leaders, e))
  <1>1. Len(Append(leaders, e)) = Len(leaders) + 1 /\ Len(leaders) \in Nat
    OBVIOUS
  <1>2. ASSUME NEW i \in 0..Len(leaders), s = SubSeq(leaders, 1, i)
        PROVE  s = SubSeq(Append(leaders, e), 1, i)
    BY <1>2
  <1>3. ASSUME NEW i \in 1..Len(leaders)
        PROVE  Append(leaders, e)[i] = leaders[i]
    OBVIOUS
  <1> QED
    BY <1>1, <1>2, <1>3 DEF TakenFrom

LEMMA SingleStart == Init => SingleInv
  <1>1. <<>> \in Seq(Entry)
    OBVIOUS
  <1>2. TakenFrom(<<>>, <<>>)
    BY <1>1, TakenWhole
  <1> QED
    BY <1>2 DEF Init, SingleInv, OnlyLeads

LEMMA SingleStep == TypeInv /\ SingleInv /\ [Next]_vars => SingleInv'
  <1> SUFFICES ASSUME TypeInv, [Next]_vars, NEW l \in Node, Candidates = {l},
                      OnlyLeads(l)
               PROVE  OnlyLeads(l)'
    BY DEF SingleInv
  <1>0. /\ log \in [Node -> Seq(Entry)]
        /\ state \in [Node -> {"follower", "candidate", "leader"}]
        /\ election \in [Node -> ElectionType]
        /\ beat \in [Node -> [threads : Nat, ready : Nat]]
        /\ appendRequests \subseteq AppendRequest
        /\ tasks \subseteq Task
    BY DEF TypeInv, TypeOK, ElectionType
  \* Steps of elections and heartbeat threads.
  <1>1. ASSUME UNCHANGED <<log, tasks, appendRequests>>,
               \A n \in Node \ {l} : /\ state'[n] # "leader"
                                     /\ election'[n] = Idle
                                     /\ beat'[n].ready = 0
        PROVE  OnlyLeads(l)'
    BY <1>1 DEF OnlyLeads
  <1>2. ASSUME NEW n \in Node,
               \/ StartElection(n) \/ VoteAbandoned(n) \/ WinElection(n)
               \/ LoseElection(n) \/ HeartbeatCheck(n)
        PROVE  OnlyLeads(l)'
    <2>1. n = l
      BY <1>2 DEF StartElection, VoteAbandoned, WinElection, LoseElection,
         HeartbeatCheck, Calling, Polled, OnlyLeads
    <2>2. /\ UNCHANGED <<log, tasks, appendRequests>>
          /\ \A m \in Node \ {l} : /\ state'[m] = state[m]
                                   /\ election'[m] = election[m]
                                   /\ beat'[m] = beat[m]
      BY <1>0, <1>2, <2>1 DEF StartElection, VoteAbandoned, WinElection,
         LoseElection, HeartbeatCheck, logVars, netVars, nodeVars
    <2> QED
      BY <1>1, <2>2 DEF OnlyLeads
  <1>3. ASSUME NEW p \in Node, NEW c \in Node, NEW t \in Nat,
               RequestVote(p, c, t), UNCHANGED <<log, tasks, appendRequests, beat>>,
               \A m \in Node \ {l} : election'[m] = election[m]
        PROVE  OnlyLeads(l)'
    <2>1. \A m \in Node : state'[m] \in {state[m], "follower"}
      BY <1>0, <1>3 DEF RequestVote
    <2> QED
      BY <1>1, <1>3, <2>1 DEF OnlyLeads
  <1>4. ASSUME NEW n \in Node, VoteAnswered(n) PROVE OnlyLeads(l)'
    <2>1. n = l /\ Callee(n) \in Node /\ election[n].term \in Nat
      BY <1>0, <1>4, CalleeIsPeer
      DEF VoteAnswered, Calling, OnlyLeads, TypeInv, ElectionType
    <2>2. \A m \in Node \ {l} : election'[m] = election[m]
      BY <1>0, <1>4, <2>1 DEF VoteAnswered
    <2> QED
      BY <1>3, <1>4, <2>1, <2>2 DEF VoteAnswered, logVars, netVars
  <1>5. ASSUME NEW m \in voteRequests, LateVoteRequest(m) PROVE OnlyLeads(l)'
    <2>1. m.to \in Node /\ m.from \in Node /\ m.term \in Nat
      BY DEF TypeInv, TypeOK
    <2> QED
      BY <1>3, <1>5, <2>1 DEF LateVoteRequest, logVars
  \* Requests that are sent, and handled.
  <1>6. ASSUME NEW s, NEW k, TakenFrom(s, log[l]), UNCHANGED <<log, state, election>>,
               appendRequests' = appendRequests \cup Appends(l, s, k),
               \A t \in tasks' : t.node = l,
               \A n \in Node \ {l} : beat'[n].ready = 0
        PROVE  OnlyLeads(l)'
    <2>1. \A m \in Appends(l, s, k) : m.to # l /\ m.log = s
      BY PeersAssumption DEF Appends
    <2> QED
      BY <1>6, <2>1 DEF OnlyLeads
  <1>7. ASSUME NEW n \in Node, HeartbeatSend(n) PROVE OnlyLeads(l)'
    <2>1. n = l
      BY <1>7 DEF HeartbeatSend, OnlyLeads
    <2>2. \A m \in Node \ {l} : beat'[m] = beat[m]
      BY <1>0, <1>7, <2>1 DEF HeartbeatSend
    <2>3. TakenFrom(log[l], log[l])
      BY <1>0, TakenWhole
    <2> QED
      BY <1>6, <1>7, <2>1, <2>2, <2>3
      DEF HeartbeatSend, OnlyLeads, nodeVars, logVars
  <1>8. ASSUME NEW t \in tasks, BroadcastAppendOne(t) PROVE OnlyLeads(l)'
    <2>1. t.node = l /\ t.index \in 1..Len(log[l]) /\ t \in Task
      BY <1>0 DEF OnlyLeads, TypeInv, TasksLogged
    <2>2. TakenFrom(<<log[l][t.index]>>, log[l])
      BY <2>1 DEF TakenFrom
    <2>3. \A q \in tasks' : q.node = l
      <3>1. [t EXCEPT !.phase = "sent",
                      !.ahead = {p \in Node : term[p] > term[l]}].node = l
        BY <2>1 DEF Task
      <3> QED
        BY <1>8, <2>1, <3>1 DEF BroadcastAppendOne, OnlyLeads
    <2> QED
      BY <1>6, <1>8, <2>1, <2>2, <2>3
      DEF BroadcastAppendOne, OnlyLeads, nodeVars, logVars
  <1>9. ASSUME NEW m \in appendRequests, NEW inTime \in BOOLEAN,
               AppendEntries(m, inTime)
        PROVE  OnlyLeads(l)'
    <2>1. m.to \in Node \ {l} /\ TakenFrom(m.log, log[l])
      BY <1>0 DEF OnlyLeads, AppendRequest
    <2>2. /\ log' = [log EXCEPT ![m.to] = Merge(@, m.log)]
          /\ state' = [state EXCEPT ![m.to] = "follower"]
          /\ UNCHANGED <<election, beat, tasks>>
          /\ appendRequests' = appendRequests \ {m}
      BY <1>9 DEF AppendEntries
    <2>3. log'[l] = log[l] /\ \A n \in Node : TakenFrom(log'[n], log[l])
      BY <1>0, <2>1, <2>2 DEF OnlyLeads, Merge
    <2>4. \A n \in Node \ {l} : state'[n] # "leader"
      BY <1>0, <2>1, <2>2 DEF OnlyLeads
    <2> QED
      BY <2>2, <2>3, <2>4 DEF OnlyLeads
  <1>10. ASSUME NEW n \in Node, NEW op \in Op, AppendOperation(n, op)
         PROVE  OnlyLeads(l)'
    <2> DEFINE e == [op |-> op, term |-> term[n], index |-> Len(log[n]) + 1]
    <2>1. /\ n = l /\ log' = [log EXCEPT ![l] = Append(@, e)]
          /\ UNCHANGED <<state, election, beat, appendRequests>>
          /\ \A t \in tasks' : t.node = l
      <3>1. n = l
        BY <1>10 DEF AppendOperation, OnlyLeads
      <3>2. log' = [log EXCEPT ![n] = Append(@, e)]
        BY <1>10 DEF AppendOperation, NextIndex
      <3>3. UNCHANGED <<state, election, beat, appendRequests>>
        BY <1>10 DEF AppendOperation, nodeVars
      <3> DEFINE r == [node |-> n, index |-> Len(log[n]) + 1, op |-> op,
                       phase |-> "appended", ahead |-> {}]
      <3>4. tasks' = tasks \cup {r}
        BY <1>10 DEF AppendOperation, NextIndex
      <3>5. r.node = n
        OBVIOUS
      <3> HIDE DEF r
      <3> QED
        BY <3>1, <3>2, <3>3, <3>4, <3>5 DEF OnlyLeads
    <2>2. e \in Entry
      BY <1>0, <1>10, BoundAssumption, SMTT(30)
      DEF AppendOperation, Entry, Index, TypeInv, TypeOK
    <2> HIDE DEF e
    <2>3. /\ log'[l] = Append(log[l], e) /\ log[l] \in Seq(Entry)
          /\ Append(log[l], e) \in Seq(Entry)
          /\ \A m \in Node \ {l} : log'[m] = log[m]
      BY <1>0, <2>1, <2>2
    <2>4. \A m \in Node : TakenFrom(log'[m], log'[l])
      BY <2>2, <2>3, TakenBefore, TakenWhole DEF OnlyLeads
    <2>5. \A m \in appendRequests : TakenFrom(m.log, log'[l])
      BY <2>2, <2>3, TakenBefore DEF OnlyLeads
    <2> QED
      BY <2>1, <2>4, <2>5 DEF OnlyLeads
  <1>11. ASSUME UNCHANGED <<log, state, election, beat>>,
                tasks' \subseteq tasks, appendRequests' \subseteq appendRequests
         PROVE  OnlyLeads(l)'
    BY <1>11 DEF OnlyLeads
  <1> QED
    BY <1>2, <1>4, <1>5, <1>7, <1>8, <1>9, <1>10, <1>11
    DEF Next, RejectAppendEntries, CommitOperation, FailOperation,
        ForwardSubmission, ForwardReturns, vars, nodeVars, logVars, netVars

\* In a cluster of any size with one candidate, a follower's log is a prefix of
\* the leader's or one entry of it, in whatever order requests are handled.
THEOREM FollowersTrail == Spec => []FollowerLogShape
  <1>1. SingleInv => FollowerLogShape
    BY DEF SingleInv, OnlyLeads, TakenFrom, FollowerLogShape
  <1> QED
    BY <1>1, SingleStart, SingleStep, TypeInvariant, PTL DEF Spec
=============================================================================
